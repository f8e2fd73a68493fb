---------------------------- MODULE SourceOverlay ----------------------------
(***************************************************************************)
(* The source overlay of a generated device tree: patch.sh copies the      *)
(* packaged files over a TWRP checkout after saving each one to            *)
(* prebuilt/sourcecode/original, recovery.sh copies the saved files back.  *)
(*                                                                         *)
(* Several device trees share one checkout.  One script runs at a time;    *)
(* it may be interrupted at any point, and a cp that is interrupted (or    *)
(* runs out of space) leaves a torn file behind.  Between two scripts a    *)
(* developer may edit or delete a source file or check it out again, and a *)
(* device tree may be generated again, which removes its prebuilt          *)
(* directory with the saved originals.                                     *)
(***************************************************************************)
EXTENDS Naturals, Sequences

CONSTANTS
    File,      \* the source files any overlay replaces
    Tree,      \* the generated device trees that share the checkout
    Patch,     \* the contents a packaged file may have
    Pristine,  \* the content of a file in a fresh checkout
    Local,     \* a content the developer wrote
    Torn,      \* what an interrupted cp leaves
    Absent,    \* no such file
    Manifest,  \* source-files.txt of every tree, in order
    Overlays,  \* the overlays the generator may package
    Scenarios  \* sets of the disturbances that may happen in one behaviour

Content == Patch \cup {Pristine, Local, Torn}

ASSUME ContentAssumption ==
    /\ \A c \in {Pristine, Local, Torn, Absent} : c \notin Patch
    /\ Pristine \notin {Local, Torn, Absent}
    /\ Local \notin {Torn, Absent}
    /\ Torn # Absent

\* The generator removes duplicates: tuple(dict.fromkeys(patches)).
ASSUME ManifestAssumption ==
    /\ Manifest \in [Tree -> Seq(File)]
    /\ \A t \in Tree : \A i, j \in 1..Len(Manifest[t]) :
           Manifest[t][i] = Manifest[t][j] => i = j

ASSUME OverlayAssumption == Overlays \subseteq [File -> Patch]

Disturbance == {"crash", "force", "recover", "regenerate"}

ASSUME ScenarioAssumption == Scenarios \subseteq SUBSET Disturbance

VARIABLES
    allowed,  \* the disturbances of this behaviour
    source,   \* the checkout: content of every source file
    backup,   \* prebuilt/sourcecode/original of every tree
    overlay,  \* prebuilt/sourcecode/files of every tree
    phase,    \* where the running script is, "idle" between scripts
    tree,     \* the tree whose script runs, or ran last
    force,    \* the script was given --force
    pos,      \* the manifest line it is at
    outcome   \* how the last script ended

vars == <<allowed, source, backup, overlay, phase, tree, force, pos, outcome>>
running == <<allowed, tree, force>>

PatchPhase == {"validate", "save", "saving", "compare", "writing"}
RecoverPhase == {"check", "restore", "restoring"}
Outcome == {"none", "applied", "restored", "missing", "refused", "killed"}

\* The manifest line being read; the loops end after the last one.
rel == Manifest[tree][pos]
AtEnd == pos > Len(Manifest[tree])
saved == backup[tree][rel]
packaged == overlay[tree][rel]

Init ==
    /\ allowed \in Scenarios
    /\ source = [f \in File |-> Pristine]
    /\ backup = [t \in Tree |-> [f \in File |-> Absent]]
    /\ overlay \in [Tree -> Overlays]
    /\ phase = "idle"
    /\ tree \in Tree
    /\ force = FALSE
    /\ pos = 1
    /\ outcome = "none"

Start(t, p) ==
    /\ phase = "idle"
    /\ phase' = p
    /\ tree' = t
    /\ pos' = 1
    /\ outcome' = "none"
    /\ UNCHANGED <<allowed, source, backup, overlay>>

Goto(p, i) ==
    /\ phase' = p
    /\ pos' = i
    /\ UNCHANGED <<running, outcome>>

Exit(o) ==
    /\ phase' = "idle"
    /\ outcome' = o
    /\ UNCHANGED <<running, pos>>

Unwritten == UNCHANGED <<source, backup, overlay>>

WriteBackup(c) ==
    /\ backup' = [backup EXCEPT ![tree][rel] = c]
    /\ UNCHANGED <<source, overlay>>

WriteSource(c) ==
    /\ source' = [source EXCEPT ![rel] = c]
    /\ UNCHANGED <<backup, overlay>>

(***************************************************************************)
(* patch.sh [--force]                                                      *)
(***************************************************************************)
StartPatch(t, f) ==
    /\ f => "force" \in allowed
    /\ Start(t, "validate")
    /\ force' = f

\* The first loop reads every target before anything is written.  The
\* packaged file is there: the generator wrote it before the manifest.
ValidateTarget ==
    /\ phase = "validate"
    /\ Unwritten
    /\ \/ AtEnd /\ Goto("save", 1)
       \/ ~AtEnd /\ source[rel] = Absent /\ Exit("missing")
       \/ ~AtEnd /\ source[rel] # Absent /\ Goto("validate", pos + 1)

\* Mutant of SaveOriginal: the target is saved again although a backup exists.
SaveOriginalAgain ==
    /\ phase = "save"
    /\ \/ AtEnd /\ Exit("applied") /\ Unwritten
       \/ /\ ~AtEnd /\ saved = Absent /\ source[rel] = packaged
          /\ Exit("refused") /\ Unwritten
       \/ /\ ~AtEnd /\ source[rel] # packaged
          /\ Goto("saving", pos) /\ WriteBackup(Torn)

\* [ ! -f "$backup" ]: refuse to save a patched file, else begin cp -p.
SaveOriginal ==
    /\ phase = "save"
    /\ \/ AtEnd /\ Exit("applied") /\ Unwritten
       \/ ~AtEnd /\ saved # Absent /\ Goto("compare", pos) /\ Unwritten
       \/ /\ ~AtEnd /\ saved = Absent /\ source[rel] = packaged
          /\ Exit("refused") /\ Unwritten
       \/ /\ ~AtEnd /\ saved = Absent /\ source[rel] # packaged
          /\ Goto("saving", pos) /\ WriteBackup(Torn)

FinishSave ==
    /\ phase = "saving"
    /\ WriteBackup(source[rel])
    /\ Goto("compare", pos)

\* Mutants of CompareTarget: a locally changed file is skipped instead of
\* refused, or overwritten as if --force had been given.
CompareTargetSkips ==
    /\ phase = "compare"
    /\ \/ source[rel] # saved /\ ~force /\ Goto("save", pos + 1) /\ Unwritten
       \/ /\ source[rel] # packaged /\ (source[rel] = saved \/ force)
          /\ Goto("writing", pos) /\ WriteSource(Torn)

CompareTargetForces ==
    /\ phase = "compare"
    /\ \/ source[rel] = packaged /\ Goto("save", pos + 1) /\ Unwritten
       \/ source[rel] # packaged /\ Goto("writing", pos) /\ WriteSource(Torn)

\* Skip a patched file; refuse a locally changed one unless --force.
CompareTarget ==
    /\ phase = "compare"
    /\ \/ source[rel] = packaged /\ Goto("save", pos + 1) /\ Unwritten
       \/ /\ source[rel] # packaged /\ source[rel] # saved /\ ~force
          /\ Exit("refused") /\ Unwritten
       \/ /\ source[rel] # packaged /\ (source[rel] = saved \/ force)
          /\ Goto("writing", pos) /\ WriteSource(Torn)

FinishWrite ==
    /\ phase = "writing"
    /\ WriteSource(packaged)
    /\ Goto("save", pos + 1)

(***************************************************************************)
(* recovery.sh                                                             *)
(***************************************************************************)
StartRecovery(t) ==
    /\ "recover" \in allowed
    /\ Start(t, "check")
    /\ force' = FALSE

CheckBackup ==
    /\ phase = "check"
    /\ Unwritten
    /\ \/ AtEnd /\ Goto("restore", 1)
       \/ ~AtEnd /\ Absent \in {source[rel], saved} /\ Exit("missing")
       \/ ~AtEnd /\ Absent \notin {source[rel], saved} /\ Goto("check", pos + 1)

\* No comparison here: whatever the target holds is overwritten.
RestoreFile ==
    /\ phase = "restore"
    /\ \/ AtEnd /\ Exit("restored") /\ Unwritten
       \/ ~AtEnd /\ Goto("restoring", pos) /\ WriteSource(Torn)

FinishRestore ==
    /\ phase = "restoring"
    /\ WriteSource(saved)
    /\ Goto("restore", pos + 1)

(***************************************************************************)
(* The surroundings                                                        *)
(***************************************************************************)
\* Ctrl-C, a reboot, or set -e after a cp that failed half way.
Interrupt ==
    /\ "crash" \in allowed
    /\ phase # "idle"
    /\ Exit("killed")
    /\ Unwritten

\* An editor, rm, or git checkout and repo sync.
Edit(f, c) ==
    /\ phase = "idle"
    /\ source' = [source EXCEPT ![f] = c]
    /\ outcome' = "none"
    /\ UNCHANGED <<backup, overlay, phase, running, pos>>

\* dump_to_folder: rmtree(device_tree_folder), then a new package.
Regenerate(t, o) ==
    /\ "regenerate" \in allowed
    /\ phase = "idle"
    /\ backup' = [backup EXCEPT ![t] = [f \in File |-> Absent]]
    /\ overlay' = [overlay EXCEPT ![t] = o]
    /\ outcome' = "none"
    /\ UNCHANGED <<source, phase, running, pos>>

PatchStep ==
    \/ ValidateTarget \/ SaveOriginal \/ FinishSave
    \/ CompareTarget \/ FinishWrite

RecoverStep == CheckBackup \/ RestoreFile \/ FinishRestore

ScriptStep == PatchStep \/ RecoverStep

Next ==
    \/ \E t \in Tree, f \in BOOLEAN : StartPatch(t, f)
    \/ \E t \in Tree : StartRecovery(t)
    \/ ScriptStep
    \/ Interrupt
    \/ \E f \in File, c \in {Pristine, Local, Absent} : Edit(f, c)
    \/ \E t \in Tree, o \in Overlays : Regenerate(t, o)

\* A started shell script keeps running: nothing in it waits.
Fairness == WF_vars(ScriptStep)

Spec == Init /\ [][Next]_vars /\ Fairness
-----------------------------------------------------------------------------
(***************************************************************************)
(* Properties                                                              *)
(***************************************************************************)
Lines(t) == 1..Len(Manifest[t])

\* patch.sh --check: what it prints of a file, and its exit status.
Report(t, f) ==
    CASE source[f] = Absent -> "missing"
      [] source[f] = overlay[t][f] -> "patched"
      [] source[f] = backup[t][f] /\ source[f] # overlay[t][f] -> "original"
      [] OTHER -> "locally-changed"

CheckSucceeds(t) == \A i \in Lines(t) : Report(t, Manifest[t][i]) = "patched"

\* recovery.sh would pass its validation loop.
Recoverable(t) ==
    \A i \in Lines(t) : Absent \notin {source[Manifest[t][i]],
                                      backup[t][Manifest[t][i]]}

\* The content c of file f is still on disk, in the checkout or in a backup.
Held(c, f) == source[f] = c \/ \E t \in Tree : backup[t][f] = c

\* Every variable holds a value the scripts can read or write.
TypeOK ==
    /\ allowed \subseteq Disturbance
    /\ source \in [File -> Content \cup {Absent}]
    /\ backup \in [Tree -> [File -> Content \cup {Absent}]]
    /\ overlay \in [Tree -> [File -> Patch]]
    /\ phase \in PatchPhase \cup RecoverPhase \cup {"idle"}
    /\ tree \in Tree
    /\ force \in BOOLEAN
    /\ pos \in 1..Len(Manifest[tree]) + 1
    /\ phase \in {"saving", "compare", "writing", "restoring"} => ~AtEnd
    /\ outcome \in Outcome

\* What a script that reports success did, of its own manifest.
WorkIsDone ==
    /\ outcome = "applied" => CheckSucceeds(tree) /\ Recoverable(tree)
    /\ outcome = "restored" =>
           \A i \in Lines(tree) :
               source[Manifest[tree][i]] = backup[tree][Manifest[tree][i]]

RestoredIsOriginal ==
    outcome = "restored" => \A i \in Lines(tree) : Report(tree, Manifest[tree][i]) # "patched"

\* A script that reports success did the whole manifest: after patch.sh every
\* listed file is the packaged one, has a saved original, and --check agrees;
\* after recovery.sh every listed file is the saved one, and that is never the
\* packaged one.  It holds across interrupted runs, forced runs, trees that
\* share files and regeneration, which leaves patched files without a backup.
SuccessIsComplete == TypeOK /\ WorkIsDone /\ RestoredIsOriginal

Edits == \E f \in File, c \in {Pristine, Local, Absent} : Edit(f, c)

\* No step but the developer's own edit makes one of the contents of a file
\* disappear from the disk.
Keeps(contents) ==
    ~Edits => \A f \in File, c \in contents : Held(c, f) => Held(c, f)'

\* The cp that saves file f of tree t is under way.
Copying(t, f) == phase = "saving" /\ t = tree /\ f = rel

\* No run of any script, forced or not, can lose the fresh content of f: some
\* tree saved it, or it is in the checkout and every tree would save it first.
BaseIsSafe(f) ==
    \/ \E t \in Tree : backup[t][f] = Pristine
    \/ /\ source[f] = Pristine
       /\ \A t \in Tree : backup[t][f] = Absent \/ Copying(t, f)

\* The steps that end that.
KeepsBaseStep ==
    \A f \in File :
        BaseIsSafe(f) /\ ~BaseIsSafe(f)' =>
            \/ Interrupt /\ Copying(tree, f)
            \/ \E t \in Tree, o \in Overlays : Regenerate(t, o) /\ backup[t][f] = Pristine
            \/ \E c \in {Local, Absent} : Edit(f, c) /\ source[f] = Pristine

\* "Without losing base files": in whatever order trees are patched, forced,
\* restored, generated again, edited and synced, the fresh content of a file
\* stays safe, but for three things that the scripts do not see: a save that is
\* interrupted half way, a tree generated again that held a saved copy, and the
\* developer's own change of a file that no tree had saved.
KeepsBase == [][KeepsBaseStep]_vars

\* Without --force patch.sh loses neither base files nor local changes, at
\* whatever point it is interrupted and however often it is run again.
KeepsEverything ==
    [][allowed \subseteq {"crash"} => Keeps({Pristine, Local})]_vars

=============================================================================
