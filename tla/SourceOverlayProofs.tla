-------------------------- MODULE SourceOverlayProofs --------------------------
(***************************************************************************)
(* Proofs about SourceOverlay, for every set of files, trees, packaged     *)
(* contents and manifests.                                                 *)
(***************************************************************************)
EXTENDS SourceOverlay, TLAPS

(***************************************************************************)
(* The inductive invariant: what the loops of the two scripts have         *)
(* established for the manifest lines they are past.                       *)
(***************************************************************************)
AtLine(i) == Manifest[tree][i]

Validated ==
    phase \in PatchPhase =>
        \A i \in Lines(tree) :
            (phase # "validate" \/ i < pos) => source[AtLine(i)] # Absent

Patched ==
    phase \in PatchPhase \ {"validate"} =>
        \A i \in Lines(tree) :
            /\ i < pos => source[AtLine(i)] = overlay[tree][AtLine(i)]
            /\ (i < pos \/ (i = pos /\ phase \in {"compare", "writing"}))
                   => backup[tree][AtLine(i)] # Absent

Checked ==
    phase \in RecoverPhase =>
        \A i \in Lines(tree) :
            (phase # "check" \/ i < pos) => backup[tree][AtLine(i)] # Absent

Restored ==
    phase \in {"restore", "restoring"} =>
        \A i \in Lines(tree) :
            i < pos => source[AtLine(i)] = backup[tree][AtLine(i)]

Pending == phase # "idle" => outcome = "none"

IInv ==
    /\ TypeOK
    /\ Pending
    /\ Validated
    /\ Patched
    /\ Checked
    /\ Restored
    /\ WorkIsDone

-----------------------------------------------------------------------------
\* A manifest line below the end names a file.
LEMMA LineIsFile ==
    ASSUME NEW t \in Tree, NEW i \in Lines(t)
    PROVE  Manifest[t][i] \in File
  BY ManifestAssumption DEF Lines

\* The length of a manifest is a natural number.
LEMMA LengthIsNat ==
    ASSUME NEW t \in Tree
    PROVE  Len(Manifest[t]) \in Nat
  BY ManifestAssumption

\* Distinct lines name distinct files.
LEMMA LinesDiffer ==
    ASSUME NEW t \in Tree, NEW i \in Lines(t), NEW j \in Lines(t), i # j
    PROVE  Manifest[t][i] # Manifest[t][j]
  BY ManifestAssumption DEF Lines

\* Inside a loop the line being read is a line of the manifest.
LEMMA RelIsFile ==
    ASSUME TypeOK, ~AtEnd
    PROVE  /\ pos \in Lines(tree)
           /\ rel \in File
           /\ pos + 1 \in 1..Len(Manifest[tree]) + 1
  BY LineIsFile, LengthIsNat DEF TypeOK, AtEnd, rel, Lines

-----------------------------------------------------------------------------
\* The inductive invariant holds initially.
LEMMA InitIInv == Init => IInv
  <1> SUFFICES ASSUME Init PROVE IInv
    OBVIOUS
  <1>1. TypeOK
    <2>1. overlay \in [Tree -> [File -> Patch]]
      BY OverlayAssumption DEF Init
    <2>2. /\ source \in [File -> Content \cup {Absent}]
          /\ backup \in [Tree -> [File -> Content \cup {Absent}]]
      BY DEF Init, Content
    <2>3. pos \in 1..Len(Manifest[tree]) + 1
      BY LengthIsNat DEF Init
    <2> QED
      BY <2>1, <2>2, <2>3, ScenarioAssumption
      DEF Init, TypeOK, PatchPhase, RecoverPhase, Outcome
  <1>2. phase = "idle" /\ outcome = "none"
    BY DEF Init
  <1> QED
    BY <1>1, <1>2 DEF IInv, Pending, Validated, Patched, Checked, Restored,
       PatchPhase, RecoverPhase, WorkIsDone

\* Starting a script establishes the invariant of its first loop.
LEMMA StartIInv ==
    ASSUME IInv,
           \/ \E t \in Tree, f \in BOOLEAN : StartPatch(t, f)
           \/ \E t \in Tree : StartRecovery(t)
    PROVE  IInv'
  <1>1. PICK t \in Tree, f \in BOOLEAN, p \in {"validate", "check"} :
           Start(t, p) /\ force' = f
    BY DEF StartPatch, StartRecovery
  <1>2. /\ phase' = p /\ tree' = t /\ pos' = 1 /\ outcome' = "none"
        /\ UNCHANGED <<allowed, source, backup, overlay>>
    BY <1>1 DEF Start
  <1>3. TypeOK'
    BY <1>1, <1>2, LengthIsNat
    DEF IInv, TypeOK, PatchPhase, RecoverPhase, Outcome, AtEnd
  <1>4. \A i \in Lines(tree)' : ~(i < pos')
    BY <1>2, LengthIsNat DEF Lines
  <1> QED
    BY <1>2, <1>3, <1>4 DEF IInv, Pending, Validated, Patched, Checked, Restored,
       PatchPhase, RecoverPhase, WorkIsDone

\* An exit without success that writes nothing keeps the invariant.
LEMMA ExitIInv ==
    ASSUME IInv, Unwritten, NEW o \in {"missing", "refused", "killed"}, Exit(o)
    PROVE  IInv'
  BY DEF IInv, Unwritten, Exit, running, Pending, TypeOK, Outcome, AtEnd,
     Validated, Patched, Checked, Restored, PatchPhase, RecoverPhase, WorkIsDone

\* The first loop of patch.sh keeps it.
LEMMA ValidateIInv == ASSUME IInv, ValidateTarget PROVE IInv'
  <1>0. /\ phase = "validate" /\ Unwritten
        /\ tree \in Tree /\ pos \in 1..Len(Manifest[tree]) + 1
        /\ UNCHANGED running
    BY DEF ValidateTarget, IInv, TypeOK, Goto, Exit
  <1> USE DEF Lines, AtLine, running, Unwritten
  <1>1. CASE AtEnd /\ Goto("save", 1)
    <2>1. TypeOK'
      BY <1>0, <1>1, LengthIsNat
      DEF IInv, TypeOK, PatchPhase, RecoverPhase, Outcome, AtEnd, Goto
    <2>2. \A i \in Lines(tree) : i < pos
      BY <1>0, <1>1, LengthIsNat DEF AtEnd
    <2> QED
      BY <1>0, <1>1, <2>1, <2>2 DEF Goto, IInv, Pending, Validated, Patched,
         Checked, Restored, PatchPhase, RecoverPhase, WorkIsDone
  <1>2. CASE Exit("missing")
    BY <1>0, <1>2, ExitIInv
  <1>3. CASE ~AtEnd /\ source[rel] # Absent /\ Goto("validate", pos + 1)
    <2>1. TypeOK'
      BY <1>0, <1>3, RelIsFile
      DEF IInv, TypeOK, PatchPhase, RecoverPhase, Outcome, AtEnd, Goto
    <2>2. Validated'
      BY <1>0, <1>3, LengthIsNat DEF Goto, IInv, Validated, PatchPhase, rel
    <2> QED
      BY <1>0, <1>3, <2>1, <2>2 DEF Goto, IInv, Pending, Patched, Checked,
         Restored, PatchPhase, RecoverPhase, WorkIsDone
  <1> QED
    BY <1>1, <1>2, <1>3 DEF ValidateTarget

\* Saving one original keeps it.
LEMMA SaveIInv == ASSUME IInv, SaveOriginal PROVE IInv'
  <1>0. /\ phase = "save" /\ UNCHANGED <<allowed, tree, force>>
        /\ source' = source /\ overlay' = overlay
        /\ tree \in Tree /\ pos \in 1..Len(Manifest[tree]) + 1
    BY DEF SaveOriginal, IInv, TypeOK, Goto, Exit, Unwritten, WriteBackup,
           running
  <1> USE DEF Lines, AtLine, running, Unwritten
  <1>1. CASE AtEnd /\ Exit("applied") /\ Unwritten
    <2>1. TypeOK'
      BY <1>0, <1>1 DEF Exit, IInv, TypeOK, Outcome, AtEnd
    <2>2. \A i \in Lines(tree) : i < pos
      BY <1>0, <1>1, LengthIsNat DEF AtEnd
    <2>3. \A i \in Lines(tree) :
             /\ source[AtLine(i)] # Absent
             /\ source[AtLine(i)] = overlay[tree][AtLine(i)]
             /\ backup[tree][AtLine(i)] # Absent
      BY <1>0, <2>2 DEF IInv, Validated, Patched, PatchPhase
    <2>4. WorkIsDone'
      BY <1>0, <1>1, <2>3 DEF Exit, WorkIsDone, CheckSucceeds,
         Recoverable, Report
    <2> QED
      BY <1>0, <1>1, <2>1, <2>4 DEF Exit, IInv, Pending, Validated, Patched,
         Checked, Restored, PatchPhase, RecoverPhase
  <1>2. CASE ~AtEnd /\ saved # Absent /\ Goto("compare", pos) /\ Unwritten
    <2>1. TypeOK'
      BY <1>0, <1>2 DEF Goto, IInv, TypeOK, PatchPhase, AtEnd
    <2>2. Patched'
      BY <1>0, <1>2 DEF Goto, IInv, Patched, PatchPhase, saved, rel
    <2> QED
      BY <1>0, <1>2, <2>1, <2>2 DEF Goto, IInv, Pending, Validated, Checked,
         Restored, PatchPhase, RecoverPhase, WorkIsDone
  <1>3. CASE Exit("refused") /\ Unwritten
    BY <1>3, ExitIInv
  <1>4. CASE ~AtEnd /\ saved = Absent /\ Goto("saving", pos) /\ WriteBackup(Torn)
    <2>1. /\ phase' = "saving" /\ pos' = pos /\ outcome' = outcome
          /\ backup' = [backup EXCEPT ![tree][rel] = Torn]
      BY <1>4 DEF Goto, WriteBackup
    <2>2. TypeOK'
      BY <1>0, <1>4, <2>1, RelIsFile
      DEF IInv, TypeOK, PatchPhase, AtEnd, Content
    <2>3. \A i \in Lines(tree) :
             backup[tree][AtLine(i)] # Absent => backup'[tree][AtLine(i)] # Absent
      BY <1>0, <2>1, LineIsFile, ContentAssumption DEF IInv, TypeOK
    <2> QED
      BY <1>0, <2>1, <2>2, <2>3 DEF IInv, Pending, Validated, Patched,
         Checked, Restored, PatchPhase, RecoverPhase, WorkIsDone
  <1> QED
    BY <1>0, <1>1, <1>2, <1>3, <1>4 DEF SaveOriginal

\* The copy of an original keeps it: the saved file existed.
LEMMA FinishSaveIInv == ASSUME IInv, FinishSave PROVE IInv'
  <1> USE DEF Lines, AtLine, running
  <1>1. /\ phase = "saving" /\ phase' = "compare" /\ pos' = pos
        /\ backup' = [backup EXCEPT ![tree][rel] = source[rel]]
        /\ UNCHANGED <<allowed, source, overlay, tree, force, outcome>>
        /\ tree \in Tree /\ ~AtEnd
    BY DEF FinishSave, WriteBackup, Goto, IInv, TypeOK
  <1>2. pos \in Lines(tree) /\ rel \in File /\ source[rel] # Absent
    BY <1>1, RelIsFile DEF IInv, Validated, PatchPhase, rel
  <1>3. TypeOK'
    BY <1>1, <1>2 DEF IInv, TypeOK, PatchPhase, AtEnd
  <1>4. \A i \in Lines(tree) :
           (i < pos \/ i = pos) => backup'[tree][AtLine(i)] # Absent
    BY <1>1, <1>2, LineIsFile DEF IInv, TypeOK, Patched, PatchPhase, rel
  <1> QED
    BY <1>1, <1>3, <1>4 DEF IInv, Pending, Validated, Patched, Checked,
       Restored, PatchPhase, RecoverPhase, WorkIsDone

\* Deciding about one target keeps it: the lines before are other files.
LEMMA CompareIInv == ASSUME IInv, CompareTarget PROVE IInv'
  <1> USE DEF Lines, AtLine, running, Unwritten
  <1>0. /\ phase = "compare" /\ UNCHANGED <<allowed, tree, force>>
        /\ backup' = backup /\ overlay' = overlay
        /\ tree \in Tree /\ ~AtEnd
        /\ pos \in Lines(tree) /\ rel \in File
        /\ pos + 1 \in 1..Len(Manifest[tree]) + 1
    BY RelIsFile DEF CompareTarget, WriteSource, Goto, Exit, IInv, TypeOK
  <1>1. CASE source[rel] = packaged /\ Goto("save", pos + 1) /\ Unwritten
    <2>1. TypeOK'
      BY <1>0, <1>1 DEF Goto, IInv, TypeOK, PatchPhase
    <2>2. Patched'
      BY <1>0, <1>1, LengthIsNat
      DEF Goto, IInv, Patched, PatchPhase, rel, packaged
    <2> QED
      BY <1>0, <1>1, <2>1, <2>2 DEF Goto, IInv, Pending, Validated, Checked,
         Restored, PatchPhase, RecoverPhase, WorkIsDone
  <1>2. CASE Exit("refused") /\ Unwritten
    BY <1>2, ExitIInv
  <1>3. CASE Goto("writing", pos) /\ WriteSource(Torn)
    <2>1. /\ phase' = "writing" /\ pos' = pos /\ outcome' = outcome
          /\ source' = [source EXCEPT ![rel] = Torn]
      BY <1>3 DEF Goto, WriteSource
    <2>2. TypeOK'
      BY <1>0, <2>1 DEF IInv, TypeOK, PatchPhase, AtEnd, Content
    <2>3. \A i \in Lines(tree) :
             /\ source'[AtLine(i)] # Absent
             /\ i < pos => source'[AtLine(i)] = source[AtLine(i)]
      BY <1>0, <2>1, LineIsFile, LinesDiffer, ContentAssumption
      DEF IInv, TypeOK, Validated, PatchPhase, rel
    <2> QED
      BY <1>0, <2>1, <2>2, <2>3 DEF IInv, Pending, Validated, Patched,
         Checked, Restored, PatchPhase, RecoverPhase, WorkIsDone
  <1> QED
    BY <1>0, <1>1, <1>2, <1>3 DEF CompareTarget

\* Writing the packaged file extends the patched lines by one.
LEMMA FinishWriteIInv == ASSUME IInv, FinishWrite PROVE IInv'
  <1> USE DEF Lines, AtLine, running
  <1>1. /\ phase = "writing" /\ phase' = "save" /\ pos' = pos + 1
        /\ source' = [source EXCEPT ![rel] = packaged]
        /\ UNCHANGED <<allowed, backup, overlay, tree, force, outcome>>
        /\ tree \in Tree /\ ~AtEnd
        /\ pos \in Lines(tree) /\ rel \in File /\ packaged \in Patch
        /\ pos + 1 \in 1..Len(Manifest[tree]) + 1
    BY RelIsFile DEF FinishWrite, WriteSource, Goto, IInv, TypeOK, packaged
  <1>2. TypeOK'
    BY <1>1 DEF IInv, TypeOK, PatchPhase, Content
  <1>3. \A i \in Lines(tree) :
           /\ source'[AtLine(i)] # Absent
           /\ i < pos => source'[AtLine(i)] = source[AtLine(i)]
           /\ i = pos => source'[AtLine(i)] = overlay[tree][AtLine(i)]
    BY <1>1, LineIsFile, LinesDiffer, ContentAssumption
    DEF IInv, TypeOK, Validated, PatchPhase, rel, packaged
  <1>4. Patched'
    BY <1>1, <1>3, LengthIsNat DEF IInv, Patched, PatchPhase
  <1> QED
    BY <1>1, <1>2, <1>3, <1>4 DEF IInv, Pending, Validated, Checked, Restored,
       PatchPhase, RecoverPhase, WorkIsDone

\* The validation loop of recovery.sh keeps it.
LEMMA CheckIInv == ASSUME IInv, CheckBackup PROVE IInv'
  <1>0. /\ phase = "check" /\ Unwritten
        /\ tree \in Tree /\ pos \in 1..Len(Manifest[tree]) + 1
        /\ UNCHANGED running
    BY DEF CheckBackup, IInv, TypeOK, Goto, Exit
  <1> USE DEF Lines, AtLine, running, Unwritten
  <1>1. CASE AtEnd /\ Goto("restore", 1)
    <2>1. TypeOK'
      BY <1>0, <1>1, LengthIsNat
      DEF IInv, TypeOK, PatchPhase, RecoverPhase, Outcome, AtEnd, Goto
    <2>2. \A i \in Lines(tree) : i < pos /\ ~(i < 1)
      BY <1>0, <1>1, LengthIsNat DEF AtEnd
    <2> QED
      BY <1>0, <1>1, <2>1, <2>2 DEF Goto, IInv, Pending, Validated, Patched,
         Checked, Restored, PatchPhase, RecoverPhase, WorkIsDone
  <1>2. CASE Exit("missing")
    BY <1>0, <1>2, ExitIInv
  <1>3. CASE /\ ~AtEnd /\ Absent \notin {source[rel], saved}
             /\ Goto("check", pos + 1)
    <2>1. TypeOK'
      BY <1>0, <1>3, RelIsFile
      DEF IInv, TypeOK, PatchPhase, RecoverPhase, Outcome, AtEnd, Goto
    <2>2. Checked'
      BY <1>0, <1>3, LengthIsNat DEF Goto, IInv, Checked, RecoverPhase, rel, saved
    <2> QED
      BY <1>0, <1>3, <2>1, <2>2 DEF Goto, IInv, Pending, Validated, Patched,
         Restored, PatchPhase, RecoverPhase, WorkIsDone
  <1> QED
    BY <1>1, <1>2, <1>3 DEF CheckBackup

\* The end of recovery.sh, and the beginning of one copy.
LEMMA RestoreIInv == ASSUME IInv, RestoreFile PROVE IInv'
  <1> USE DEF Lines, AtLine, running, Unwritten
  <1>0. /\ phase = "restore" /\ UNCHANGED <<allowed, tree, force>>
        /\ backup' = backup /\ overlay' = overlay
        /\ tree \in Tree /\ pos \in 1..Len(Manifest[tree]) + 1
    BY DEF RestoreFile, WriteSource, Goto, Exit, IInv, TypeOK
  <1>1. CASE AtEnd /\ Exit("restored") /\ Unwritten
    <2>1. TypeOK'
      BY <1>0, <1>1 DEF Exit, IInv, TypeOK, Outcome, AtEnd
    <2>2. \A i \in Lines(tree) : i < pos
      BY <1>0, <1>1, LengthIsNat DEF AtEnd
    <2>3. WorkIsDone'
      BY <1>0, <1>1, <2>2 DEF Exit, IInv, Restored, WorkIsDone
    <2> QED
      BY <1>0, <1>1, <2>1, <2>3 DEF Exit, IInv, Pending, Validated, Patched,
         Checked, Restored, PatchPhase, RecoverPhase
  <1>2. CASE ~AtEnd /\ Goto("restoring", pos) /\ WriteSource(Torn)
    <2>1. /\ phase' = "restoring" /\ pos' = pos /\ outcome' = outcome
          /\ source' = [source EXCEPT ![rel] = Torn]
          /\ pos \in Lines(tree) /\ rel \in File
      BY <1>2, RelIsFile DEF Goto, WriteSource, IInv
    <2>2. TypeOK'
      BY <1>0, <1>2, <2>1 DEF IInv, TypeOK, RecoverPhase, AtEnd, Content
    <2>3. \A i \in Lines(tree) : i < pos => source'[AtLine(i)] = source[AtLine(i)]
      BY <1>0, <2>1, LineIsFile, LinesDiffer DEF IInv, TypeOK, rel
    <2> QED
      BY <1>0, <2>1, <2>2, <2>3 DEF IInv, Pending, Validated, Patched,
         Checked, Restored, PatchPhase, RecoverPhase, WorkIsDone
  <1> QED
    BY <1>1, <1>2 DEF RestoreFile

\* Copying one original back extends the restored lines by one.
LEMMA FinishRestoreIInv == ASSUME IInv, FinishRestore PROVE IInv'
  <1> USE DEF Lines, AtLine, running
  <1>1. /\ phase = "restoring" /\ phase' = "restore" /\ pos' = pos + 1
        /\ source' = [source EXCEPT ![rel] = saved]
        /\ UNCHANGED <<allowed, backup, overlay, tree, force, outcome>>
        /\ tree \in Tree /\ ~AtEnd
        /\ pos \in Lines(tree) /\ rel \in File
        /\ saved \in Content \cup {Absent}
        /\ pos + 1 \in 1..Len(Manifest[tree]) + 1
    BY RelIsFile DEF FinishRestore, WriteSource, Goto, IInv, TypeOK, saved
  <1>2. TypeOK'
    BY <1>1 DEF IInv, TypeOK, RecoverPhase
  <1>3. \A i \in Lines(tree) :
           /\ i < pos => source'[AtLine(i)] = source[AtLine(i)]
           /\ i = pos => source'[AtLine(i)] = backup[tree][AtLine(i)]
    BY <1>1, LineIsFile, LinesDiffer DEF IInv, TypeOK, rel, saved
  <1>4. Restored'
    BY <1>1, <1>3, LengthIsNat DEF IInv, Restored, RecoverPhase
  <1> QED
    BY <1>1, <1>2, <1>4 DEF IInv, Pending, Validated, Patched, Checked,
       PatchPhase, RecoverPhase, WorkIsDone

\* Between two scripts only the type invariant has anything to say.
LEMMA SurroundingsIInv ==
    ASSUME IInv,
           \/ \E f \in File, c \in {Pristine, Local, Absent} : Edit(f, c)
           \/ \E t \in Tree, o \in Overlays : Regenerate(t, o)
    PROVE  IInv'
  <1>1. /\ phase = "idle" /\ phase' = "idle" /\ outcome' = "none"
        /\ UNCHANGED <<allowed, tree, force, pos>>
    BY DEF Edit, Regenerate, running
  <1>2. TypeOK'
    <2>1. CASE \E f \in File, c \in {Pristine, Local, Absent} : Edit(f, c)
      BY <1>1, <2>1 DEF Edit, IInv, TypeOK, Content, Outcome, AtEnd
    <2>2. CASE \E t \in Tree, o \in Overlays : Regenerate(t, o)
      BY <1>1, <2>2, OverlayAssumption
      DEF Regenerate, IInv, TypeOK, Outcome, AtEnd
    <2> QED
      BY <2>1, <2>2
  <1> QED
    BY <1>1, <1>2 DEF IInv, Pending, Validated, Patched, Checked, Restored,
       PatchPhase, RecoverPhase, WorkIsDone

\* Every step of the specification keeps the inductive invariant.
LEMMA NextIInv == IInv /\ [Next]_vars => IInv'
  <1> SUFFICES ASSUME IInv, [Next]_vars PROVE IInv'
    OBVIOUS
  <1>1. CASE \E t \in Tree, f \in BOOLEAN : StartPatch(t, f)
    BY <1>1, StartIInv
  <1>2. CASE \E t \in Tree : StartRecovery(t)
    BY <1>2, StartIInv
  <1>3. CASE PatchStep
    BY <1>3, ValidateIInv, SaveIInv, FinishSaveIInv, CompareIInv,
       FinishWriteIInv DEF PatchStep
  <1>4. CASE RecoverStep
    BY <1>4, CheckIInv, RestoreIInv, FinishRestoreIInv DEF RecoverStep
  <1>5. CASE Interrupt
    BY <1>5, ExitIInv DEF Interrupt
  <1>6. CASE \/ \E f \in File, c \in {Pristine, Local, Absent} : Edit(f, c)
             \/ \E t \in Tree, o \in Overlays : Regenerate(t, o)
    BY <1>6, SurroundingsIInv
  <1>7. CASE UNCHANGED vars
    BY <1>7 DEF vars, IInv, Pending, TypeOK, Validated, Patched, Checked,
       Restored, WorkIsDone, CheckSucceeds, Recoverable, Report,
       AtLine, Lines, AtEnd
  <1> QED
    BY <1>1, <1>2, <1>3, <1>4, <1>5, <1>6, <1>7 DEF Next, ScriptStep

\* The scripts only ever read and write what they should: type correctness.
THEOREM TypeCorrect == Spec => []TypeOK
  <1>1. IInv => TypeOK
    BY DEF IInv
  <1> QED
    BY InitIInv, NextIInv, <1>1, PTL DEF Spec

\* No tree saved its own packaged file as the original.
Original ==
    /\ \A t \in Tree, f \in File : backup[t][f] # overlay[t][f]
    /\ phase = "saving" => source[rel] # packaged

\* Original is kept by every step: by a tree generated again too, whose files
\* are in the checkout without a backup.
LEMMA NextOriginal ==
    ASSUME IInv, Original, [Next]_vars
    PROVE  Original'
  <1> USE DEF running
  <1> DEFINE Apart(b, o) == \A t \in Tree, f \in File : b[t][f] # o[t][f]
  <1>0. Apart(backup, overlay)
    BY DEF Original
  <1>1. ASSUME UNCHANGED <<backup, overlay>>, phase' # "saving"
        PROVE  Original'
    BY <1>0, <1>1 DEF Original
  <1>2. CASE SaveOriginal
    <2>1. CASE WriteBackup(Torn) /\ Goto("saving", pos) /\ ~AtEnd /\ source[rel] # packaged
      <3>1. rel \in File /\ tree \in Tree
        BY <2>1, RelIsFile DEF IInv, TypeOK
      <3>2. \A t \in Tree, f \in File : backup'[t][f] =
               IF t = tree /\ f = rel THEN Torn ELSE backup[t][f]
        BY <2>1, <3>1 DEF WriteBackup, IInv, TypeOK
      <3>3. overlay' = overlay /\ \A t \in Tree, f \in File : overlay[t][f] \in Patch
        BY <2>1 DEF WriteBackup, IInv, TypeOK
      <3>4. Apart(backup', overlay')
        BY <1>0, <3>2, <3>3, ContentAssumption
      <3>5. (source[rel] # packaged)'
        BY <2>1 DEF WriteBackup, Goto, rel, packaged
      <3> QED
        BY <3>4, <3>5 DEF Original
    <2>2. CASE Unwritten /\ phase' # "saving"
      BY <1>1, <2>2 DEF Unwritten
    <2> QED
      BY <1>2, <2>1, <2>2 DEF SaveOriginal, Goto, Exit
  <1>3. CASE FinishSave
    <2>1. /\ rel \in File /\ tree \in Tree /\ source[rel] # packaged
          /\ WriteBackup(source[rel]) /\ phase' # "saving"
      BY <1>3, RelIsFile DEF FinishSave, Goto, Original, IInv, TypeOK
    <2>2. \A t \in Tree, f \in File : backup'[t][f] =
             IF t = tree /\ f = rel THEN source[rel] ELSE backup[t][f]
      BY <2>1 DEF WriteBackup, IInv, TypeOK
    <2>3. Apart(backup', overlay')
      BY <1>0, <2>1, <2>2 DEF WriteBackup, packaged
    <2> QED
      BY <2>1, <2>3 DEF Original
  <1>4. CASE \E t \in Tree, o \in Overlays : Regenerate(t, o)
    <2>1. PICK t \in Tree, o \in Overlays : Regenerate(t, o)
      BY <1>4
    <2>2. \A u \in Tree, f \in File :
             /\ backup'[u][f] = IF u = t THEN Absent ELSE backup[u][f]
             /\ overlay'[u][f] = IF u = t THEN o[f] ELSE overlay[u][f]
             /\ o[f] \in Patch
      BY <2>1, OverlayAssumption DEF Regenerate, IInv, TypeOK
    <2>3. Apart(backup', overlay')
      BY <1>0, <2>2, ContentAssumption
    <2> QED
      BY <2>1, <2>3 DEF Original, Regenerate
  <1>5. CASE \/ ValidateTarget \/ CompareTarget \/ FinishWrite
             \/ RecoverStep \/ Interrupt
    BY <1>1, <1>5 DEF ValidateTarget, CompareTarget, FinishWrite, RecoverStep,
       CheckBackup, RestoreFile, FinishRestore, Interrupt, Goto, Exit,
       WriteSource, Unwritten, IInv, TypeOK
  <1>6. CASE \/ \E t \in Tree, f \in BOOLEAN : StartPatch(t, f)
             \/ \E t \in Tree : StartRecovery(t)
             \/ \E f \in File, c \in {Pristine, Local, Absent} : Edit(f, c)
    BY <1>1, <1>6 DEF StartPatch, StartRecovery, Start, Edit
  <1>7. CASE UNCHANGED vars
    BY <1>7 DEF vars, Original, rel, packaged
  <1> QED
    BY <1>2, <1>3, <1>4, <1>5, <1>6, <1>7 DEF Next, ScriptStep, PatchStep

\* A script that reports success has patched, or restored, its whole manifest,
\* whatever interrupted or forced runs of this and other trees came before, and
\* recovery.sh leaves none of the files patched that it restores.
THEOREM Complete == Spec => []SuccessIsComplete
  <1>1. Init => Original
    <2>1. Init => \A t \in Tree, f \in File : overlay[t][f] \in Patch
      BY OverlayAssumption DEF Init
    <2> QED
      BY <2>1, ContentAssumption DEF Init, Original
  <1>2. IInv /\ Original => SuccessIsComplete
    BY LineIsFile DEF IInv, SuccessIsComplete, WorkIsDone, RestoredIsOriginal,
       Original, Report, TypeOK
  <1> QED
    BY InitIInv, NextIInv, <1>1, NextOriginal, <1>2, PTL DEF Spec

-----------------------------------------------------------------------------
(***************************************************************************)
(* No base file is lost                                                    *)
(***************************************************************************)
\* The disturbances of a behaviour are chosen once.
LEMMA AllowedIsFixed == [Next]_vars => allowed' = allowed
  BY DEF Next, vars, running, StartPatch, StartRecovery, Start, Goto, Exit,
     ScriptStep, PatchStep, RecoverStep, ValidateTarget, SaveOriginal,
     FinishSave, CompareTarget, FinishWrite, CheckBackup, RestoreFile,
     FinishRestore, Interrupt, Edit, Regenerate

\* A cp in progress writes over nothing but what it truncated itself.
CopyIsTorn ==
    /\ phase = "saving" => saved = Torn
    /\ phase \in {"writing", "restoring"} => source[rel] = Torn

\* CopyIsTorn is kept by every step.
LEMMA NextCopyIsTorn ==
    ASSUME IInv, CopyIsTorn, [Next]_vars
    PROVE  CopyIsTorn'
  <1> USE DEF running
  <1>1. CASE \E t \in Tree, f \in BOOLEAN : StartPatch(t, f)
    BY <1>1 DEF StartPatch, Start, CopyIsTorn
  <1>2. CASE \E t \in Tree : StartRecovery(t)
    BY <1>2 DEF StartRecovery, Start, CopyIsTorn
  <1>3. CASE ValidateTarget \/ CheckBackup \/ Interrupt
    BY <1>3 DEF ValidateTarget, CheckBackup, Interrupt, Goto, Exit, CopyIsTorn
  <1>4. CASE SaveOriginal
    <2>1. CASE ~AtEnd /\ Goto("saving", pos) /\ WriteBackup(Torn)
      <3>1. rel \in File
        BY <2>1, RelIsFile DEF IInv
      <3> QED
        BY <2>1, <3>1 DEF Goto, WriteBackup, CopyIsTorn, saved, rel, IInv, TypeOK
    <2> QED
      BY <1>4, <2>1 DEF SaveOriginal, Goto, Exit, CopyIsTorn
  <1>5. CASE FinishSave \/ FinishWrite \/ FinishRestore
    BY <1>5 DEF FinishSave, FinishWrite, FinishRestore, Goto, CopyIsTorn
  <1>6. CASE CompareTarget
    <2>1. CASE Goto("writing", pos) /\ WriteSource(Torn)
      <3>1. rel \in File
        BY <1>6, RelIsFile DEF CompareTarget, IInv, TypeOK
      <3> QED
        BY <2>1, <3>1 DEF Goto, WriteSource, CopyIsTorn, rel, IInv, TypeOK
    <2> QED
      BY <1>6, <2>1 DEF CompareTarget, Goto, Exit, CopyIsTorn
  <1>7. CASE RestoreFile
    <2>1. CASE ~AtEnd /\ Goto("restoring", pos) /\ WriteSource(Torn)
      <3>1. rel \in File
        BY <2>1, RelIsFile DEF IInv
      <3> QED
        BY <2>1, <3>1 DEF Goto, WriteSource, CopyIsTorn, rel, IInv, TypeOK
    <2> QED
      BY <1>7, <2>1 DEF RestoreFile, Goto, Exit, CopyIsTorn
  <1>8. CASE \/ \E f \in File, c \in {Pristine, Local, Absent} : Edit(f, c)
             \/ \E t \in Tree, o \in Overlays : Regenerate(t, o)
    BY <1>8 DEF Edit, Regenerate, CopyIsTorn
  <1>9. CASE UNCHANGED vars
    BY <1>9 DEF vars, CopyIsTorn, saved, rel
  <1> QED
    BY <1>1, <1>2, <1>3, <1>4, <1>5, <1>6, <1>7, <1>8, <1>9
    DEF Next, ScriptStep, PatchStep, RecoverStep

\* A file stops to be safe only where KeepsBase says.
LEMMA StaysSafe ==
    ASSUME IInv, CopyIsTorn, [Next]_vars, NEW f \in File,
           BaseIsSafe(f), ~BaseIsSafe(f)'
    PROVE  \/ Interrupt /\ Copying(tree, f)
           \/ \E t \in Tree, o \in Overlays : Regenerate(t, o) /\ backup[t][f] = Pristine
           \/ \E c \in {Local, Absent} : Edit(f, c) /\ source[f] = Pristine
  <1> USE DEF running
  <1>1. ASSUME UNCHANGED <<source, backup>>, phase # "saving" \/ f # rel, phase' # "saving"
        PROVE  FALSE
    BY <1>1 DEF BaseIsSafe, Copying
  <1>2. CASE SaveOriginal /\ Goto("saving", pos) /\ WriteBackup(Torn)
    <2>1. rel \in File /\ tree \in Tree /\ saved = Absent
      BY <1>2, RelIsFile DEF SaveOriginal, IInv, TypeOK, Goto, Exit
    <2>2. /\ source' = source /\ tree' = tree /\ rel' = rel /\ phase' = "saving"
          /\ phase # "saving"
      BY <1>2 DEF SaveOriginal, WriteBackup, Goto, rel
    <2>3. \A t \in Tree : backup'[t][f] =
             IF t = tree /\ f = rel THEN Torn ELSE backup[t][f]
      BY <1>2, <2>1 DEF WriteBackup, IInv, TypeOK
    <2> QED
      BY <2>1, <2>2, <2>3, ContentAssumption DEF BaseIsSafe, Copying, saved
  <1>3. CASE FinishSave
    <2>1. /\ phase' # "saving" /\ source' = source /\ tree \in Tree
          /\ saved = Torn /\ rel \in File
      BY <1>3, RelIsFile
      DEF FinishSave, WriteBackup, Goto, CopyIsTorn, IInv, TypeOK
    <2>2. \A t \in Tree : backup'[t][f] =
             IF t = tree /\ f = rel THEN source[rel] ELSE backup[t][f]
      BY <1>3, <2>1 DEF FinishSave, WriteBackup, IInv, TypeOK
    <2> QED
      BY <2>1, <2>2, ContentAssumption DEF BaseIsSafe, Copying, saved
  <1>4. ASSUME NEW c, WriteSource(c), ~AtEnd, saved # Absent,
               phase # "saving", phase' # "saving"
        PROVE  FALSE
    <2>1. /\ rel \in File /\ tree \in Tree /\ backup' = backup
          /\ source' = [source EXCEPT ![rel] = c]
      BY <1>4, RelIsFile DEF WriteSource, IInv, TypeOK
    <2>2. source'[f] = IF f = rel THEN c ELSE source[f]
      BY <2>1 DEF IInv, TypeOK
    <2> QED
      BY <1>4, <2>1, <2>2 DEF BaseIsSafe, Copying, saved
  <1>5. ~(CompareTarget /\ Goto("writing", pos) /\ WriteSource(Torn))
    <2>1. SUFFICES ASSUME CompareTarget, Goto("writing", pos), WriteSource(Torn)
                   PROVE  FALSE
      OBVIOUS
    <2>2. phase = "compare" /\ phase' = "writing" /\ ~AtEnd
      BY <2>1 DEF CompareTarget, Goto, IInv, TypeOK
    <2>3. saved # Absent
      BY <2>2, RelIsFile DEF IInv, Patched, PatchPhase, saved, rel, AtLine
    <2> QED
      BY <1>4, <2>1, <2>2, <2>3
  <1>6. ~FinishWrite
    <2>1. SUFFICES ASSUME FinishWrite PROVE FALSE
      OBVIOUS
    <2>2. /\ phase = "writing" /\ phase' = "save" /\ ~AtEnd
          /\ WriteSource(packaged)
      BY <2>1 DEF FinishWrite, Goto, IInv, TypeOK
    <2>3. saved # Absent
      BY <2>2, RelIsFile DEF IInv, Patched, PatchPhase, saved, rel, AtLine
    <2> QED
      BY <1>4, <2>2, <2>3
  <1>7. ~(RestoreFile /\ ~AtEnd /\ Goto("restoring", pos) /\ WriteSource(Torn))
    <2>1. SUFFICES ASSUME RestoreFile, ~AtEnd, Goto("restoring", pos), WriteSource(Torn)
                   PROVE  FALSE
      OBVIOUS
    <2>2. phase = "restore" /\ phase' = "restoring" /\ saved # Absent
      BY <2>1, RelIsFile
      DEF RestoreFile, Goto, IInv, Checked, RecoverPhase, saved, rel, AtLine
    <2> QED
      BY <1>4, <2>1, <2>2
  <1>8. ~FinishRestore
    <2>1. SUFFICES ASSUME FinishRestore PROVE FALSE
      OBVIOUS
    <2>2. /\ phase = "restoring" /\ phase' = "restore" /\ ~AtEnd
          /\ WriteSource(saved)
      BY <2>1 DEF FinishRestore, Goto, IInv, TypeOK
    <2>3. saved # Absent
      BY <2>2, RelIsFile DEF IInv, Checked, RecoverPhase, saved, rel, AtLine
    <2> QED
      BY <1>4, <2>2, <2>3
  <1>9. CASE \E g \in File, c \in {Pristine, Local, Absent} : Edit(g, c)
    <2>1. PICK g \in File, c \in {Pristine, Local, Absent} : Edit(g, c)
      BY <1>9
    <2>2. /\ phase # "saving" /\ phase' # "saving" /\ backup' = backup
          /\ source' = [source EXCEPT ![g] = c]
      BY <2>1 DEF Edit
    <2>3. source'[f] = IF g = f THEN c ELSE source[f]
      BY <2>2 DEF IInv, TypeOK
    <2>4. source[f] = Pristine /\ source'[f] # Pristine
      BY <2>2, <2>3 DEF BaseIsSafe, Copying
    <2> QED
      BY <2>1, <2>3, <2>4
  <1>10. CASE \E t \in Tree, o \in Overlays : Regenerate(t, o)
    <2>1. PICK t \in Tree, o \in Overlays : Regenerate(t, o)
      BY <1>10
    <2>2. /\ phase # "saving" /\ phase' # "saving" /\ source' = source
          /\ \A u \in Tree : backup'[u][f] = IF u = t THEN Absent ELSE backup[u][f]
      BY <2>1 DEF Regenerate, IInv, TypeOK
    <2>3. backup[t][f] = Pristine
      BY <2>2, ContentAssumption DEF BaseIsSafe, Copying
    <2> QED
      BY <2>1, <2>3
  <1>11. CASE Interrupt
    <2>1. phase' = "idle" /\ UNCHANGED <<source, backup>>
      BY <1>11 DEF Interrupt, Exit, Unwritten
    <2>2. phase = "saving" /\ f = rel
      BY <1>1, <2>1
    <2> QED
      BY <1>11, <2>2 DEF Copying
  <1>12. CASE UNCHANGED vars
    BY <1>12 DEF vars, BaseIsSafe, Copying, rel
  <1>13. ~ \/ \E t \in Tree, g \in BOOLEAN : StartPatch(t, g)
           \/ \E t \in Tree : StartRecovery(t)
           \/ ValidateTarget \/ CheckBackup
    BY <1>1
    DEF StartPatch, StartRecovery, Start, ValidateTarget, CheckBackup, Unwritten,
        Goto, Exit
  <1> DEFINE Quiet == Unwritten /\ phase # "saving" /\ phase' # "saving"
  <1>14. ~Quiet
    BY <1>1 DEF Unwritten
  <1>15. SaveOriginal => Quiet \/ (Goto("saving", pos) /\ WriteBackup(Torn))
    BY DEF SaveOriginal, Goto, Exit
  <1>16. CompareTarget => Quiet \/ (Goto("writing", pos) /\ WriteSource(Torn))
    BY DEF CompareTarget, Goto, Exit
  <1>17. RestoreFile =>
            Quiet \/ (~AtEnd /\ Goto("restoring", pos) /\ WriteSource(Torn))
    BY DEF RestoreFile, Goto, Exit
  <1> QED
    BY <1>2, <1>3, <1>5, <1>6, <1>7, <1>8, <1>9, <1>10, <1>11, <1>12,
       <1>13, <1>14, <1>15, <1>16, <1>17
    DEF Next, ScriptStep, PatchStep, RecoverStep

\* "Apply the overlay without losing base files", for any number of trees and
\* any mix of patch.sh, --force, recovery.sh, interruptions, regenerations,
\* edits and syncs: the fresh content of a file is endangered by no script that
\* runs to its end, and by the three other causes only.
THEOREM BaseIsKept == Spec => KeepsBase
  <1> DEFINE Inv == IInv /\ CopyIsTorn
  <1>1. Init => Inv
    BY InitIInv DEF Init, CopyIsTorn
  <1>2. Inv /\ [Next]_vars => Inv'
    BY NextIInv, NextCopyIsTorn
  <1>3. Inv /\ [Next]_vars => [KeepsBaseStep]_vars
    BY StaysSafe DEF KeepsBaseStep
  <1> QED
    BY <1>1, <1>2, <1>3, PTL DEF Spec, KeepsBase

-----------------------------------------------------------------------------
(***************************************************************************)
(* Plain patch.sh loses nothing, even when it is interrupted               *)
(***************************************************************************)
PlainPatch ==
    allowed \subseteq {"crash"} => force = FALSE /\ phase \notin RecoverPhase

\* Without --force and recovery.sh no forced or restoring run ever begins.
LEMMA NextPlainPatch ==
    ASSUME PlainPatch, [Next]_vars
    PROVE  PlainPatch'
  <1> USE DEF PlainPatch, RecoverPhase, running
  <1> SUFFICES ASSUME allowed \subseteq {"crash"}
               PROVE  force' = FALSE /\ phase' \notin RecoverPhase
    BY AllowedIsFixed
  <1>1. CASE \E t \in Tree, f \in BOOLEAN : StartPatch(t, f)
    BY <1>1 DEF StartPatch, Start
  <1>2. CASE PatchStep
    BY <1>2 DEF PatchStep, ValidateTarget, SaveOriginal, FinishSave,
       CompareTarget, FinishWrite, Goto, Exit
  <1>3. CASE RecoverStep
    BY <1>3 DEF RecoverStep, CheckBackup, RestoreFile, FinishRestore
  <1>4. CASE \/ Interrupt
             \/ \E f \in File, c \in {Pristine, Local, Absent} : Edit(f, c)
             \/ \E t \in Tree, o \in Overlays : Regenerate(t, o)
    BY <1>4 DEF Interrupt, Exit, Edit, Regenerate
  <1>5. CASE UNCHANGED vars
    BY <1>5 DEF vars
  <1> QED
    BY <1>1, <1>2, <1>3, <1>4, <1>5 DEF Next, ScriptStep, StartRecovery

\* A step of plain patch.sh writes only over what a backup also holds.
LEMMA StepKeepsEverything ==
    ASSUME allowed \subseteq {"crash"},
           IInv, CopyIsTorn, PlainPatch, [Next]_vars, ~Edits,
           NEW f \in File, NEW c \in {Pristine, Local}, Held(c, f)
    PROVE  Held(c, f)'
  <1> USE DEF running
  <1>0. c # Torn
    BY ContentAssumption
  <1>1. CASE UNCHANGED <<source, backup>>
    BY <1>1 DEF Held
  <1>2. ASSUME NEW d, WriteBackup(d), saved \in {Absent, Torn},
               tree \in Tree, rel \in File
        PROVE  Held(c, f)'
    <2>1. \A t \in Tree, g \in File : backup'[t][g] =
             IF t = tree /\ g = rel THEN d ELSE backup[t][g]
      BY <1>2 DEF WriteBackup, IInv, TypeOK
    <2>2. source' = source
      BY <1>2 DEF WriteBackup
    <2>3. c # Absent
      BY ContentAssumption
    <2> QED
      BY <1>0, <1>2, <2>1, <2>2, <2>3 DEF Held, saved
  <1>3. ASSUME NEW d, WriteSource(d), source[rel] \in {saved, Torn},
               tree \in Tree, rel \in File
        PROVE  Held(c, f)'
    <2>1. \A g \in File : source'[g] = IF g = rel THEN d ELSE source[g]
      BY <1>3 DEF WriteSource, IInv, TypeOK
    <2>2. backup' = backup
      BY <1>3 DEF WriteSource
    <2> QED
      BY <1>0, <1>3, <2>1, <2>2 DEF Held, saved
  <1>4. CASE SaveOriginal
    <2>1. CASE ~AtEnd /\ saved = Absent /\ WriteBackup(Torn)
      BY <1>2, <2>1, RelIsFile DEF IInv, TypeOK
    <2> QED
      BY <1>1, <1>4, <2>1 DEF SaveOriginal, Unwritten
  <1>5. CASE FinishSave
    BY <1>2, <1>5, RelIsFile DEF FinishSave, CopyIsTorn, IInv, TypeOK
  <1>6. CASE CompareTarget
    <2>1. rel \in File /\ tree \in Tree
      BY <1>6, RelIsFile DEF CompareTarget, IInv, TypeOK
    <2> QED
      BY <1>1, <1>3, <1>6, <2>1 DEF CompareTarget, Unwritten, PlainPatch
  <1>7. CASE FinishWrite
    BY <1>3, <1>7, RelIsFile DEF FinishWrite, CopyIsTorn, IInv, TypeOK
  <1>8. CASE \/ \E t \in Tree, g \in BOOLEAN : StartPatch(t, g)
             \/ ValidateTarget \/ Interrupt \/ UNCHANGED vars
    BY <1>1, <1>8 DEF StartPatch, Start, ValidateTarget, Interrupt, Unwritten,
       vars
  <1>9. ~RecoverStep
    BY DEF PlainPatch, RecoverPhase, RecoverStep, CheckBackup, RestoreFile,
       FinishRestore
  <1> QED
    BY <1>4, <1>5, <1>6, <1>7, <1>8, <1>9
    DEF Next, ScriptStep, PatchStep, StartRecovery, Regenerate, Edits

\* Running patch.sh without --force, interrupted wherever and run again as
\* often as one likes, loses no base file and no local change.
THEOREM PlainPatchKeepsEverything == Spec => KeepsEverything
  <1> DEFINE Inv == IInv /\ CopyIsTorn /\ PlainPatch
             Kept == allowed \subseteq {"crash"} => Keeps({Pristine, Local})
  <1>1. Init => Inv
    BY InitIInv DEF Init, CopyIsTorn, PlainPatch, RecoverPhase
  <1>2. Inv /\ [Next]_vars => Inv'
    BY NextIInv, NextCopyIsTorn, NextPlainPatch
  <1>3. Inv /\ [Next]_vars => [Kept]_vars
    BY StepKeepsEverything DEF Keeps
  <1> QED
    BY <1>1, <1>2, <1>3, PTL DEF Spec, KeepsEverything
=============================================================================
