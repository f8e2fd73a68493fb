-------------------------- MODULE DeviceTreeProofs --------------------------
(***************************************************************************)
(* Proofs about DeviceTree, for any images, any packaged files, any number *)
(* of runs and whatever interrupts them: a finished tree is of one run, so *)
(* is a folder that has patch.sh, the overlay fits its branch, and the     *)
(* recovery root of a vendor_boot tree boots through the hook.             *)
(***************************************************************************)
EXTENDS DeviceTree, FiniteSetTheorems, TLAPS

(***************************************************************************)
(* The inductive invariant                                                 *)
(***************************************************************************)
Forms == {"none", "stock", "without avb", "rendered", "hooked"}

\* The steps after mkdir, after the makefiles, and after init.
Begun == {"makefiles", "prebuilts", "fstabs", "root files", "init", "policy", "twrp fstab",
          "legacy fstab", "overlay", "manifest"}
Made == Begun \ {"makefiles"}
Rooted == {"init", "policy", "twrp fstab", "overlay", "manifest"}
Entered == Rooted \ {"init"}

\* What mkdir raises for, if it survived rmtree.
Cleared == IF IsVendorBoot THEN Prebuilt \cup Root ELSE Artefact
Wanted == {source_patch_path(p) : p \in selected_source_patches}

\* From mkdir on, only this run's files are where mkdir looked.
OfThisRun ==
    pc \in Begun \/ Done => \A a \in Cleared : Present(a) => tree[a].dump = dump

MakefilesWritten ==
    /\ pc \in Made \/ Done => tree["makefiles"] = Wrote("rendered")
    /\ pc \in Made /\ (Has("sprd") \/ IsVendorBoot) => tree["twrp product"] = Wrote("rendered")

\* Until its last step, a run over an empty folder has written what is there.
Growing ==
    pc \in {"mkdir"} \cup Begun /\ ~survived =>
        /\ \A a \in Artefact : Present(a) => tree[a].dump = dump
        /\ ~Present("patch.sh")

Packed ==
    /\ pc = "manifest" \/ (Done /\ Has("sprd")) => overlay = Wanted
    /\ pc = "manifest" => Has("sprd")

\* The recovery root of a vendor_boot tree on its way to RecoveryRootFits.
BoardRcHooked ==
    Has("board") /\ Has("common rc") =>
        Present("custom rc") /\ tree["board rc"].form \in {"hooked", "rendered"}
NoAvb == Has("avb") => \A a \in {"first stage", "system fstab"} : tree[a].form # "stock"
RootGrows ==
    IsVendorBoot =>
        /\ pc # "legacy fstab"
        /\ pc \in Begun \/ Done => NoAvb
        /\ pc \in Rooted /\ Has("common rc") => Present("common rc")
        /\ pc \in Entered \/ Done => BoardRcHooked

IInv ==
    /\ TypeOK /\ OfThisRun /\ MakefilesWritten /\ Growing /\ Packed /\ RootGrows
    /\ ScriptMeansWholeTree

-----------------------------------------------------------------------------
(***************************************************************************)
(* Files and what a step writes                                            *)
(***************************************************************************)
Records == [dump : 0 .. dump, form : Forms]

LEMMA Names ==
    /\ Cleared \subseteq Artefact
    /\ {"makefiles", "twrp product", "patch.sh", "source-files.txt", "first stage",
        "system fstab", "common rc", "custom rc", "board rc"} \subseteq Artefact
    /\ IsVendorBoot => {"first stage", "system fstab"} \subseteq Cleared
  BY DEF Cleared, Artefact, Makefiles, Prebuilt, Root, Helper

LEMMA Typed ==
    TypeOK <=>
        /\ dump \in 0 .. MaxDumps
        /\ pc \in {"idle", "remove", "mkdir"} \cup Begun
        /\ outcome \in {"none", "done", "failed", "killed"}
        /\ survived \in BOOLEAN
        /\ tree \in [Artefact -> Records]
        /\ overlay \subseteq Bundled
  BY DEF TypeOK, Begun, Records, Forms

LEMMA WroteFields ==
    ASSUME NEW f \in Forms, dump \in Nat
    PROVE  /\ Wrote(f).dump = dump /\ Wrote(f).form = f /\ Wrote(f) \in Records
           /\ f # "none" => Wrote(f) # NoFile
  BY DEF Wrote, Records, NoFile

LEMMA NothingWrites ==
    ASSUME TypeOK, Nothing
    PROVE  Write([a \in {} |-> "stock"])
<1>1. tree \in [Artefact -> Records]
  BY Typed
<1>2. [a \in Artefact |-> IF a \in {} THEN Wrote("stock") ELSE tree[a]] = tree
  BY <1>1
<1>. QED
  BY <1>2 DEF Nothing, Write

\* A step between mkdir and the last one writes files of this run only.
LEMMA Grows ==
    ASSUME IInv, pc \in Begun, NEW w, DOMAIN w \subseteq Artefact,
           \A a \in DOMAIN w : w[a] \in Forms \ {"none"},
           tree' = [a \in Artefact |-> IF a \in DOMAIN w THEN Wrote(w[a]) ELSE tree[a]],
           overlay' \subseteq Bundled, UNCHANGED <<image, dump, survived>>,
           pc' \in Begun \cup {"idle"}, outcome' \in {"none", "done", "failed", "killed"}
    PROVE  /\ TypeOK' /\ OfThisRun'
           /\ "patch.sh" \notin DOMAIN w => Growing' /\ ScriptMeansWholeTree'
           /\ \A a \in Artefact : tree'[a] = IF a \in DOMAIN w THEN Wrote(w[a]) ELSE tree[a]
           /\ \A a \in DOMAIN w : tree'[a].form = w[a] /\ Present(a)'
           /\ pc \in Made /\ DOMAIN w \cap {"makefiles", "twrp product"} = {} => MakefilesWritten'
<1>0. /\ dump \in 0 .. MaxDumps /\ dump \in Nat /\ tree \in [Artefact -> Records]
      /\ survived \in BOOLEAN
  BY Typed, ImageAssumption DEF IInv
<1>1. \A f \in Forms : /\ Wrote(f).dump = dump /\ Wrote(f).form = f /\ Wrote(f) \in Records
                       /\ f # "none" => Wrote(f) # NoFile
  BY <1>0, WroteFields
<1>2. \A a \in Artefact : tree'[a] = IF a \in DOMAIN w THEN Wrote(w[a]) ELSE tree[a]
  BY Zenon
<1>3. \A a \in DOMAIN w : tree'[a].form = w[a] /\ tree'[a].dump = dump /\ tree'[a] # NoFile
  BY <1>1, <1>2
<1>4. tree' \in [Artefact -> Records]
  BY <1>0, <1>1
<1>5. TypeOK'
  <2>1. /\ dump' \in 0 .. MaxDumps /\ survived' \in BOOLEAN
        /\ pc' \in {"idle", "remove", "mkdir"} \cup Begun
    BY <1>0
  <2>2. tree' \in [Artefact -> Records']
    BY <1>4 DEF Records
  <2>. QED
    BY <2>1, <2>2 DEF TypeOK, Begun, Records, Forms
<1>6. ASSUME NEW S \in SUBSET Artefact, \A a \in S : Present(a) => tree[a].dump = dump
      PROVE  \A a \in S : tree'[a] # NoFile => tree'[a].dump = dump
  BY <1>2, <1>3, <1>6 DEF Present
<1>7. OfThisRun'
  <2>1. \A a \in Cleared : Present(a) => tree[a].dump = dump
    BY DEF IInv, OfThisRun
  <2>2. \A a \in Cleared : tree'[a] # NoFile => tree'[a].dump = dump
    BY <1>6, <2>1, Names
  <2>3. Cleared' = Cleared
    BY DEF Cleared, IsVendorBoot
  <2>. QED
    BY <2>2, <2>3 DEF OfThisRun, Present
<1>8. "patch.sh" \notin DOMAIN w => tree'["patch.sh"] = tree["patch.sh"]
  BY <1>2, Names
<1>9. "patch.sh" \notin DOMAIN w => Growing'
  <2>. SUFFICES ASSUME ~survived, "patch.sh" \notin DOMAIN w
                PROVE  /\ \A a \in Artefact : tree'[a] # NoFile => tree'[a].dump = dump
                       /\ tree'["patch.sh"] = NoFile
    BY DEF Growing, Present
  <2>1. /\ \A a \in Artefact : Present(a) => tree[a].dump = dump
        /\ ~Present("patch.sh")
    BY DEF IInv, Growing
  <2>. QED
    BY <1>6, <1>8, <2>1 DEF Present
<1>10. "patch.sh" \notin DOMAIN w => ScriptMeansWholeTree'
  <2>1. survived \/ tree["patch.sh"] = NoFile
    BY DEF IInv, Growing, Present
  <2>. QED
    BY <1>8, <2>1 DEF ScriptMeansWholeTree, Present
<1>11. ASSUME pc \in Made, DOMAIN w \cap {"makefiles", "twrp product"} = {}
       PROVE  MakefilesWritten'
  <2>1. tree'["makefiles"] = tree["makefiles"] /\ tree'["twrp product"] = tree["twrp product"]
    BY <1>2, <1>11, Names
  <2>. QED
    BY <1>11, <2>1 DEF IInv, MakefilesWritten, Wrote, Has, IsVendorBoot
<1>. QED
  BY <1>2, <1>3, <1>5, <1>7, <1>9, <1>10, <1>11 DEF Present

-----------------------------------------------------------------------------
(***************************************************************************)
(* The steps                                                               *)
(***************************************************************************)
LEMMA Starts == Init => IInv
<1>. SUFFICES ASSUME Init PROVE IInv
  OBVIOUS
<1>1. /\ pc = "idle" /\ outcome = "none" /\ dump = 0 /\ survived = FALSE /\ overlay = {}
      /\ tree = NoTree /\ image = NoImage
  BY DEF Init
<1>2. tree \in [Artefact -> Records] /\ tree["patch.sh"] = NoFile
  <2>1. NoFile \in Records
    BY <1>1 DEF NoFile, Records, Forms
  <2>2. tree = [a \in Artefact |-> NoFile]
    BY <1>1 DEF NoTree
  <2>. HIDE DEF Records
  <2>. QED
    BY <2>1, <2>2, Names
<1>3. dump \in 0 .. MaxDumps
  BY <1>1, ImageAssumption
<1>4. TypeOK
  BY <1>1, <1>2, <1>3, Typed
<1>5. /\ OfThisRun /\ MakefilesWritten /\ Growing /\ Packed /\ RootGrows
      /\ ScriptMeansWholeTree
  BY <1>1, <1>2 DEF OfThisRun, MakefilesWritten, Growing, Packed, RootGrows, Begun, Made, Rooted,
     Entered, Done, ScriptMeansWholeTree, Present
<1>. QED
  BY <1>4, <1>5 DEF IInv

\* A run ends with an error between two writes, or is killed.
LEMMA Stops ==
    ASSUME IInv, pc' = "idle", outcome' \in {"failed", "killed"},
           UNCHANGED <<image, dump, survived, tree, overlay>>
    PROVE  IInv'
<1>1. ~Done' /\ pc' = "idle"
  BY DEF Done
<1>2. TypeOK'
  BY DEF IInv, TypeOK
<1>3. OfThisRun' /\ MakefilesWritten' /\ Growing' /\ Packed'
  BY <1>1 DEF OfThisRun, MakefilesWritten, Growing, Packed, Begun, Made
<1>4. RootGrows'
  BY <1>1 DEF RootGrows, Begun, Rooted, Entered
<1>5. ScriptMeansWholeTree'
  BY DEF IInv, ScriptMeansWholeTree, Present
<1>. QED
  BY <1>2, <1>3, <1>4, <1>5 DEF IInv

LEMMA RunStep ==
    ASSUME IInv, NEW i \in Image, Run(i)
    PROVE  IInv'
<1>1. /\ ~Done' /\ pc' \in {"idle", "remove"} /\ outcome' \in {"none", "failed"}
      /\ dump' = dump + 1 /\ dump < MaxDumps /\ UNCHANGED <<survived, tree, overlay>>
  BY DEF Run, Done
<1>2. TypeOK'
  <2>1. dump \in 0 .. MaxDumps /\ MaxDumps \in Nat
    BY ImageAssumption DEF IInv, TypeOK
  <2>2. dump' \in 0 .. MaxDumps /\ 0 .. dump \subseteq 0 .. dump'
    BY <1>1, <2>1
  <2>3. tree' \in [Artefact -> [dump : 0 .. dump', form : Forms]]
    <3>1. tree \in [Artefact -> Records]
      BY Typed DEF IInv
    <3>2. Records \subseteq [dump : 0 .. dump', form : Forms]
      BY <2>2 DEF Records
    <3>. HIDE DEF Records
    <3>. QED
      BY <1>1, <3>1, <3>2
  <2>. QED
    BY <1>1, <2>2, <2>3 DEF IInv, TypeOK, Forms
<1>3. OfThisRun' /\ MakefilesWritten' /\ Growing' /\ Packed'
  BY <1>1 DEF OfThisRun, MakefilesWritten, Growing, Packed, Begun, Made
<1>4. RootGrows'
  BY <1>1 DEF RootGrows, Begun, Rooted, Entered
<1>5. ScriptMeansWholeTree'
  BY <1>1 DEF IInv, ScriptMeansWholeTree, Present
<1>. QED
  BY <1>2, <1>3, <1>4, <1>5 DEF IInv

\* What rmtree leaves of an earlier run, it marks.
LEMMA RemoveStep ==
    ASSUME IInv, RemoveOldTree
    PROVE  IInv'
<1>1. PICK L \in {{}} \cup {{a} : a \in {b \in Artefact : Present(b)}} \cup {Artefact} :
          /\ tree' = [a \in Artefact |-> IF a \in L THEN tree[a] ELSE NoFile]
          /\ survived' = (tree' # NoTree)
          /\ overlay' = IF "source-files.txt" \in L THEN overlay ELSE {}
  BY DEF RemoveOldTree
<1>2. /\ pc' = "mkdir" /\ outcome' = outcome /\ ~Done' /\ UNCHANGED <<image, dump>>
      /\ overlay' \subseteq Bundled
  BY <1>1 DEF RemoveOldTree, Done, IInv, TypeOK
<1>3. ~survived' => tree' = [a \in Artefact |-> NoFile]
  BY <1>1 DEF NoTree
<1>4. TypeOK'
  <2>1. tree \in [Artefact -> Records] /\ NoFile \in Records
    <3>0. dump \in 0 .. MaxDumps /\ tree \in [Artefact -> Records]
      BY Typed DEF IInv
    <3>1. dump \in Nat
      BY <3>0, ImageAssumption
    <3>2. NoFile \in Records
      BY <3>1 DEF Records, Forms, NoFile
    <3>. QED
      BY <3>0, <3>2
  <2>2. tree' \in [Artefact -> Records]
    <3>. HIDE DEF Records
    <3>. QED
      BY <1>1, <2>1
  <2>3. survived' \in BOOLEAN
    BY <1>1
  <2>4. outcome' \in {"none", "done", "failed", "killed"} /\ dump' \in 0 .. MaxDumps
    BY <1>2 DEF IInv, TypeOK
  <2>. QED
    BY <1>2, <2>2, <2>3, <2>4 DEF TypeOK, Records, Forms
<1>5. OfThisRun' /\ MakefilesWritten' /\ Packed' /\ RootGrows'
  BY <1>2 DEF OfThisRun, MakefilesWritten, Packed, RootGrows, Begun, Made, Rooted, Entered
<1>6. Growing' /\ ScriptMeansWholeTree'
  BY <1>3, Names DEF Growing, ScriptMeansWholeTree, Present
<1>. QED
  BY <1>4, <1>5, <1>6 DEF IInv

LEMMA MkdirStep ==
    ASSUME IInv, MakeFolders
    PROVE  IInv'
<1>0. pc = "mkdir" /\ UNCHANGED <<image, dump, survived, tree, overlay>>
  BY DEF MakeFolders, At, Goto, End, Nothing
<1>1. CASE pc' = "idle" /\ outcome' = "failed"
  BY <1>0, <1>1, Stops
<1>2. CASE pc' = "makefiles" /\ outcome' = outcome /\ \A a \in Cleared : ~Present(a)
  <2>1. ~Done'
    BY <1>2 DEF Done
  <2>2. TypeOK'
    BY <1>0, <1>2 DEF IInv, TypeOK
  <2>3. OfThisRun'
    BY <1>0, <1>2 DEF OfThisRun, Cleared, IsVendorBoot, Present
  <2>4. Growing' /\ ScriptMeansWholeTree'
    BY <1>0 DEF IInv, Growing, ScriptMeansWholeTree, Present
  <2>5. MakefilesWritten' /\ Packed'
    BY <1>2, <2>1 DEF MakefilesWritten, Packed, Made
  <2>6. RootGrows'
    <3>1. IsVendorBoot => tree["first stage"] = NoFile /\ tree["system fstab"] = NoFile
      BY <1>2, Names DEF Present
    <3>2. pc' \notin Rooted /\ pc' \notin Entered /\ pc' # "legacy fstab"
      BY <1>2 DEF Rooted, Entered
    <3>3. IsVendorBoot' => NoAvb'
      <4>1. IsVendorBoot' = IsVendorBoot /\ tree' = tree
        BY <1>0 DEF IsVendorBoot
      <4>2. NoFile.form # "stock"
        BY DEF NoFile
      <4>. HIDE DEF NoFile
      <4>. QED
        BY <3>1, <4>1, <4>2 DEF NoAvb
    <3>. QED
      BY <2>1, <3>2, <3>3 DEF RootGrows
  <2>. QED
    BY <2>2, <2>3, <2>4, <2>5, <2>6 DEF IInv
<1>. QED
  BY <1>1, <1>2 DEF MakeFolders, Goto, End, Cleared

\* Steps that leave the ramdisk's fstabs and rc files alone.
LEMMA RootKept ==
    ASSUME IInv, pc \in Begun, image' = image,
           \A a \in {"first stage", "system fstab", "common rc", "custom rc", "board rc"} :
              tree'[a] = tree[a],
           IsVendorBoot => /\ pc' # "legacy fstab"
                           /\ pc' \in Rooted => pc \in Rooted
                           /\ pc' \in Entered \/ Done' => pc \in Entered
    PROVE  RootGrows'
<1>. SUFFICES ASSUME IsVendorBoot
              PROVE  /\ pc' # "legacy fstab"
                     /\ pc' \in Begun \/ Done' => NoAvb'
                     /\ pc' \in Rooted /\ Has("common rc") => Present("common rc")'
                     /\ pc' \in Entered \/ Done' => BoardRcHooked'
  BY DEF RootGrows, IsVendorBoot, Has
<1>1. NoAvb
  BY DEF IInv, RootGrows
<1>2. NoAvb'
  BY <1>1 DEF NoAvb, Has
<1>3. pc' \in Rooted /\ Has("common rc") => Present("common rc")'
  BY DEF IInv, RootGrows, Present
<1>4. pc' \in Entered \/ Done' => BoardRcHooked'
  BY DEF IInv, RootGrows, BoardRcHooked, Present, Has
<1>. QED
  BY <1>2, <1>3, <1>4

LEMMA WantedKept == image' = image => Wanted' = Wanted
<1>. SUFFICES ASSUME image' = image PROVE Wanted' = Wanted
  OBVIOUS
<1>1. recovery_branch' = recovery_branch
  BY DEF recovery_branch
<1>2. selected_source_patches' = selected_source_patches
  BY <1>1 DEF selected_source_patches, Has, If
<1>3. \A p : source_patch_path(p)' = source_patch_path(p)
  BY <1>1 DEF source_patch_path, Has
<1>. QED
  BY <1>1, <1>2, <1>3 DEF Wanted, source_patch_path, Has

LEMMA WriteAll ==
    ASSUME NEW W \in SUBSET Artefact, NEW f \in Forms \ {"none"}, Write(All(W, f))
    PROVE  /\ DOMAIN All(W, f) = W
           /\ \A a \in W : All(W, f)[a] = f
           /\ \A a \in DOMAIN All(W, f) : All(W, f)[a] \in Forms \ {"none"}
           /\ tree' = [a \in Artefact |-> IF a \in DOMAIN All(W, f) THEN Wrote(All(W, f)[a])
                                                                   ELSE tree[a]]
           /\ overlay' = overlay
  BY DEF All, Write

\* A step that writes files of one form, the last one excepted.
LEMMA GrowsBy ==
    ASSUME IInv, pc \in Begun, NEW W \in SUBSET Artefact, NEW f \in Forms \ {"none"},
           Write(All(W, f)), "patch.sh" \notin W, UNCHANGED <<image, dump, survived>>,
           pc' \in Begun \cup {"idle"}, outcome' \in {"none", "done", "failed", "killed"}
    PROVE  /\ TypeOK' /\ OfThisRun' /\ Growing' /\ ScriptMeansWholeTree'
           /\ overlay' = overlay
           /\ \A a \in W : tree'[a] = Wrote(f) /\ tree'[a].form = f
           /\ \A a \in Artefact \ W : tree'[a] = tree[a]
           /\ pc \in Made /\ W \cap {"makefiles", "twrp product"} = {} => MakefilesWritten'
<1>. DEFINE w == All(W, f)
<1>1. /\ DOMAIN w = W /\ \A a \in W : w[a] = f
      /\ \A a \in DOMAIN w : w[a] \in Forms \ {"none"}
      /\ tree' = [a \in Artefact |-> IF a \in DOMAIN w THEN Wrote(w[a]) ELSE tree[a]]
      /\ overlay' = overlay
  BY WriteAll
<1>2. overlay' \subseteq Bundled
  BY <1>1 DEF IInv, TypeOK
<1>. HIDE DEF w
<1>3. /\ TypeOK' /\ OfThisRun'
      /\ "patch.sh" \notin DOMAIN w => Growing' /\ ScriptMeansWholeTree'
      /\ \A a \in Artefact : tree'[a] = IF a \in DOMAIN w THEN Wrote(w[a]) ELSE tree[a]
      /\ \A a \in DOMAIN w : tree'[a].form = w[a] /\ Present(a)'
      /\ pc \in Made /\ DOMAIN w \cap {"makefiles", "twrp product"} = {} => MakefilesWritten'
  BY <1>1, <1>2, Grows
<1>. QED
  BY <1>1, <1>3

LEMMA MakefilesStep ==
    ASSUME IInv, WriteMakefiles
    PROVE  IInv'
<1>. DEFINE W == {"makefiles", IF Has("sprd") \/ IsVendorBoot THEN "twrp product"
                               ELSE "omni product"}
<1>0. /\ pc = "makefiles" /\ pc' = "prebuilts" /\ Write(All(W, "rendered"))
      /\ UNCHANGED <<image, dump, outcome, survived>>
  BY DEF WriteMakefiles, At, Goto
<1>1. /\ pc \in Begun /\ pc' \in Begun /\ ~Done' /\ pc' \notin Rooted /\ pc' \notin Entered
  BY <1>0 DEF Begun, Rooted, Entered, Done
<1>2. W \in SUBSET Artefact /\ "patch.sh" \notin W /\ "rendered" \in Forms \ {"none"}
      /\ W \cap {"first stage", "system fstab", "common rc", "custom rc", "board rc"} = {}
  BY DEF Artefact, Makefiles, Forms
<1>3. outcome' \in {"none", "done", "failed", "killed"}
  BY <1>0 DEF IInv, TypeOK
<1>4. "makefiles" \in W /\ (Has("sprd") \/ IsVendorBoot => "twrp product" \in W)
  OBVIOUS
<1>. HIDE DEF W
<1>5. /\ TypeOK' /\ OfThisRun' /\ Growing' /\ ScriptMeansWholeTree'
      /\ \A a \in W : tree'[a] = Wrote("rendered")
      /\ \A a \in Artefact \ W : tree'[a] = tree[a]
  BY <1>0, <1>1, <1>2, <1>3, GrowsBy
<1>6. MakefilesWritten'
  BY <1>0, <1>4, <1>5 DEF MakefilesWritten, Wrote, Has, IsVendorBoot
<1>7. Packed'
  BY <1>0, <1>1 DEF Packed
<1>8. RootGrows'
  <2>1. \A a \in {"first stage", "system fstab", "common rc", "custom rc", "board rc"} :
          tree'[a] = tree[a]
    BY <1>2, <1>5, Names
  <2>. QED
    BY <1>0, <1>1, <2>1, RootKept
<1>. QED
  BY <1>5, <1>6, <1>7, <1>8 DEF IInv

LEMMA PrebuiltsStep ==
    ASSUME IInv, CopyPrebuilts
    PROVE  IInv'
<1>. DEFINE W == IF IsVendorBoot THEN {"dtb.img"}
                 ELSE {"kernel", "dtb.img", "top fstab", "init scripts"}
<1>0. /\ pc = "prebuilts" /\ Write(All(W, "stock")) /\ UNCHANGED <<image, dump, survived>>
      /\ \/ pc' = "fstabs" /\ outcome' = outcome
         \/ pc' = "idle" /\ outcome' = "done" /\ ~IsVendorBoot /\ ~Has("sprd")
  BY DEF CopyPrebuilts, At, Goto, End
<1>1. /\ pc \in Begun /\ pc \in Made /\ pc' \in Begun \cup {"idle"}
      /\ pc' \notin Rooted /\ pc' \notin Entered /\ pc' # "manifest"
      /\ pc' # "legacy fstab" /\ (IsVendorBoot => ~Done')
  BY <1>0 DEF Begun, Made, Rooted, Entered, Done
<1>2. W \in SUBSET Artefact /\ "patch.sh" \notin W /\ "stock" \in Forms \ {"none"}
      /\ W \cap {"first stage", "system fstab", "common rc", "custom rc", "board rc"} = {}
      /\ W \cap {"makefiles", "twrp product"} = {}
  BY DEF Artefact, Makefiles, Prebuilt, Root, Forms
<1>3. outcome' \in {"none", "done", "failed", "killed"}
  BY <1>0 DEF IInv, TypeOK
<1>. HIDE DEF W
<1>5. /\ TypeOK' /\ OfThisRun' /\ Growing' /\ ScriptMeansWholeTree' /\ MakefilesWritten'
      /\ \A a \in Artefact \ W : tree'[a] = tree[a]
  BY <1>0, <1>1, <1>2, <1>3, GrowsBy
<1>7. Packed'
  <2>1. ~(Done' /\ Has("sprd")')
    BY <1>0 DEF Done, Has
  <2>. QED
    BY <1>1, <2>1 DEF Packed
<1>8. RootGrows'
  <2>1. \A a \in {"first stage", "system fstab", "common rc", "custom rc", "board rc"} :
          tree'[a] = tree[a]
    BY <1>2, <1>5, Names
  <2>. QED
    BY <1>0, <1>1, <2>1, RootKept
<1>. QED
  BY <1>5, <1>7, <1>8 DEF IInv

LEMMA FstabsStep ==
    ASSUME IInv, CopyFstabs
    PROVE  IInv'
<1>. DEFINE W == {"first stage", "system fstab"} \cap image.has
            f == WithoutAvb
<1>0. /\ pc = "fstabs" /\ Write(All(W, f)) /\ UNCHANGED <<image, dump, outcome, survived>>
      /\ pc' = "root files"
  BY DEF CopyFstabs, At, Goto
<1>1. /\ pc \in Begun /\ pc \in Made /\ pc' \in Begun
      /\ pc' \notin Rooted /\ pc' \notin Entered /\ ~Done'
  BY <1>0 DEF Begun, Made, Rooted, Entered, Done
<1>2. W \in SUBSET Artefact /\ "patch.sh" \notin W /\ W \cap {"makefiles", "twrp product"} = {}
  BY Names
<1>3. outcome' \in {"none", "done", "failed", "killed"}
  BY <1>0 DEF IInv, TypeOK
<1>4. f \in Forms \ {"none"} /\ (Has("avb") => f # "stock")
  BY DEF WithoutAvb, Forms
<1>. HIDE DEF W, f
<1>5. /\ TypeOK' /\ OfThisRun' /\ Growing' /\ ScriptMeansWholeTree' /\ MakefilesWritten'
      /\ \A a \in W : tree'[a] = Wrote(f) /\ tree'[a].form = f
      /\ \A a \in Artefact \ W : tree'[a] = tree[a]
  BY <1>0, <1>1, <1>2, <1>3, <1>4, GrowsBy
<1>7. Packed'
  BY <1>0, <1>1 DEF Packed
<1>8. RootGrows'
  <2>1. IsVendorBoot => NoAvb
    BY <1>1 DEF IInv, RootGrows
  <2>2. IsVendorBoot /\ Has("avb") =>
            \A a \in {"first stage", "system fstab"} : tree'[a].form # "stock"
    BY <1>4, <1>5, <2>1, Names DEF NoAvb
  <2>. QED
    BY <1>0, <1>1, <2>2 DEF RootGrows, NoAvb, IsVendorBoot, Has
<1>. QED
  BY <1>5, <1>7, <1>8 DEF IInv

LEMMA RootFilesStep ==
    ASSUME IInv, CopyRootFiles
    PROVE  IInv'
<1>. DEFINE W == {"sepolicy", "common rc", "board rc", "vendor"} \cap image.has
            w == [a \in W |-> IF a = "board rc" /\ Has("hook") THEN "hooked" ELSE "stock"]
<1>0. /\ pc = "root files" /\ Write(w) /\ UNCHANGED <<image, dump, outcome, survived>>
      /\ pc' \in {"init", "legacy fstab", "overlay"} /\ (IsVendorBoot <=> pc' = "init")
  <2>1. /\ pc = "root files" /\ Write(w)
        /\ Goto(CASE IsVendorBoot            -> "init"
                  [] is_sprd_legacy_recovery -> "legacy fstab"
                  [] OTHER                   -> "overlay")
    BY DEF CopyRootFiles, At
  <2>2. IsVendorBoot => ~is_sprd_legacy_recovery
    BY DEF IsVendorBoot, is_sprd_legacy_recovery
  <2>. HIDE DEF w
  <2>. QED
    BY <2>1, <2>2 DEF Goto
<1>1. /\ pc \in Begun /\ pc \in Made /\ pc' \in Begun /\ ~Done' /\ pc' # "manifest"
      /\ (IsVendorBoot => pc' \notin Entered)
  BY <1>0 DEF Begun, Made, Rooted, Entered, Done
<1>2. /\ DOMAIN w = W /\ W \subseteq Artefact /\ "patch.sh" \notin W
      /\ W \cap {"makefiles", "twrp product", "first stage", "system fstab"} = {}
  BY DEF Artefact, Root
<1>3. outcome' \in {"none", "done", "failed", "killed"}
  BY <1>0 DEF IInv, TypeOK
<1>4. \A a \in DOMAIN w : w[a] \in Forms \ {"none"}
  BY DEF Forms
<1>5. Has("common rc") => "common rc" \in W
  BY DEF Has
<1>. HIDE DEF W, w
<1>6. /\ tree' = [a \in Artefact |-> IF a \in DOMAIN w THEN Wrote(w[a]) ELSE tree[a]]
      /\ overlay' \subseteq Bundled /\ overlay' = overlay
  BY <1>0 DEF Write, IInv, TypeOK
<1>7. /\ TypeOK' /\ OfThisRun' /\ Growing' /\ ScriptMeansWholeTree' /\ MakefilesWritten'
      /\ \A a \in Artefact : tree'[a] = IF a \in DOMAIN w THEN Wrote(w[a]) ELSE tree[a]
      /\ \A a \in DOMAIN w : Present(a)'
  <2>1. DOMAIN w \subseteq Artefact /\ "patch.sh" \notin DOMAIN w
        /\ DOMAIN w \cap {"makefiles", "twrp product"} = {}
    BY <1>2
  <2>2. pc' \in Begun \cup {"idle"} /\ UNCHANGED <<image, dump, survived>>
    BY <1>0, <1>1
  <2>. QED
    BY <1>1, <1>3, <1>4, <1>6, <2>1, <2>2, Grows
<1>8. Packed'
  BY <1>1 DEF Packed
<1>9. RootGrows'
  <2>1. IsVendorBoot => NoAvb
    BY <1>1 DEF IInv, RootGrows
  <2>2. tree'["first stage"] = tree["first stage"] /\ tree'["system fstab"] = tree["system fstab"]
    BY <1>2, <1>7, Names
  <2>3. Has("common rc") => Present("common rc")'
    BY <1>2, <1>5, <1>7
  <2>4. IsVendorBoot' = IsVendorBoot /\ \A x : Has(x)' = Has(x)
    BY <1>0 DEF IsVendorBoot, Has
  <2>5. IsVendorBoot => NoAvb'
    BY <2>1, <2>2, <1>0 DEF NoAvb, Has
  <2>. QED
    BY <1>0, <1>1, <2>3, <2>5 DEF RootGrows, IsVendorBoot, Has
<1>. QED
  BY <1>7, <1>8, <1>9 DEF IInv

LEMMA RecoveryInitStep ==
    ASSUME IInv, WriteRecoveryInit
    PROVE  IInv'
<1>. DEFINE hook == Has("board") /\ Present("common rc")
            W == {"custom rc", "board rc"}
            w == [a \in W |-> IF a = "board rc" /\ Present(a) THEN "hooked" ELSE "rendered"]
            none == [a \in {} |-> "stock"]
<1>0. /\ pc = "init" /\ UNCHANGED <<image, dump, outcome, survived>> /\ pc' = "policy"
      /\ IF hook THEN Write(w) ELSE Nothing
  BY DEF WriteRecoveryInit, At, Goto
<1>1. /\ pc \in Begun /\ pc \in Made /\ pc \in Rooted /\ pc' \in Begun /\ ~Done'
      /\ pc' # "manifest" /\ pc' # "legacy fstab"
  BY <1>0 DEF Begun, Made, Rooted, Done
<1>3. outcome' \in {"none", "done", "failed", "killed"}
  BY <1>0 DEF IInv, TypeOK
<1>. DEFINE v == IF hook THEN w ELSE none
<1>4. /\ DOMAIN v \subseteq W /\ W \subseteq Artefact /\ "patch.sh" \notin W
      /\ W \cap {"makefiles", "twrp product", "first stage", "system fstab", "common rc"} = {}
      /\ \A a \in DOMAIN v : v[a] \in {"hooked", "rendered"}
      /\ hook => DOMAIN v = W
  BY Names
<1>5. Write(v)
  <2>1. ~hook => Write(none)
    BY <1>0, NothingWrites DEF IInv
  <2>. HIDE DEF w, none, hook
  <2>. QED
    BY <1>0, <2>1
<1>. HIDE DEF v
<1>6. /\ tree' = [a \in Artefact |-> IF a \in DOMAIN v THEN Wrote(v[a]) ELSE tree[a]]
      /\ overlay' \subseteq Bundled
  BY <1>5 DEF Write, IInv, TypeOK
<1>7. /\ TypeOK' /\ OfThisRun' /\ Growing' /\ ScriptMeansWholeTree' /\ MakefilesWritten'
      /\ \A a \in Artefact : tree'[a] = IF a \in DOMAIN v THEN Wrote(v[a]) ELSE tree[a]
      /\ \A a \in DOMAIN v : tree'[a].form = v[a] /\ Present(a)'
  <2>1. DOMAIN v \subseteq Artefact /\ "patch.sh" \notin DOMAIN v
        /\ DOMAIN v \cap {"makefiles", "twrp product"} = {}
    BY <1>4
  <2>2. pc' \in Begun \cup {"idle"} /\ UNCHANGED <<image, dump, survived>>
    BY <1>0, <1>1
  <2>3. \A a \in DOMAIN v : v[a] \in Forms \ {"none"}
    BY <1>4 DEF Forms
  <2>. QED
    BY <1>1, <1>3, <1>6, <2>1, <2>2, <2>3, Grows
<1>8. Packed'
  BY <1>1 DEF Packed
<1>9. RootGrows'
  <2>1. IsVendorBoot => NoAvb /\ (Has("common rc") => Present("common rc"))
    BY <1>1 DEF IInv, RootGrows
  <2>2. \A a \in {"first stage", "system fstab", "common rc"} : tree'[a] = tree[a]
    BY <1>4, <1>7, Names
  <2>3. IsVendorBoot => NoAvb' /\ (Has("common rc") => Present("common rc")')
    BY <2>1, <2>2, <1>0 DEF NoAvb, Has, Present
  <2>4. IsVendorBoot => BoardRcHooked'
    <3>. SUFFICES ASSUME IsVendorBoot, Has("board"), Has("common rc")
                  PROVE  Present("custom rc")' /\ tree'["board rc"].form \in {"hooked", "rendered"}
      BY <1>0 DEF BoardRcHooked, Has
    <3>1. hook
      BY <2>1
    <3>2. "custom rc" \in DOMAIN v /\ "board rc" \in DOMAIN v
      BY <1>4, <3>1
    <3>. QED
      BY <1>4, <1>7, <3>2
  <2>. QED
    BY <1>0, <1>1, <2>3, <2>4 DEF RootGrows, IsVendorBoot, Has
<1>. QED
  BY <1>7, <1>8, <1>9 DEF IInv

\* The steps after init but the last.
LEMMA LateStep ==
    ASSUME IInv, NEW W \in SUBSET Artefact, NEW f \in Forms \ {"none"}, Write(All(W, f)),
           UNCHANGED <<image, dump, survived>>, pc \in {"policy", "twrp fstab", "legacy fstab"},
           W \cap {"makefiles", "twrp product", "patch.sh", "first stage", "common rc",
                   "custom rc", "board rc"} = {},
           "system fstab" \in W => pc = "legacy fstab",
           \/ pc' \in {"twrp fstab", "overlay"} /\ outcome' = outcome
           \/ pc' = "idle" /\ outcome' = "failed"
    PROVE  IInv'
<1>1. /\ pc \in Begun /\ pc \in Made /\ pc' \in Begun \cup {"idle"} /\ ~Done'
      /\ pc' # "manifest" /\ pc' # "legacy fstab"
      /\ outcome' \in {"none", "done", "failed", "killed"}
  BY DEF Begun, Made, Done, IInv, TypeOK
<1>2. IsVendorBoot => pc \in {"policy", "twrp fstab"} /\ pc \in Entered /\ pc \in Rooted
  BY DEF IInv, RootGrows, Entered, Rooted
<1>3. /\ TypeOK' /\ OfThisRun' /\ Growing' /\ ScriptMeansWholeTree' /\ MakefilesWritten'
      /\ \A a \in Artefact \ W : tree'[a] = tree[a]
  <2>1. "patch.sh" \notin W /\ W \cap {"makefiles", "twrp product"} = {}
    OBVIOUS
  <2>. QED
    BY <1>1, <2>1, GrowsBy
<1>4. Packed'
  BY <1>1 DEF Packed
<1>5. RootGrows'
  <2>1. CASE IsVendorBoot
    <3>1. \A a \in {"first stage", "system fstab", "common rc", "custom rc", "board rc"} :
            a \in Artefact \ W
      BY <1>2, <2>1, Names
    <3>2. \A a \in {"first stage", "system fstab", "common rc", "custom rc", "board rc"} :
            tree'[a] = tree[a]
      BY <1>3, <3>1
    <3>. QED
      BY <1>1, <1>2, <2>1, <3>2, RootKept
  <2>2. CASE ~IsVendorBoot
    BY <2>2 DEF RootGrows, IsVendorBoot
  <2>. QED
    BY <2>1, <2>2
<1>. QED
  BY <1>3, <1>4, <1>5 DEF IInv

LEMMA PolicyStep ==
    ASSUME IInv, WritePolicyHelper
    PROVE  IInv'
<1>1. pc = "policy" /\ UNCHANGED <<image, dump, survived>>
  BY DEF WritePolicyHelper, At, Goto, End
<1>2. CASE Nothing /\ Goto("twrp fstab")
  <2>. DEFINE W == {}
  <2>1. Write([a \in {} |-> "stock"])
    BY <1>2, NothingWrites DEF IInv
  <2>2. Write(All(W, "stock"))
    BY <2>1 DEF All
  <2>3. W \in SUBSET Artefact /\ "stock" \in Forms \ {"none"}
    BY DEF Forms
  <2>4. pc' = "twrp fstab" /\ outcome' = outcome
    BY <1>2 DEF Goto
  <2>. QED
    BY <1>1, <2>2, <2>3, <2>4, LateStep
<1>3. CASE ~(Nothing /\ Goto("twrp fstab"))
  <2>. DEFINE W == {"sepolicy.stock", "patch_stock_sepolicy"}
  <2>1. /\ Write(All(W, "stock"))
        /\ \/ pc' = "twrp fstab" /\ outcome' = outcome
           \/ pc' = "idle" /\ outcome' = "failed"
    BY <1>3 DEF WritePolicyHelper, Goto, End
  <2>2. W \in SUBSET Artefact /\ "stock" \in Forms \ {"none"}
    BY DEF Artefact, Prebuilt, Helper, Forms
  <2>. QED
    BY <1>1, <2>1, <2>2, LateStep
<1>. QED
  BY <1>2, <1>3

LEMMA TwrpFstabStep ==
    ASSUME IInv, WriteTwrpFstab
    PROVE  IInv'
<1>. DEFINE W == {"twrp.fstab"}
<1>1. /\ pc = "twrp fstab" /\ UNCHANGED <<image, dump, survived>> /\ Write(All(W, "rendered"))
      /\ pc' = "overlay" /\ outcome' = outcome
  BY DEF WriteTwrpFstab, At, Goto
<1>2. W \in SUBSET Artefact /\ "rendered" \in Forms \ {"none"}
  BY DEF Artefact, Root, Forms
<1>. QED
  BY <1>1, <1>2, LateStep

LEMMA LegacyFstabStep ==
    ASSUME IInv, WriteLegacyFstab
    PROVE  IInv'
<1>. DEFINE W == {"system fstab"}
<1>1. /\ pc = "legacy fstab" /\ UNCHANGED <<image, dump, survived>> /\ Write(All(W, "stock"))
      /\ pc' = "overlay" /\ outcome' = outcome
  BY DEF WriteLegacyFstab, At, Goto
<1>2. W \in SUBSET Artefact /\ "stock" \in Forms \ {"none"}
  BY DEF Artefact, Root, Forms
<1>. QED
  BY <1>1, <1>2, LateStep

LEMMA OverlayStep ==
    ASSUME IInv, PackageOverlay
    PROVE  IInv'
<1>0. pc = "overlay" /\ UNCHANGED <<image, dump, survived, tree>>
  BY DEF PackageOverlay, At, Nothing, Goto, End
<1>1. CASE ~Has("sprd")
  BY <1>0, <1>1, Stops DEF PackageOverlay, Nothing, End
<1>2. CASE Has("sprd")
  <2>1. /\ overlay' = Wanted \cap Bundled
        /\ IF Wanted \subseteq Bundled THEN Goto("manifest") ELSE End("failed")
    BY <1>2 DEF PackageOverlay, Wanted
  <2>2. /\ pc \in Begun /\ pc \in Made /\ ~Done' /\ overlay' \subseteq Bundled
        /\ outcome' \in {"none", "done", "failed", "killed"}
        /\ \/ pc' = "manifest" /\ overlay' = Wanted
           \/ pc' = "idle"
    BY <1>0, <2>1 DEF Begun, Made, Done, IInv, TypeOK, Goto, End
  <2>3. /\ pc' \in Begun \cup {"idle"} /\ pc' # "legacy fstab"
        /\ pc \in Rooted /\ pc \in Entered
    BY <1>0, <2>2 DEF Begun, Rooted, Entered
  <2>. DEFINE none == [a \in {} |-> "stock"]
  <2>4. /\ DOMAIN none = {} /\ tree' = [a \in Artefact |-> IF a \in DOMAIN none THEN Wrote(none[a])
                                                                           ELSE tree[a]]
    <3>1. tree \in [Artefact -> Records]
      BY Typed DEF IInv
    <3>2. [a \in Artefact |-> IF a \in {} THEN Wrote(none[a]) ELSE tree[a]] = tree
      BY <3>1
    <3>. QED
      BY <1>0, <3>2
  <2>. HIDE DEF none
  <2>5. TypeOK' /\ OfThisRun' /\ Growing' /\ ScriptMeansWholeTree' /\ MakefilesWritten'
    BY <1>0, <2>2, <2>3, <2>4, Grows
  <2>6. Packed'
    BY <1>0, <1>2, <2>2, WantedKept DEF Packed, Has
  <2>7. RootGrows'
    BY <1>0, <2>2, <2>3, RootKept DEF Begun
  <2>. QED
    BY <2>5, <2>6, <2>7 DEF IInv
<1>. QED
  BY <1>1, <1>2

\* The last step.
LEMMA ScriptsStep ==
    ASSUME IInv, WriteScripts
    PROVE  IInv'
<1>. DEFINE W == {"source-files.txt", "patch.sh"}
            w == All(W, "rendered")
<1>0. /\ pc = "manifest" /\ UNCHANGED <<image, dump, survived>> /\ Write(w)
      /\ pc' = "idle" /\ outcome' = "done" /\ Done'
  BY DEF WriteScripts, At, End, Done
<1>1. /\ pc \in Begun /\ pc \in Made /\ pc \in Rooted /\ pc \in Entered
      /\ pc' \notin Begun /\ pc' \notin Made /\ pc' \notin Rooted
  BY <1>0 DEF Begun, Made, Rooted, Entered
<1>2. W \in SUBSET Artefact /\ "rendered" \in Forms \ {"none"}
  BY Names DEF Forms
<1>3. /\ DOMAIN w = W /\ \A a \in DOMAIN w : w[a] \in Forms \ {"none"}
      /\ \A a \in W : w[a] = "rendered"
      /\ tree' = [a \in Artefact |-> IF a \in DOMAIN w THEN Wrote(w[a]) ELSE tree[a]]
      /\ overlay' = overlay
  <2>. HIDE DEF W
  <2>. QED
    BY <1>0, <1>2, WriteAll
<1>. HIDE DEF w
<1>4. /\ TypeOK' /\ OfThisRun' /\ MakefilesWritten'
      /\ \A a \in Artefact : tree'[a] = IF a \in DOMAIN w THEN Wrote(w[a]) ELSE tree[a]
      /\ \A a \in DOMAIN w : tree'[a].form = w[a] /\ Present(a)'
  <2>1. overlay' \subseteq Bundled
    BY <1>3 DEF IInv, TypeOK
  <2>2. DOMAIN w \cap {"makefiles", "twrp product"} = {}
    BY <1>3
  <2>. QED
    BY <1>0, <1>1, <1>2, <1>3, <2>1, <2>2, Grows
<1>5. Growing'
  BY <1>0, <1>1 DEF Growing
<1>6. Packed'
  BY <1>0, <1>3, WantedKept DEF IInv, Packed
<1>7. RootGrows'
  <2>1. \A a \in {"first stage", "system fstab", "common rc", "custom rc", "board rc"} :
          tree'[a] = tree[a]
    BY <1>3, <1>4, Names
  <2>. QED
    BY <1>0, <1>1, <2>1, RootKept
<1>8. ScriptMeansWholeTree'
  <2>. SUFFICES ASSUME ~survived
                PROVE  /\ \A a \in Artefact :
                             Present(a)' => tree'[a].dump = tree'["patch.sh"].dump
                       /\ \A a \in {"makefiles", "twrp product", "source-files.txt"} : Present(a)'
                       /\ overlay' # {}
    BY <1>0 DEF ScriptMeansWholeTree, Present
  <2>0. dump \in Nat
    BY Typed, ImageAssumption DEF IInv
  <2>1. Wrote("rendered").dump = dump /\ Wrote("rendered") # NoFile
    BY <2>0, WroteFields DEF Forms
  <2>2. \A a \in Artefact : Present(a) => tree[a].dump = dump
    BY <1>1 DEF IInv, Growing
  <2>3. \A a \in Artefact : Present(a)' => tree'[a].dump = dump
    BY <1>3, <1>4, <2>1, <2>2 DEF Present
  <2>4. tree'["patch.sh"].dump = dump
    BY <1>3, <1>4, <2>1, Names
  <2>5. tree["makefiles"] = Wrote("rendered") /\ tree["twrp product"] = Wrote("rendered")
    BY <1>0, <1>1 DEF IInv, MakefilesWritten, Packed
  <2>6. \A a \in {"makefiles", "twrp product", "source-files.txt"} : Present(a)'
    BY <1>3, <1>4, <2>1, <2>5, Names DEF Present
  <2>7. overlay' # {}
    <3>1. overlay' = Wanted
      BY <1>0, <1>3 DEF IInv, Packed
    <3>2. "recovery/partition.cpp" \in selected_source_patches
      BY DEF selected_source_patches, TWRP_12_PATCHES, TWRP_14_PATCHES
    <3>. QED
      BY <3>1, <3>2 DEF Wanted
  <2>. QED
    BY <2>3, <2>4, <2>6, <2>7
<1>. QED
  BY <1>4, <1>5, <1>6, <1>7, <1>8 DEF IInv

LEMMA Keeps == IInv /\ [Next]_vars => IInv'
<1>. SUFFICES ASSUME IInv, [Next]_vars PROVE IInv'
  OBVIOUS
<1>1. ASSUME NEW i \in Image, Run(i) PROVE IInv'
  BY <1>1, RunStep
<1>2. CASE Step
  BY <1>2, RemoveStep, MkdirStep, MakefilesStep, PrebuiltsStep, FstabsStep, RootFilesStep,
     RecoveryInitStep, PolicyStep, TwrpFstabStep, LegacyFstabStep, OverlayStep, ScriptsStep
     DEF Step
<1>3. CASE Interrupt
  BY <1>3, Stops DEF Interrupt, End, Nothing
<1>4. CASE UNCHANGED vars
  <2>1. UNCHANGED <<image, dump, pc, outcome, survived, tree, overlay>>
    BY <1>4 DEF vars
  <2>2. TypeOK'
    BY <2>1 DEF IInv, TypeOK
  <2>3. OfThisRun' /\ MakefilesWritten' /\ Growing' /\ ScriptMeansWholeTree'
    BY <2>1 DEF IInv, OfThisRun, MakefilesWritten, Growing, ScriptMeansWholeTree, Present, Done,
       Cleared, IsVendorBoot, Has, Wrote
  <2>4. Packed'
    BY <2>1, WantedKept DEF IInv, Packed, Done, Has
  <2>5. RootGrows'
    BY <2>1 DEF IInv, RootGrows, NoAvb, BoardRcHooked, Present, Done, IsVendorBoot, Has
  <2>. QED
    BY <2>2, <2>3, <2>4, <2>5 DEF IInv
<1>. QED
  BY <1>1, <1>2, <1>3, <1>4 DEF Next

\* What each step of a run (device_tree.py) leaves behind is what the next one
\* finds, whenever runs are interrupted or fail: the theorems rest on it.
THEOREM Invariant == Spec => []IInv
  BY Starts, Keeps, PTL DEF Spec

-----------------------------------------------------------------------------
(***************************************************************************)
(* The overlay                                                             *)
(***************************************************************************)
LEMMA FiniteUp ==
    ASSUME NEW S, IsFiniteSet(S), NEW a, NEW b, NEW c, NEW d
    PROVE  IsFiniteSet(S \cup {a, b, c, d})
<1>1. IsFiniteSet(S \cup {a})
  BY FS_AddElement
<1>2. IsFiniteSet((S \cup {a}) \cup {b})
  BY <1>1, FS_AddElement
<1>3. IsFiniteSet(((S \cup {a}) \cup {b}) \cup {c})
  BY <1>2, FS_AddElement
<1>4. IsFiniteSet((((S \cup {a}) \cup {b}) \cup {c}) \cup {d})
  BY <1>3, FS_AddElement
<1>5. (((S \cup {a}) \cup {b}) \cup {c}) \cup {d} = S \cup {a, b, c, d}
  OBVIOUS
<1>. QED
  BY <1>4, <1>5

LEMMA FinitePatches == IsFiniteSet(selected_source_patches)
<1>. DEFINE A == {} \cup {"recovery/Android.mk", "recovery/data.cpp", "recovery/etc/init.rc",
                          "recovery/partition.cpp"}
            B == A \cup {"recovery/partitionmanager.cpp", "fastboot/fastboot_device.cpp",
                         "vold/KeyUtil.cpp", "vold/Keymaster.cpp"}
            C == B \cup {"vold/MetadataCrypt.cpp", "libtar/Android.mk", "libtar/append.c",
                         "libtar/block.c"}
            D == C \cup {"libtar/extract.c", "libtar/libtar.h", "libtar/output.c",
                         "prebuilt/Android.mk"}
            F == D \cup {"recovery/twrpApex.cpp", "vold/KeyStorage.cpp", "platform_releases.txt",
                         "minuitwrp/events.cpp"}
            G == F \cup {"minuitwrp/graphics_drm.cpp", "minuitwrp/libminuitwrp_defaults.go",
                         "config/BoardConfigSoong.mk", "config/BoardConfigSoong.mk"}
<1>1. IsFiniteSet(A)
  BY FS_EmptySet, FiniteUp
<1>7. selected_source_patches \subseteq G
  BY DEF selected_source_patches, TWRP_12_PATCHES, TWRP_14_PATCHES, LEGACY_DRM_PATCHES,
     TWRP_14_LEGACY_DRM_PATCHES, HIMAX_TOUCH_PATCHES, SC27XX_HAPTICS_PATCHES, If
<1>. HIDE DEF A
<1>2. IsFiniteSet(B)
  BY <1>1, FiniteUp
<1>. HIDE DEF B
<1>3. IsFiniteSet(C)
  BY <1>2, FiniteUp
<1>. HIDE DEF C
<1>4. IsFiniteSet(D)
  BY <1>3, FiniteUp
<1>. HIDE DEF D
<1>5. IsFiniteSet(F)
  BY <1>4, FiniteUp
<1>. HIDE DEF F
<1>6. IsFiniteSet(G)
  BY <1>5, FiniteUp
<1>. HIDE DEF G
<1>. QED
  BY <1>6, <1>7, FS_Subset

\* Each path has one version.
LEMMA OneVersion ==
    ASSUME overlay = Wanted
    PROVE  Cardinality(Sources) = Cardinality(overlay)
<1>. DEFINE P == selected_source_patches
            f == [p \in P |-> source_patch_path(p)]
<1>1. \A p \in P : source_patch_path(p)[2] = p
  BY DEF source_patch_path
<1>2. Sources = P
  <2>1. Sources = {source[2] : source \in Wanted}
    BY DEF Sources
  <2>2. Wanted = {source_patch_path(p) : p \in P}
    BY DEF Wanted
  <2>. HIDE DEF P
  <2>. QED
    BY <1>1, <2>1, <2>2
<1>3. f \in Bijection(P, Wanted)
  <2>1. Wanted = {source_patch_path(p) : p \in P}
    BY DEF Wanted
  <2>. HIDE DEF P
  <2>2. f \in [P -> Wanted] /\ \A p \in P : f[p] = source_patch_path(p)
    BY <2>1
  <2>3. \A p, q \in P : f[p] = f[q] => p = q
    BY <1>1, <2>2
  <2>4. \A t \in Wanted : \E p \in P : f[p] = t
    BY <2>1, <2>2
  <2>. HIDE DEF f
  <2>5. f \in [P -> Wanted] /\ DOMAIN f = P
    BY <2>2
  <2>6. IsInjective(f)
    BY <2>3, <2>5 DEF IsInjective
  <2>7. f \in Injection(P, Wanted)
    BY <2>5, <2>6 DEF Injection
  <2>8. f \in Surjection(P, Wanted)
    BY <2>4, <2>5 DEF Surjection
  <2>. QED
    BY <2>7, <2>8 DEF Bijection
<1>4. ExistsBijection(P, Wanted)
  BY <1>3 DEF ExistsBijection
<1>5. Cardinality(Wanted) = Cardinality(P)
  <2>. HIDE DEF P
  <2>1. IsFiniteSet(P)
    BY FinitePatches DEF P
  <2>. QED
    BY <1>4, <2>1, FS_Bijection
<1>. QED
  BY <1>2, <1>5

LEMMA WantedFits ==
    ASSUME overlay = Wanted
    PROVE  /\ Cardinality(Sources) = Cardinality(overlay)
           /\ \A source \in overlay : source[1] \in
                 {IF Release(image) >= 14 THEN "SourcePatches14" ELSE "SourcePatches",
                  "HimaxPatches"}
           /\ Has("himax") <=> <<"HimaxPatches", "minuitwrp/events.cpp">> \in overlay
           /\ Has("haptics") => "minuitwrp/events.cpp" \in Sources
           /\ Has("haptics") \/ Has("ums") => TWRP_14_LEGACY_DRM_PATCHES \subseteq Sources
<1>. DEFINE P == selected_source_patches
            branch == IF Release(image) >= 14 THEN "SourcePatches14" ELSE "SourcePatches"
            events == "minuitwrp/events.cpp"
<1>0. overlay = {source_patch_path(p) : p \in P}
  BY DEF Wanted
<1>1. \A p \in P : source_patch_path(p) = <<IF Has("himax") /\ p = events THEN "HimaxPatches"
                                            ELSE branch, p>>
  BY DEF source_patch_path, HIMAX_TOUCH_PATCHES, recovery_branch
<1>2. branch # "HimaxPatches"
  OBVIOUS
<1>3. /\ Has("himax") \/ Has("haptics") => events \in P
      /\ Has("haptics") \/ Has("ums") => TWRP_14_LEGACY_DRM_PATCHES \subseteq P
  BY DEF selected_source_patches, If, HIMAX_TOUCH_PATCHES, SC27XX_HAPTICS_PATCHES,
     LEGACY_DRM_PATCHES
<1>. HIDE DEF P, branch
<1>4. \A p \in P : /\ source_patch_path(p)[2] = p
                   /\ source_patch_path(p)[1] \in {branch, "HimaxPatches"}
  BY <1>1
<1>5. Sources = P
  BY <1>0, <1>4 DEF Sources
<1>6. \A source \in overlay : source[1] \in {branch, "HimaxPatches"}
  BY <1>0, <1>4
<1>7. Has("himax") => <<"HimaxPatches", events>> \in overlay
  BY <1>0, <1>1, <1>3
<1>8. <<"HimaxPatches", events>> \in overlay => Has("himax")
  <2>. SUFFICES ASSUME ~Has("himax"), NEW p \in P,
                       source_patch_path(p) = <<"HimaxPatches", events>>
                PROVE  FALSE
    BY <1>0
  <2>1. source_patch_path(p) = <<branch, p>>
    BY <1>1
  <2>. QED
    BY <1>2, <2>1
<1>9. Cardinality(Sources) = Cardinality(overlay)
  BY OneVersion
<1>. QED
  BY <1>3, <1>5, <1>6, <1>7, <1>8, <1>9 DEF branch

-----------------------------------------------------------------------------
(***************************************************************************)
(* The theorems                                                            *)
(***************************************************************************)
\* A tree that was reported as generated is of the last run: in prebuilt and
\* recovery/root of a vendor_boot tree, and everywhere in a traditional one.
THEOREM DoneIsFresh == Spec => []SuccessIsFresh
<1>1. IInv => SuccessIsFresh
  <2>. SUFFICES ASSUME IInv, Done
                PROVE  /\ \A a \in Cleared : Present(a) => tree[a].dump = dump
                       /\ tree["makefiles"].dump = dump
    BY DEF IInv, SuccessIsFresh, Cleared
  <2>1. \A a \in Cleared : Present(a) => tree[a].dump = dump
    BY DEF IInv, OfThisRun
  <2>2. tree["makefiles"] = Wrote("rendered")
    BY DEF IInv, MakefilesWritten
  <2>. QED
    BY <2>1, <2>2 DEF Wrote
<1>. QED
  BY <1>1, Invariant, PTL

\* A folder that has patch.sh, and of which nothing older survived, holds a
\* whole tree of one run, whatever was interrupted or failed.
THEOREM ScriptIsLast == Spec => []ScriptMeansWholeTree
<1>1. IInv => ScriptMeansWholeTree
  BY DEF IInv
<1>. QED
  BY <1>1, Invariant, PTL

\* Every path of a finished tree's overlay has one version, of the branch or
\* the Himax one, and the Soong hooks come with what they configure.
THEOREM OverlayFitsBranch == Spec => []OverlayFits
<1>1. IInv => OverlayFits
  BY WantedFits DEF IInv, Packed, OverlayFits
<1>. QED
  BY <1>1, Invariant, PTL

\* A finished vendor_boot tree boots through the hook, and has no fstab with
\* AVB keys.
THEOREM RecoveryRootBoots == Spec => []RecoveryRootFits
<1>1. IInv => RecoveryRootFits
  BY DEF IInv, RootGrows, BoardRcHooked, NoAvb, RecoveryRootFits
<1>. QED
  BY <1>1, Invariant, PTL


-----------------------------------------------------------------------------
(***************************************************************************)
(* The sections of a vendor_boot image                                     *)
(***************************************************************************)
LEMMA Divides ==
    ASSUME NEW m \in Nat, NEW p \in Nat, p > 0
    PROVE  (m * p) % p = 0
<1>. DEFINE d == (m * p) \div p
            r == (m * p) % p
<1>1. m * p \in Nat
  OBVIOUS
<1>2. d \in Nat /\ r \in 0..(p - 1) /\ m * p = p * d + r
  BY <1>1
<1>. HIDE DEF d, r
<1>3. r = p * (m - d)
  BY <1>2
<1>4. CASE m <= d
  <2>1. r <= 0
    BY <1>2, <1>3, <1>4
  <2>. QED
    BY <1>2, <2>1 DEF r
<1>5. CASE m > d
  <2>1. p * (m - d) >= p
    BY <1>2, <1>5
  <2>. QED
    BY <1>2, <1>3, <2>1
<1>. QED
  BY <1>2, <1>4, <1>5

\* Align rounds up to whole pages.
LEMMA AlignUp ==
    ASSUME NEW size \in Nat, NEW p \in Nat, p > 0
    PROVE  Align(size, p) >= size /\ \E m \in Nat : Align(size, p) = m * p
<1>. DEFINE x == size + p - 1
            q == x \div p
            r == x % p
<1>1. q \in Nat /\ r \in 0..(p - 1) /\ x = p * q + r
  OBVIOUS
<1>2. Align(size, p) = q * p
  BY DEF Align
<1>. HIDE DEF q, r
<1>3. q * p = p * q /\ q * p \in Nat
  BY <1>1
<1>4. q * p >= size
  BY <1>1, <1>3
<1>. QED
  BY <1>1, <1>2, <1>4

\* A section that starts on a page ends before the page After gives it.
LEMMA NextPage ==
    ASSUME NEW p \in Nat, p > 0, NEW at \in Nat, at % p = 0, NEW size \in Nat
    PROVE  /\ at + Align(size, p) \in Nat
           /\ at + size <= at + Align(size, p)
           /\ (at + Align(size, p)) % p = 0
<1>1. PICK m \in Nat : Align(size, p) = m * p
  BY AlignUp
<1>2. m * p \in Nat /\ m * p >= size
  BY <1>1, AlignUp
<1>3. at = p * (at \div p) /\ at \div p \in Nat
  OBVIOUS
<1>4. at + m * p = (at \div p + m) * p
  BY <1>3
<1>5. ((at \div p + m) * p) % p = 0
  BY <1>3, Divides
<1>. QED
  BY <1>1, <1>2, <1>4, <1>5

LEMMA FragmentsTyped ==
    ASSUME NEW h \in Header, h.entries # <<>>, h.version \in {3, 4},
           h.version = 4 => h.entry_count <= Len(h.entries)
    PROVE  ToSet(Fragments(h)) \subseteq Fragment
<1>1. h.entries \in Seq(Fragment) /\ h.entry_count \in Nat /\ h.ramdisk_size \in Nat
  BY DEF Header
<1>2. CASE h.version = 4
  <2>. DEFINE s == SubSeq(h.entries, 1, h.entry_count)
  <2>1. s \in Seq(Fragment)
    BY <1>1, <1>2
  <2>2. Fragments(h) = s
    BY <1>2 DEF Fragments
  <2>. HIDE DEF s
  <2>. QED
    BY <2>1, <2>2 DEF ToSet
<1>3. CASE h.version = 3
  <2>. DEFINE f == [h.entries[1] EXCEPT !.size = h.ramdisk_size, !.offset = 0]
  <2>1. h.entries[1] \in Fragment
    BY <1>1
  <2>2. f \in Fragment
    BY <1>1, <2>1 DEF Fragment
  <2>3. Fragments(h) = <<f>>
    BY <1>3 DEF Fragments
  <2>. HIDE DEF f
  <2>. QED
    BY <2>2, <2>3 DEF ToSet
<1>. QED
  BY <1>2, <1>3

LEMMA SectionsFollow ==
    ASSUME NEW h \in Header, Unpacks(h), h.entries # <<>>,
           TableFits(h) => h.entry_count <= Len(h.entries)
    PROVE  LET sections == Sections(h) IN
           /\ h.header_size <= sections[1].at
           /\ \A k \in DOMAIN sections :
                 /\ sections[k].at + sections[k].size
                       <= IF k = Len(sections) THEN h.length ELSE sections[k + 1].at
                 /\ sections[k].at % h.page_size = 0
           /\ \A f \in ToSet(Fragments(h)) :
                 f.size # 0 => sections[1].at + f.offset + f.size <= sections[2].at
<1>. DEFINE p == h.page_size
            at2 == p + Align(h.ramdisk_size, p)
            at3 == at2 + Align(h.dtb_size, p)
            at4 == at3 + Align(h.table_size, p)
            two == << [at |-> p, size |-> h.ramdisk_size], [at |-> at2, size |-> h.dtb_size] >>
            four == << [at |-> p, size |-> h.ramdisk_size], [at |-> at2, size |-> h.dtb_size],
                       [at |-> at3, size |-> h.table_size],
                       [at |-> at4, size |-> h.bootconfig_size] >>
<1>1. /\ h.page_size \in Nat /\ h.ramdisk_size \in Nat /\ h.dtb_size \in Nat
      /\ h.table_size \in Nat /\ h.bootconfig_size \in Nat /\ h.length \in Nat
      /\ h.header_size \in Nat
  BY DEF Header
<1>2. p > 0 /\ h.header_size <= p
  <2>1. h.header_size \in MinimumHeader(h)..p
    BY DEF Unpacks
  <2>2. MinimumHeader(h) \in {2112, 2128}
    BY DEF MinimumHeader, VENDOR_BOOT_HEADER_V3_SIZE, VENDOR_BOOT_HEADER_V4_SIZE
  <2>. QED
    BY <1>1, <2>1, <2>2
<1>3. p % p = 0
  BY <1>1, <1>2
<1>4. at2 \in Nat /\ p + h.ramdisk_size <= at2 /\ at2 % p = 0
  BY <1>1, <1>2, <1>3, NextPage
<1>. HIDE DEF at2
<1>5. at3 \in Nat /\ at2 + h.dtb_size <= at3 /\ at3 % p = 0
  BY <1>1, <1>2, <1>4, NextPage
<1>. HIDE DEF at3
<1>6. at4 \in Nat /\ at3 + h.table_size <= at4 /\ at4 % p = 0
  BY <1>1, <1>2, <1>5, NextPage
<1>. HIDE DEF at4
<1>7. Sections(h) = IF h.version = 4 THEN four ELSE two
  BY DEF Sections, at2, at3, at4
<1>8. \A k \in DOMAIN Sections(h) : Sections(h)[k].at + Sections(h)[k].size <= h.length
  <2>1. \A k \in DOMAIN Sections(h) : Sections(h)[k] \in ToSet(Sections(h))
    BY DEF ToSet
  <2>. QED
    BY <2>1 DEF Unpacks, InFile
<1>9. \A f \in ToSet(Fragments(h)) :
         f.offset \in Nat /\ f.size \in Nat /\ (f.size # 0 => f.offset + f.size <= h.ramdisk_size)
  <2>1. ToSet(Fragments(h)) \subseteq Fragment
    BY FragmentsTyped DEF Unpacks
  <2>. QED
    BY <2>1 DEF Unpacks, Fragment
<1>10. \A f \in ToSet(Fragments(h)) : f.size # 0 => p + f.offset + f.size <= at2
  BY <1>1, <1>4, <1>9
<1>11. CASE h.version = 4
  <2>1. Sections(h) = four
    BY <1>7, <1>11
  <2>2. DOMAIN four = 1..4 /\ Len(four) = 4
    OBVIOUS
  <2>3. four[4].at + four[4].size <= h.length
    BY <1>8, <2>1, <2>2
  <2>4. /\ four[1].at = p /\ four[1].size = h.ramdisk_size
        /\ four[2].at = at2 /\ four[2].size = h.dtb_size
        /\ four[3].at = at3 /\ four[3].size = h.table_size
        /\ four[4].at = at4
    OBVIOUS
  <2>. HIDE DEF four
  <2>5. \A k \in 1..4 : four[k].at % p = 0
    BY <1>3, <1>4, <1>5, <1>6, <2>4
  <2>6. \A k \in 1..4 : four[k].at + four[k].size <= IF k = 4 THEN h.length ELSE four[k + 1].at
    BY <1>4, <1>5, <1>6, <2>3, <2>4
  <2>. QED
    BY <1>2, <1>10, <2>1, <2>2, <2>4, <2>5, <2>6
<1>12. CASE h.version # 4
  <2>1. Sections(h) = two
    BY <1>7, <1>12
  <2>2. DOMAIN two = 1..2 /\ Len(two) = 2
    OBVIOUS
  <2>3. two[2].at + two[2].size <= h.length
    BY <1>8, <2>1, <2>2
  <2>4. two[1].at = p /\ two[1].size = h.ramdisk_size /\ two[2].at = at2
    OBVIOUS
  <2>. HIDE DEF two
  <2>5. \A k \in 1..2 : two[k].at % p = 0
    BY <1>3, <1>4, <2>4
  <2>6. \A k \in 1..2 : two[k].at + two[k].size <= IF k = 2 THEN h.length ELSE two[k + 1].at
    BY <1>4, <2>3, <2>4
  <2>. QED
    BY <1>2, <1>10, <2>1, <2>2, <2>4, <2>5, <2>6
<1>. QED
  BY <1>11, <1>12

\* What is known of the image is what was read of it when its run began.
InfoIsRead == info = NoInfo \/ (image \in Image /\ info = Known[image])

LEMMA InfoKept == InfoIsRead /\ [Next]_vars => InfoIsRead'
<1>. SUFFICES ASSUME InfoIsRead, [Next]_vars PROVE InfoIsRead'
  OBVIOUS
<1>1. CASE \E i \in Image : Run(i)
  BY <1>1 DEF Run, InfoIsRead
<1>2. CASE UNCHANGED <<image, info>>
  BY <1>2 DEF InfoIsRead
<1>3. CASE Step
  BY <1>2, <1>3 DEF Step, RemoveOldTree, MakeFolders, WriteMakefiles, CopyPrebuilts, CopyFstabs,
     CopyRootFiles, WriteRecoveryInit, WritePolicyHelper, WriteTwrpFstab, WriteLegacyFstab,
     PackageOverlay, WriteScripts, Goto, End
<1>. QED
  BY <1>1, <1>2, <1>3 DEF Next, Interrupt, End, vars

\* An image that is unpacked (vendor_boot.py) has its sections one behind the
\* other, in the file, and the ramdisk's fragments before the DTB.
THEOREM SectionsNeverMeet == Spec => []SectionsApart
<1>1. InfoIsRead => SectionsApart
  <2>. SUFFICES ASSUME InfoIsRead, info.sections # <<>>
                PROVE  SectionsApart
    BY DEF SectionsApart
  <2>1. info # NoInfo
    BY DEF NoInfo
  <2>2. image \in Image /\ info = Known[image]
    BY <2>1 DEF InfoIsRead
  <2>3. Unpacked(image) /\ info = Read(image)
    BY <2>1, <2>2 DEF Known
  <2>4. image.layout = "vendor_boot" /\ info.sections = Sections(image.header)
    BY <2>3 DEF Read
  <2>5. Unpacks(image.header)
    BY <2>3, <2>4 DEF Unpacked
  <2>6. /\ image.header \in Header /\ image.header.entries # <<>>
        /\ TableFits(image.header) => image.header.entry_count <= Len(image.header.entries)
    BY <2>2, <2>4, ImageAssumption
  <2>. QED
    BY <2>4, <2>5, <2>6, SectionsFollow DEF SectionsApart
<1>2. Init => InfoIsRead
  BY DEF Init, InfoIsRead
<1>. QED
  BY <1>1, <1>2, InfoKept, PTL DEF Spec
=============================================================================
