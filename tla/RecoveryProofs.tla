---------------------------- MODULE RecoveryProofs ----------------------------
(***************************************************************************)
(* What is proved of the recovery as a whole, in three parts: the backups  *)
(* and restores of Nandroid, for any partitions, lists, subpartitions,     *)
(* number of blocks and of operations; PlugAgrees of PartitionTable, from  *)
(* the invariant PlugInv beside TableInv, for any disks and any number of  *)
(* events; and both of the composition.                                    *)
(***************************************************************************)
EXTENDS Recovery, PartitionTableProofs, TLAPS

\* The partition at place k of entry i, 0 being the listed one.
Item(i, k) == IF k = 0 THEN List[i] ELSE Sub[List[i]][k]

\* What the operation has gone past.
Visited ==
    {p \in Part : \E i \in 1 .. Len(List) : \E k \in 0 .. Len(Sub[List[i]]) :
        p = Item(i, k) /\ (i < entry \/ (i = entry /\ k < nth))}

OldDisk == [p \in Part |-> "old"]

-----------------------------------------------------------------------------
(***************************************************************************)
(* The invariant.  Threads says who may run beside whom: a child only while*)
(* it is waited for, a canceller only of a backup that knows it was hit.   *)
(***************************************************************************)
Threads ==
    /\ opc \in {"verify", "restore", "extract"} => op = "restore"
    /\ opc \in {"queued", "prepare", "entry", "part", "wait", "digest", "clean"} => op = "backup"
    /\ opc # "idle" => result = "none"
    /\ child # "none" => opc = "wait"
    /\ cpc # "idle" => hit /\ op = "backup"
    /\ stop_backup = 1 => hit \/ opc = "queued"

\* The list is gone through in order, and true is returned at its end.
Listing ==
    /\ entry > Len(List) => nth = 0
    /\ op = "backup" /\ result = "true" => entry > Len(List)

\* The folder of a backup is empty until it is made, and cleaned after a failure.
Cleaned ==
    /\ opc \in {"queued", "prepare"} => file = NoFiles /\ sum = NoSums
    /\ FailureIsClean

\* A backup nobody cancelled has written what it went past, and writes the
\* current file alone.
Written ==
    op = "backup" /\ ~ hit /\ opc # "clean" /\ result \in {"none", "true"} =>
        /\ \A p \in Visited : UseDigest => sum[p]
        /\ \A p \in Visited : file[p] = "whole" \/ (opc \in {"wait", "copy"} /\ p = current)
        /\ opc = "copy" \/ child = "writing" => file[current] = "partial"
        /\ opc = "digest" \/ child = "succeeded" => file[current] = "whole"

\* A restore on storage that works fails before it touches a partition, at the
\* flag of a cancelled backup, or in an archive nobody looked at.
Undamaged ==
    op = "restore" =>
        /\ opc = "verify" => disk = OldDisk
        /\ ~ faulty /\ result = "false" => disk = OldDisk \/ stop_backup = 1 \/ BadUnchecked

\* Where digests are checked, the listed archives the check went past are good,
\* and all of them once partitions are written.
Looked ==
    op = "restore" /\ UseDigest =>
        /\ opc = "verify" => \A i \in 1 .. Len(List) : i < entry => archive[List[i]] = "good"
        /\ opc \in {"restore", "extract", "copy"} =>
               \A i \in 1 .. Len(List) : archive[List[i]] = "good"

IInv == TypeOK /\ Threads /\ Listing /\ Cleaned /\ Written /\ Undamaged

-----------------------------------------------------------------------------
LEMMA Frame ==
    ASSUME UNCHANGED <<entry, nth>>
    PROVE  Visited' = Visited /\ Listed' = Listed /\ current' = current
  BY DEF Visited, Listed, current

LEMMA Current ==
    ASSUME TypeOK, entry <= Len(List)
    PROVE  current \in Part /\ current = Item(entry, nth) /\ Listed \in Part
  BY PartAssumption DEF TypeOK, current, Listed, Item

\* A list is gone through without leaving anything out.
LEMMA Advancing ==
    ASSUME TypeOK, entry <= Len(List), NEW again, NEW next, Advance(again, next)
    PROVE  /\ entry' \in 1 .. Len(List) + 1 /\ nth' \in Nat
           /\ entry' <= Len(List) => nth' \in 0 .. Len(Sub[Listed'])
           /\ entry' > Len(List) => nth' = 0
           /\ \/ opc' = again /\ entry' <= Len(List)
              \/ opc' = next
           /\ \A p \in Visited' : p \in Visited \/ p = current
<1>1. entry \in 1 .. Len(List) /\ nth \in 0 .. Len(Sub[List[entry]]) /\ Len(List) \in Nat
  BY PartAssumption DEF TypeOK, Listed
<1>2. Len(Sub[List[entry]]) \in Nat
  BY <1>1, PartAssumption
<1>3. CASE nth < Len(Sub[List[entry]])
  <2>1. nth' = nth + 1 /\ entry' = entry /\ opc' = again
    BY <1>3 DEF Advance, Listed
  <2>. QED
    BY <1>1, <1>2, <1>3, <2>1 DEF Visited, Listed, current, Item
<1>4. CASE ~ (nth < Len(Sub[List[entry]]))
  <2>1. nth' = 0 /\ entry' = entry + 1 /\ opc' = next
    BY <1>4 DEF Advance, Listed
  <2>2. nth = Len(Sub[List[entry]])
    BY <1>1, <1>2, <1>4
  <2>3. entry' <= Len(List) => Len(Sub[List[entry']]) \in Nat
    BY <1>1, <2>1, PartAssumption
  <2>4. \A p \in Visited' : p \in Visited \/ p = current
    BY <1>1, <1>2, <2>1, <2>2 DEF Visited, Listed, current, Item
  <2>. QED
    BY <1>1, <2>1, <2>3, <2>4 DEF Listed
<1>. QED
  BY <1>3, <1>4

LEMMA AtEnd ==
    ASSUME TypeOK, entry > Len(List) PROVE Selected \subseteq Visited
<1>1. entry \in Nat /\ Len(List) \in Nat
  BY PartAssumption DEF TypeOK
<1>2. ASSUME NEW i \in 1 .. Len(List) PROVE List[i] \in Visited
  <2>1. List[i] \in Part /\ Len(Sub[List[i]]) \in Nat /\ List[i] = Item(i, 0)
    BY PartAssumption DEF Item
  <2>. QED
    BY <1>1, <2>1 DEF Visited
<1>3. ASSUME NEW i \in 1 .. Len(List), NEW k \in 1 .. Len(Sub[List[i]])
      PROVE  Sub[List[i]][k] \in Visited
  <2>1. Sub[List[i]][k] \in Part /\ Len(Sub[List[i]]) \in Nat /\ Sub[List[i]][k] = Item(i, k)
    BY PartAssumption DEF Item
  <2>. QED
    BY <1>1, <2>1 DEF Visited
<1>. QED
  BY <1>2, <1>3 DEF Selected

LEMMA Consequences == IInv => SuccessIsWhole /\ FailureIsClean /\ DamageHasCause
<1>. SUFFICES ASSUME IInv PROVE SuccessIsWhole /\ FailureIsClean /\ DamageHasCause
  OBVIOUS
<1>1. FailureIsClean
  BY DEF IInv, Cleaned
<1>2. DamageHasCause
  BY DEF IInv, TypeOK, Threads, Undamaged, DamageHasCause, OldDisk
<1>3. SuccessIsWhole
  <2>. SUFFICES ASSUME op = "backup", result = "true", ~ hit, NEW p \in Selected
                PROVE  file[p] = "whole" /\ (UseDigest => sum[p])
    BY DEF IInv, SuccessIsWhole
  <2>1. opc = "idle" /\ p \in Visited
    BY AtEnd DEF IInv, Threads, Listing
  <2>. QED
    BY <2>1 DEF IInv, Written
<1>. QED
  BY <1>1, <1>2, <1>3

-----------------------------------------------------------------------------
LEMMA Initially == Init => IInv
<1>. SUFFICES ASSUME Init PROVE IInv
  OBVIOUS
<1>1. TypeOK
  <2>1. Len(List) \in Nat /\ 1 \in 1 .. Len(List) + 1
    BY PartAssumption
  <2>2. 1 <= Len(List) => Len(Sub[List[1]]) \in Nat
    BY <2>1, PartAssumption
  <2>3. 0 \in 0 .. Blocks /\ 0 \in 0 .. MaxRuns
    BY PartAssumption
  <2>4. /\ file \in [Part -> {"none", "partial", "whole"}] /\ sum \in [Part -> BOOLEAN]
        /\ archive \in [Part -> {"good", "bad"}]
        /\ disk \in [Part -> {"old", "damaged", "restored", "bad"}]
    BY DEF Init, NoFiles, NoSums
  <2>5. faulty \in BOOLEAN
    BY PartAssumption DEF Init
  <2>6. 1 <= Len(List) => 0 \in 0 .. Len(Sub[Listed])
    BY <2>2 DEF Init, Listed
  <2>. QED
    BY <2>1, <2>3, <2>4, <2>5, <2>6 DEF Init, TypeOK
<1>2. Visited = {}
  BY PartAssumption DEF Init, Visited
<1>. QED
  BY <1>1, <1>2, PartAssumption
     DEF Init, IInv, Threads, Listing, Cleaned, FailureIsClean, Written, Undamaged, OldDisk

\* A broken archive that is being written is not a listed one with a digest.
LEMMA BadIsUnchecked ==
    ASSUME IInv, Looked, op = "restore", opc \in {"extract", "copy"}, entry <= Len(List),
           archive[current] = "bad"
    PROVE  BadUnchecked
<1>1. UseDigest => archive[List[entry]] = "good"
  BY PartAssumption DEF IInv, TypeOK, Looked
<1>. QED
  BY <1>1 DEF BadUnchecked, current, Listed

\* What is left is what was there, or nothing.
LEMMA Leaving ==
    ASSUME TypeOK, NEW images, NEW digests, Leave(images, digests)
    PROVE  /\ file' \in [Part -> {"none", "partial", "whole"}] /\ sum' \in [Part -> BOOLEAN]
           /\ \A p \in Part : file'[p] # "none" => p \in images
           /\ digests = {} \/ sum = NoSums => sum' = NoSums
           /\ images = {} \/ file = NoFiles => file' = NoFiles
  BY DEF Leave, TypeOK, NoFiles, NoSums

LEMMA ResetStopStep == ASSUME IInv, ResetStop PROVE IInv'
<1>0. Visited' = Visited /\ Listed' = Listed /\ current' = current
  BY Frame DEF ResetStop, opVars, hist, folderVars, restoreVars, runVars
<1>1. TypeOK'
  BY <1>0, PartAssumption, Current DEF ResetStop, opVars, hist, folderVars, restoreVars,
       runVars, IInv, TypeOK, Threads
<1>2. Threads' /\ Listing'
  BY DEF ResetStop, opVars, hist, folderVars, restoreVars, runVars, IInv, TypeOK, Threads,
       Listing
<1>3. Cleaned'
  BY DEF ResetStop, opVars, hist, folderVars, restoreVars, runVars, IInv, TypeOK, Threads,
       Cleaned, FailureIsClean
<1>4. Written'
  BY <1>0, Current DEF ResetStop, opVars, hist, folderVars, restoreVars, runVars, IInv,
       TypeOK, Threads, Listing, Written
<1>5. Undamaged'
  BY DEF ResetStop, opVars, hist, folderVars, restoreVars, runVars, IInv, TypeOK, Threads,
       Undamaged, OldDisk
<1>. QED
  BY <1>1, <1>2, <1>3, <1>4, <1>5 DEF IInv

LEMMA MakeFolderStep == ASSUME IInv, MakeFolder PROVE IInv'
<1>0. Visited' = Visited /\ Listed' = Listed /\ current' = current
  BY Frame DEF MakeFolder, Return, opVars, cancelVars, restoreVars, runVars, hist
<1>1. TypeOK'
  BY <1>0, PartAssumption, Current DEF MakeFolder, Return, opVars, cancelVars,
       restoreVars, runVars, hist, IInv, TypeOK, Threads
<1>2. Threads' /\ Listing'
  BY DEF MakeFolder, Return, opVars, cancelVars, restoreVars, runVars, hist, IInv, TypeOK,
       Threads, Listing
<1>3. Cleaned'
  BY DEF MakeFolder, Return, opVars, cancelVars, restoreVars, runVars, hist, IInv, TypeOK,
       Threads, Cleaned, FailureIsClean, NoFiles, NoSums
<1>4. Written'
  BY <1>0, Current DEF MakeFolder, Return, opVars, cancelVars, restoreVars, runVars, hist,
       IInv, TypeOK, Threads, Listing, Written
<1>5. Undamaged'
  BY DEF MakeFolder, Return, opVars, cancelVars, restoreVars, runVars, hist, IInv, TypeOK,
       Threads, Undamaged, OldDisk
<1>. QED
  BY <1>1, <1>2, <1>3, <1>4, <1>5 DEF IInv

LEMMA NextEntryStep == ASSUME IInv, NextEntry PROVE IInv'
<1>0. Visited' = Visited /\ Listed' = Listed /\ current' = current
  BY Frame DEF NextEntry, Return, opVars, cancelVars, folderVars, restoreVars, runVars,
       hist
<1>1. TypeOK'
  BY <1>0, PartAssumption, Current DEF NextEntry, Return, opVars, cancelVars, folderVars,
       restoreVars, runVars, hist, IInv, TypeOK, Threads
<1>2. Threads' /\ Listing'
  BY DEF NextEntry, Return, opVars, cancelVars, folderVars, restoreVars, runVars, hist,
       IInv, TypeOK, Threads, Listing
<1>3. Cleaned'
  BY DEF NextEntry, Return, opVars, cancelVars, folderVars, restoreVars, runVars, hist,
       IInv, TypeOK, Threads, Cleaned, FailureIsClean
<1>4. Written'
  BY <1>0, Current DEF NextEntry, Return, opVars, cancelVars, folderVars, restoreVars,
       runVars, hist, IInv, TypeOK, Threads, Listing, Written
<1>5. Undamaged'
  BY DEF NextEntry, Return, opVars, cancelVars, folderVars, restoreVars, runVars, hist,
       IInv, TypeOK, Threads, Undamaged, OldDisk
<1>. QED
  BY <1>1, <1>2, <1>3, <1>4, <1>5 DEF IInv

LEMMA ForkTarStep == ASSUME IInv, ForkTar PROVE IInv'
<1>0. Visited' = Visited /\ Listed' = Listed /\ current' = current
  BY Frame DEF ForkTar, opVars, hist, folderVars, restoreVars, runVars
<1>1. TypeOK'
  BY <1>0, PartAssumption, Current DEF ForkTar, opVars, hist, folderVars, restoreVars,
       runVars, IInv, TypeOK, Threads
<1>2. Threads' /\ Listing'
  BY DEF ForkTar, opVars, hist, folderVars, restoreVars, runVars, IInv, TypeOK, Threads,
       Listing
<1>3. Cleaned'
  BY DEF ForkTar, opVars, hist, folderVars, restoreVars, runVars, IInv, TypeOK, Threads,
       Cleaned, FailureIsClean
<1>4. Written'
  BY <1>0, Current DEF ForkTar, opVars, hist, folderVars, restoreVars, runVars, IInv,
       TypeOK, Threads, Listing, Written
<1>5. Undamaged'
  BY DEF ForkTar, opVars, hist, folderVars, restoreVars, runVars, IInv, TypeOK, Threads,
       Undamaged, OldDisk
<1>. QED
  BY <1>1, <1>2, <1>3, <1>4, <1>5 DEF IInv

LEMMA ReapTarStep == ASSUME IInv, ReapTar PROVE IInv'
<1>0. Visited' = Visited /\ Listed' = Listed /\ current' = current
  BY Frame DEF ReapTar, opVars, cancelVars, folderVars, restoreVars, runVars, hist
<1>1. TypeOK'
  BY <1>0, PartAssumption, Current DEF ReapTar, opVars, cancelVars, folderVars,
       restoreVars, runVars, hist, IInv, TypeOK, Threads
<1>2. Threads' /\ Listing'
  BY DEF ReapTar, opVars, cancelVars, folderVars, restoreVars, runVars, hist, IInv,
       TypeOK, Threads, Listing
<1>3. Cleaned'
  BY DEF ReapTar, opVars, cancelVars, folderVars, restoreVars, runVars, hist, IInv,
       TypeOK, Threads, Cleaned, FailureIsClean
<1>4. Written'
  BY <1>0, Current DEF ReapTar, opVars, cancelVars, folderVars, restoreVars, runVars,
       hist, IInv, TypeOK, Threads, Listing, Written
<1>5. Undamaged'
  BY DEF ReapTar, opVars, cancelVars, folderVars, restoreVars, runVars, hist, IInv,
       TypeOK, Threads, Undamaged, OldDisk
<1>. QED
  BY <1>1, <1>2, <1>3, <1>4, <1>5 DEF IInv

LEMMA OpenImageStep == ASSUME IInv, OpenImage PROVE IInv'
<1>0. Visited' = Visited /\ Listed' = Listed /\ current' = current
  BY Frame DEF OpenImage, cancelVars, restoreVars, runVars, hist
<1>a. current \in Part
  BY Current DEF OpenImage, IInv, TypeOK
<1>b. /\ file' \in [Part -> {"none", "partial", "whole"}]
      /\ \A p \in Part : p # current => file'[p] = file[p]
      /\ opc' = "copy" => file'[current] = "partial"
  BY <1>a DEF OpenImage, IInv, TypeOK
<1>c. remain' \in 0 .. Blocks
  BY PartAssumption DEF OpenImage, IInv, TypeOK
<1>1. TypeOK'
  BY <1>0, <1>b, <1>c DEF OpenImage, cancelVars, hist, restoreVars, runVars, IInv, TypeOK
<1>2. Threads' /\ Listing'
  BY DEF OpenImage, cancelVars, restoreVars, runVars, hist, IInv, TypeOK, Threads, Listing
<1>3. Cleaned'
  BY DEF OpenImage, cancelVars, restoreVars, runVars, hist, IInv, TypeOK, Threads,
       Cleaned, FailureIsClean
<1>4. Written'
  <2>1. \A p \in Visited : p \in Part
    BY DEF Visited
  <2>2. CASE opc' = "copy"
    BY <1>0, <1>a, <1>b, <2>1, <2>2
       DEF OpenImage, cancelVars, hist, IInv, Threads, Written
  <2>3. CASE opc' = "clean"
    BY <2>3 DEF Written
  <2>. QED
    BY <2>2, <2>3 DEF OpenImage
<1>5. Undamaged'
  BY DEF OpenImage, cancelVars, restoreVars, runVars, hist, IInv, TypeOK, Threads,
       Undamaged, OldDisk
<1>. QED
  BY <1>1, <1>2, <1>3, <1>4, <1>5 DEF IInv

LEMMA CopyBlockStep == ASSUME IInv, Looked, CopyBlock PROVE IInv'
<1>0. Visited' = Visited /\ Listed' = Listed /\ current' = current
  BY Frame DEF CopyBlock, Return, cancelVars, folderVars, restoreVars, runVars, hist
<1>1. TypeOK'
  BY <1>0, PartAssumption, Current DEF CopyBlock, Return, cancelVars, folderVars,
       restoreVars, runVars, hist, IInv, TypeOK, Threads
<1>2. Threads' /\ Listing'
  BY DEF CopyBlock, Return, cancelVars, folderVars, restoreVars, runVars, hist, IInv,
       TypeOK, Threads, Listing
<1>3. Cleaned'
  BY DEF CopyBlock, Return, cancelVars, folderVars, restoreVars, runVars, hist, IInv,
       TypeOK, Threads, Cleaned, FailureIsClean
<1>4. Written'
  BY <1>0, Current DEF CopyBlock, Return, cancelVars, folderVars, restoreVars, runVars,
       hist, IInv, TypeOK, Threads, Listing, Written
<1>5. Undamaged'
  <2>1. op = "restore" /\ archive[current] = "bad" => BadUnchecked'
    BY <1>0, BadIsUnchecked DEF CopyBlock, restoreVars, BadUnchecked, IInv, TypeOK
  <2>. QED
    BY <2>1 DEF CopyBlock, Return, cancelVars, folderVars, restoreVars, runVars, hist, IInv,
       TypeOK, Threads, Undamaged, OldDisk
<1>. QED
  BY <1>1, <1>2, <1>3, <1>4, <1>5 DEF IInv

LEMMA FinishImageStep == ASSUME IInv, FinishImage PROVE IInv'
<1>0. Visited' = Visited /\ Listed' = Listed /\ current' = current
  BY Frame DEF FinishImage, opVars, cancelVars, restoreVars, runVars, hist
<1>1. TypeOK'
  BY <1>0, PartAssumption, Current DEF FinishImage, opVars, cancelVars, restoreVars,
       runVars, hist, IInv, TypeOK, Threads, Complete
<1>2. Threads' /\ Listing'
  BY DEF FinishImage, opVars, cancelVars, restoreVars, runVars, hist, IInv, TypeOK,
       Threads, Listing
<1>3. Cleaned'
  BY DEF FinishImage, opVars, cancelVars, restoreVars, runVars, hist, IInv, TypeOK,
       Threads, Cleaned, FailureIsClean, Complete
<1>4. Written'
  BY <1>0, Current DEF FinishImage, opVars, cancelVars, restoreVars, runVars, hist, IInv,
       TypeOK, Threads, Listing, Written, Complete
<1>5. Undamaged'
  BY DEF FinishImage, opVars, cancelVars, restoreVars, runVars, hist, IInv, TypeOK,
       Threads, Undamaged, OldDisk
<1>. QED
  BY <1>1, <1>2, <1>3, <1>4, <1>5 DEF IInv

LEMMA Clean_Backup_FolderStep == ASSUME IInv, Clean_Backup_Folder PROVE IInv'
<1>0. Visited' = Visited /\ Listed' = Listed /\ current' = current
  BY Frame DEF Clean_Backup_Folder, Leave, RemoveFails, Return, opVars, cancelVars, restoreVars, runVars, hist
<1>6. PICK images, digests \in SUBSET Part :
         /\ Leave(images, digests)
         /\ \/ images = Split /\ digests = {} /\ unremoved' = unremoved
            \/ unremoved' = TRUE
  <2>1. CASE Leave(Split, {}) /\ UNCHANGED unremoved
    <3>1. Split \in SUBSET Part
      BY PartAssumption
    <3>. QED
      BY <2>1, <3>1
  <2>2. ASSUME NEW i \in SUBSET Part, NEW d \in SUBSET Part, RemoveFails, Leave(Split \cup i, d)
        PROVE  \E images, digests \in SUBSET Part : Leave(images, digests) /\ unremoved' = TRUE
    <3>1. Split \cup i \in SUBSET Part
      BY PartAssumption
    <3>. QED
      BY <2>2, <3>1 DEF RemoveFails
  <2>. QED
    BY <2>1, <2>2, Zenon DEF Clean_Backup_Folder
<1>7. /\ file' \in [Part -> {"none", "partial", "whole"}] /\ sum' \in [Part -> BOOLEAN]
      /\ unremoved' \in BOOLEAN
  BY <1>6, Leaving DEF IInv, TypeOK
<1>1. TypeOK'
  BY <1>0, <1>7 DEF Clean_Backup_Folder, CancelStep, Return, opVars, cancelVars, restoreVars, runVars, hist, IInv,
     TypeOK
<1>2. Threads' /\ Listing'
  BY DEF Clean_Backup_Folder, Leave, RemoveFails, Return, opVars, cancelVars, restoreVars, runVars, hist,
       IInv, TypeOK, Threads, Listing
<1>3. Cleaned'
  BY <1>6, Leaving DEF Clean_Backup_Folder, CancelStep, Return, opVars, cancelVars, hist, IInv, Threads, Cleaned,
     FailureIsClean, NoFiles, NoSums
<1>4. Written'
  BY <1>0, Current DEF Clean_Backup_Folder, Leave, RemoveFails, Return, opVars, cancelVars, restoreVars,
       runVars, hist, IInv, TypeOK, Threads, Listing, Written, NoFiles
<1>5. Undamaged'
  BY DEF Clean_Backup_Folder, Leave, RemoveFails, Return, opVars, cancelVars, restoreVars, runVars, hist,
       IInv, TypeOK, Threads, Undamaged, OldDisk
<1>. QED
  BY <1>1, <1>2, <1>3, <1>4, <1>5 DEF IInv

LEMMA ChildOpenStep == ASSUME IInv, ChildOpen PROVE IInv'
<1>0. Visited' = Visited /\ Listed' = Listed /\ current' = current
  BY Frame DEF ChildOpen, opVars, cancelVars, restoreVars, runVars, hist
<1>1. TypeOK'
  BY <1>0, PartAssumption, Current DEF ChildOpen, opVars, cancelVars, restoreVars,
       runVars, hist, IInv, TypeOK, Threads
<1>2. Threads' /\ Listing'
  BY DEF ChildOpen, opVars, cancelVars, restoreVars, runVars, hist, IInv, TypeOK, Threads,
       Listing
<1>3. Cleaned'
  BY DEF ChildOpen, opVars, cancelVars, restoreVars, runVars, hist, IInv, TypeOK, Threads,
       Cleaned, FailureIsClean
<1>4. Written'
  <2>1. current \in Part /\ \A p \in Visited : p \in Part
    BY Current DEF ChildOpen, IInv, TypeOK, Threads, Visited
  <2>2. opc = "wait" /\ opc' = "wait"
    BY DEF ChildOpen, IInv, Threads
  <2>3. /\ \A p \in Part : p # current => file'[p] = file[p]
        /\ child' = "writing" => file'[current] = "partial"
        /\ child' # "succeeded"
    BY <2>1 DEF ChildOpen, IInv, TypeOK
  <2>. QED
    BY <1>0, <2>1, <2>2, <2>3
       DEF ChildOpen, opVars, cancelVars, hist, IInv, Written
<1>5. Undamaged'
  BY DEF ChildOpen, opVars, cancelVars, restoreVars, runVars, hist, IInv, TypeOK, Threads,
       Undamaged, OldDisk
<1>. QED
  BY <1>1, <1>2, <1>3, <1>4, <1>5 DEF IInv

LEMMA ChildExitStep == ASSUME IInv, ChildExit PROVE IInv'
<1>0. Visited' = Visited /\ Listed' = Listed /\ current' = current
  BY Frame DEF ChildExit, opVars, cancelVars, restoreVars, runVars, hist
<1>1. TypeOK'
  <2>1. current \in Part
    BY Current DEF ChildExit, IInv, TypeOK, Threads
  <2>2. file' \in [Part -> {"none", "partial", "whole"}]
    BY <2>1 DEF ChildExit, Complete, IInv, TypeOK
  <2>3. Listed' = Listed /\ child' \in {"succeeded", "failed"}
    BY <1>0 DEF ChildExit
  <2>. QED
    BY <2>2, <2>3 DEF ChildExit, opVars, cancelVars, restoreVars, runVars, hist, IInv, TypeOK
<1>2. Threads' /\ Listing'
  BY DEF ChildExit, opVars, cancelVars, restoreVars, runVars, hist, IInv, TypeOK, Threads,
       Listing
<1>3. Cleaned'
  BY DEF ChildExit, opVars, cancelVars, restoreVars, runVars, hist, IInv, TypeOK, Threads,
       Cleaned, FailureIsClean, Complete
<1>4. Written'
  <2>1. current \in Part /\ \A p \in Visited : p \in Part
    BY Current DEF ChildExit, IInv, TypeOK, Threads, Visited
  <2>2. opc = "wait" /\ opc' = "wait" /\ child' # "writing"
    BY DEF ChildExit, IInv, Threads
  <2>3. /\ \A p \in Part : p # current => file'[p] = file[p]
        /\ child' = "succeeded" /\ file[current] = "partial" => file'[current] = "whole"
    BY <2>1 DEF ChildExit, Complete, IInv, TypeOK
  <2>. QED
    BY <1>0, <2>1, <2>2, <2>3
       DEF ChildExit, opVars, cancelVars, hist, IInv, Written
<1>5. Undamaged'
  BY DEF ChildExit, opVars, cancelVars, restoreVars, runVars, hist, IInv, TypeOK, Threads,
       Undamaged, OldDisk
<1>. QED
  BY <1>1, <1>2, <1>3, <1>4, <1>5 DEF IInv

LEMMA SetStopStep == ASSUME IInv, SetStop PROVE IInv'
<1>0. Visited' = Visited /\ Listed' = Listed /\ current' = current
  BY Frame DEF SetStop, CancelStep, folderVars, opVars, restoreVars, runVars
<1>1. TypeOK'
  BY <1>0, PartAssumption, Current DEF SetStop, CancelStep, folderVars, opVars,
       restoreVars, runVars, IInv, TypeOK, Threads
<1>2. Threads' /\ Listing'
  BY DEF SetStop, CancelStep, folderVars, opVars, restoreVars, runVars, IInv, TypeOK,
       Threads, Listing
<1>3. Cleaned'
  BY DEF SetStop, CancelStep, folderVars, opVars, restoreVars, runVars, IInv, TypeOK,
       Threads, Cleaned, FailureIsClean
<1>4. Written'
  BY <1>0, Current DEF SetStop, CancelStep, folderVars, opVars, restoreVars, runVars,
       IInv, TypeOK, Threads, Listing, Written
<1>5. Undamaged'
  BY DEF SetStop, CancelStep, folderVars, opVars, restoreVars, runVars, IInv, TypeOK,
       Threads, Undamaged, OldDisk
<1>. QED
  BY <1>1, <1>2, <1>3, <1>4, <1>5 DEF IInv

LEMMA TestPidStep == ASSUME IInv, TestPid PROVE IInv'
<1>0. Visited' = Visited /\ Listed' = Listed /\ current' = current
  BY Frame DEF TestPid, CancelStep, hist, folderVars, opVars, restoreVars, runVars
<1>1. TypeOK'
  BY <1>0, PartAssumption, Current DEF TestPid, CancelStep, hist, folderVars, opVars,
       restoreVars, runVars, IInv, TypeOK, Threads
<1>2. Threads' /\ Listing'
  BY DEF TestPid, CancelStep, hist, folderVars, opVars, restoreVars, runVars, IInv,
       TypeOK, Threads, Listing
<1>3. Cleaned'
  BY DEF TestPid, CancelStep, hist, folderVars, opVars, restoreVars, runVars, IInv,
       TypeOK, Threads, Cleaned, FailureIsClean
<1>4. Written'
  BY <1>0, Current DEF TestPid, CancelStep, hist, folderVars, opVars, restoreVars,
       runVars, IInv, TypeOK, Threads, Listing, Written
<1>5. Undamaged'
  BY DEF TestPid, CancelStep, hist, folderVars, opVars, restoreVars, runVars, IInv,
       TypeOK, Threads, Undamaged, OldDisk
<1>. QED
  BY <1>1, <1>2, <1>3, <1>4, <1>5 DEF IInv

LEMMA KillTarStep == ASSUME IInv, KillTar PROVE IInv'
<1>0. Visited' = Visited /\ Listed' = Listed /\ current' = current
  BY Frame DEF KillTar, CancelStep, hist, folderVars, opVars, restoreVars, runVars
<1>1. TypeOK'
  BY <1>0, PartAssumption, Current DEF KillTar, CancelStep, hist, folderVars, opVars,
       restoreVars, runVars, IInv, TypeOK, Threads
<1>2. Threads' /\ Listing'
  BY DEF KillTar, CancelStep, hist, folderVars, opVars, restoreVars, runVars, IInv,
       TypeOK, Threads, Listing
<1>3. Cleaned'
  BY DEF KillTar, CancelStep, hist, folderVars, opVars, restoreVars, runVars, IInv,
       TypeOK, Threads, Cleaned, FailureIsClean
<1>4. Written'
  BY <1>0, Current DEF KillTar, CancelStep, hist, folderVars, opVars, restoreVars,
       runVars, IInv, TypeOK, Threads, Listing, Written
<1>5. Undamaged'
  BY DEF KillTar, CancelStep, hist, folderVars, opVars, restoreVars, runVars, IInv,
       TypeOK, Threads, Undamaged, OldDisk
<1>. QED
  BY <1>1, <1>2, <1>3, <1>4, <1>5 DEF IInv

LEMMA AwaitTarStep == ASSUME IInv, AwaitTar PROVE IInv'
<1>0. Visited' = Visited /\ Listed' = Listed /\ current' = current
  BY Frame DEF AwaitTar, CancelStep, folderVars, opVars, restoreVars, runVars
<1>1. TypeOK'
  BY <1>0, PartAssumption, Current DEF AwaitTar, CancelStep, folderVars, opVars,
       restoreVars, runVars, IInv, TypeOK, Threads
<1>2. Threads' /\ Listing'
  BY DEF AwaitTar, CancelStep, folderVars, opVars, restoreVars, runVars, IInv, TypeOK,
       Threads, Listing
<1>3. Cleaned'
  BY DEF AwaitTar, CancelStep, folderVars, opVars, restoreVars, runVars, IInv, TypeOK,
       Threads, Cleaned, FailureIsClean
<1>4. Written'
  BY <1>0, Current DEF AwaitTar, CancelStep, folderVars, opVars, restoreVars, runVars,
       IInv, TypeOK, Threads, Listing, Written
<1>5. Undamaged'
  BY DEF AwaitTar, CancelStep, folderVars, opVars, restoreVars, runVars, IInv, TypeOK,
       Threads, Undamaged, OldDisk
<1>. QED
  BY <1>1, <1>2, <1>3, <1>4, <1>5 DEF IInv

LEMMA RemoveFilesStep == ASSUME IInv, RemoveFiles PROVE IInv'
<1>0. Visited' = Visited /\ Listed' = Listed /\ current' = current
  BY Frame DEF RemoveFiles, Leave, RemoveFails, CancelStep, hist, opVars, restoreVars, runVars
<1>6. PICK images, digests \in SUBSET Part :
         /\ Leave(images, digests)
         /\ \/ images = {} /\ digests = {} /\ unremoved' = unremoved
            \/ unremoved' = TRUE
  <2>1. CASE Leave({}, {}) /\ UNCHANGED unremoved
    BY <2>1
  <2>2. ASSUME NEW i \in SUBSET Part, NEW d \in SUBSET Part, RemoveFails, Leave(i, d)
        PROVE  \E images, digests \in SUBSET Part : Leave(images, digests) /\ unremoved' = TRUE
    BY <2>2 DEF RemoveFails
  <2>3. \/ Leave({}, {}) /\ UNCHANGED unremoved
        \/ \E i, d \in SUBSET Part : RemoveFails /\ Leave(i, d)
    BY DEF RemoveFiles
  <2>. QED
    BY <2>1, <2>2, <2>3
<1>7. /\ file' \in [Part -> {"none", "partial", "whole"}] /\ sum' \in [Part -> BOOLEAN]
      /\ unremoved' \in BOOLEAN
  BY <1>6, Leaving DEF IInv, TypeOK
<1>1. TypeOK'
  BY <1>0, <1>7 DEF RemoveFiles, CancelStep, Return, opVars, cancelVars, restoreVars, runVars, hist, IInv,
     TypeOK
<1>2. Threads' /\ Listing'
  BY DEF RemoveFiles, Leave, RemoveFails, CancelStep, hist, opVars, restoreVars, runVars, IInv, TypeOK,
       Threads, Listing
<1>3. Cleaned'
  BY <1>6, Leaving DEF RemoveFiles, CancelStep, Return, opVars, cancelVars, hist, IInv, Threads, Cleaned,
     FailureIsClean, NoFiles, NoSums
<1>4. Written'
  BY <1>0, Current DEF RemoveFiles, Leave, RemoveFails, CancelStep, hist, opVars, restoreVars, runVars, IInv,
       TypeOK, Threads, Listing, Written, NoFiles
<1>5. Undamaged'
  BY DEF RemoveFiles, Leave, RemoveFails, CancelStep, hist, opVars, restoreVars, runVars, IInv, TypeOK,
       Threads, Undamaged, OldDisk
<1>. QED
  BY <1>1, <1>2, <1>3, <1>4, <1>5 DEF IInv

LEMMA RemoveFolderStep == ASSUME IInv, RemoveFolder PROVE IInv'
<1>0. Visited' = Visited /\ Listed' = Listed /\ current' = current
  BY Frame DEF RemoveFolder, Leave, RemoveFails, CancelStep, hist, opVars, restoreVars, runVars
<1>1. TypeOK'
  BY <1>0, PartAssumption, Current DEF RemoveFolder, Leave, RemoveFails, CancelStep, hist, opVars,
       restoreVars, runVars, IInv, TypeOK, Threads, NoFiles, NoSums
<1>2. Threads' /\ Listing'
  BY DEF RemoveFolder, Leave, RemoveFails, CancelStep, hist, opVars, restoreVars, runVars, IInv, TypeOK,
       Threads, Listing
<1>3. Cleaned'
  BY DEF RemoveFolder, Leave, RemoveFails, CancelStep, hist, opVars, restoreVars, runVars, IInv, TypeOK,
       Threads, Cleaned, FailureIsClean
<1>4. Written'
  BY <1>0, Current DEF RemoveFolder, Leave, RemoveFails, CancelStep, hist, opVars, restoreVars, runVars, IInv,
       TypeOK, Threads, Listing, Written, NoFiles
<1>5. Undamaged'
  BY DEF RemoveFolder, Leave, RemoveFails, CancelStep, hist, opVars, restoreVars, runVars, IInv, TypeOK,
       Threads, Undamaged, OldDisk
<1>. QED
  BY <1>1, <1>2, <1>3, <1>4, <1>5 DEF IInv

LEMMA ForgetPidStep == ASSUME IInv, ForgetPid PROVE IInv'
<1>0. Visited' = Visited /\ Listed' = Listed /\ current' = current
  BY Frame DEF ForgetPid, CancelStep, hist, folderVars, opVars, restoreVars, runVars
<1>1. TypeOK'
  BY <1>0, PartAssumption, Current DEF ForgetPid, CancelStep, hist, folderVars, opVars,
       restoreVars, runVars, IInv, TypeOK, Threads
<1>2. Threads' /\ Listing'
  BY DEF ForgetPid, CancelStep, hist, folderVars, opVars, restoreVars, runVars, IInv,
       TypeOK, Threads, Listing
<1>3. Cleaned'
  BY DEF ForgetPid, CancelStep, hist, folderVars, opVars, restoreVars, runVars, IInv,
       TypeOK, Threads, Cleaned, FailureIsClean
<1>4. Written'
  BY <1>0, Current DEF ForgetPid, CancelStep, hist, folderVars, opVars, restoreVars,
       runVars, IInv, TypeOK, Threads, Listing, Written
<1>5. Undamaged'
  BY DEF ForgetPid, CancelStep, hist, folderVars, opVars, restoreVars, runVars, IInv,
       TypeOK, Threads, Undamaged, OldDisk
<1>. QED
  BY <1>1, <1>2, <1>3, <1>4, <1>5 DEF IInv

LEMMA BeginPartitionStep == ASSUME IInv, BeginPartition PROVE IInv'
<1>0. Visited' = Visited /\ Listed' = Listed /\ current' = current
  BY Frame DEF BeginPartition, Return, restoreFrame, runVars, cancelVars, folderVars, hist
<1>1. TypeOK'
  <2>1. current \in Part
    BY Current DEF BeginPartition, IInv
  <2>2. disk' \in [Part -> {"old", "damaged", "restored", "bad"}]
    BY <2>1 DEF BeginPartition, IInv, TypeOK
  <2>3. remain' \in 0 .. Blocks
    BY PartAssumption DEF BeginPartition, IInv, TypeOK
  <2>. QED
    BY <1>0, <2>2, <2>3 DEF BeginPartition, Return, restoreFrame, cancelVars, hist, folderVars,
       runVars, IInv, TypeOK
<1>2. Threads' /\ Listing'
  BY DEF BeginPartition, Return, restoreFrame, runVars, cancelVars, folderVars, hist,
       IInv, TypeOK, Threads, Listing
<1>3. Cleaned'
  BY DEF BeginPartition, Return, restoreFrame, runVars, cancelVars, folderVars, hist,
       IInv, TypeOK, Threads, Cleaned, FailureIsClean
<1>4. Written'
  BY <1>0, Current DEF BeginPartition, Return, restoreFrame, runVars, cancelVars,
       folderVars, hist, IInv, TypeOK, Threads, Listing, Written
<1>5. Undamaged'
  BY DEF BeginPartition, Return, restoreFrame, runVars, cancelVars, folderVars, hist,
       IInv, TypeOK, Threads, Undamaged, OldDisk
<1>. QED
  BY <1>1, <1>2, <1>3, <1>4, <1>5 DEF IInv

LEMMA FinishRestoreStep == ASSUME IInv, FinishRestore PROVE IInv'
<1>0. Visited' = Visited /\ Listed' = Listed /\ current' = current
  BY Frame DEF FinishRestore, Return, opVars, restoreFrame, restoreVars, runVars,
       cancelVars, folderVars, hist
<1>1. TypeOK'
  BY <1>0, PartAssumption, Current DEF FinishRestore, Return, opVars, restoreFrame,
       restoreVars, runVars, cancelVars, folderVars, hist, IInv, TypeOK, Threads
<1>2. Threads' /\ Listing'
  BY DEF FinishRestore, Return, opVars, restoreFrame, restoreVars, runVars, cancelVars,
       folderVars, hist, IInv, TypeOK, Threads, Listing
<1>3. Cleaned'
  BY DEF FinishRestore, Return, opVars, restoreFrame, restoreVars, runVars, cancelVars,
       folderVars, hist, IInv, TypeOK, Threads, Cleaned, FailureIsClean
<1>4. Written'
  BY <1>0, Current DEF FinishRestore, Return, opVars, restoreFrame, restoreVars, runVars,
       cancelVars, folderVars, hist, IInv, TypeOK, Threads, Listing, Written
<1>5. Undamaged'
  BY DEF FinishRestore, Return, opVars, restoreFrame, restoreVars, runVars, cancelVars,
       folderVars, hist, IInv, TypeOK, Threads, Undamaged, OldDisk
<1>. QED
  BY <1>1, <1>2, <1>3, <1>4, <1>5 DEF IInv

LEMMA StartBackupStep == ASSUME IInv, StartBackup PROVE IInv'
<1>0. Visited' = {}
  BY PartAssumption DEF StartBackup, Visited
<1>1. TypeOK'
  <2>1. Len(List) \in Nat /\ 1 \in 1 .. Len(List) + 1
    BY PartAssumption
  <2>2. 1 <= Len(List) => Len(Sub[List[1]]) \in Nat
    BY <2>1, PartAssumption
  <2>3. runs' \in 0 .. MaxRuns
    BY PartAssumption DEF StartBackup, IInv, TypeOK
  <2>4. file' \in [Part -> {"none", "partial", "whole"}] /\ sum' \in [Part -> BOOLEAN]
    BY DEF StartBackup, NoFiles, NoSums
  <2>5. 1 <= Len(List) => 0 \in 0 .. Len(Sub[Listed'])
    BY <2>2 DEF StartBackup, Listed
  <2>. QED
    BY <2>1, <2>3, <2>4, <2>5 DEF StartBackup, restoreVars, IInv, TypeOK
<1>2. Threads' /\ Listing'
  BY <1>0 DEF StartBackup, restoreVars, IInv, TypeOK, Threads, Listing
<1>3. Cleaned'
  BY <1>0 DEF StartBackup, restoreVars, IInv, TypeOK, Threads, Cleaned, FailureIsClean,
       NoFiles, NoSums
<1>4. Written'
  BY <1>0, Current DEF StartBackup, restoreVars, IInv, TypeOK, Threads, Listing, Written
<1>5. Undamaged'
  BY <1>0 DEF StartBackup, restoreVars, IInv, TypeOK, Threads, Undamaged, OldDisk
<1>. QED
  BY <1>1, <1>2, <1>3, <1>4, <1>5 DEF IInv

LEMMA StartRestoreStep == ASSUME IInv, StartRestore PROVE IInv'
<1>1. TypeOK'
  <2>1. Len(List) \in Nat /\ 1 \in 1 .. Len(List) + 1
    BY PartAssumption
  <2>2. 1 <= Len(List) => Len(Sub[List[1]]) \in Nat
    BY <2>1, PartAssumption
  <2>3. runs' \in 0 .. MaxRuns /\ 0 \in 0 .. Blocks
    BY PartAssumption DEF StartRestore, IInv, TypeOK
  <2>. QED
    BY <2>1, <2>2, <2>3 DEF StartRestore, restoreFrame, cancelVars, hist, folderVars, IInv,
       TypeOK, Listed
<1>2. Threads' /\ Listing'
  BY DEF StartRestore, restoreFrame, cancelVars, folderVars, hist, IInv, TypeOK,
       Threads, Listing
<1>3. Cleaned'
  BY DEF StartRestore, restoreFrame, cancelVars, folderVars, hist, IInv, TypeOK,
       Threads, Cleaned, FailureIsClean, NoFiles, NoSums
<1>4. Written'
  BY Current DEF StartRestore, restoreFrame, cancelVars, folderVars, hist, IInv,
       TypeOK, Threads, Listing, Written
<1>5. Undamaged'
  BY DEF StartRestore, restoreFrame, cancelVars, folderVars, hist, IInv, TypeOK,
       Threads, Undamaged, OldDisk
<1>. QED
  BY <1>1, <1>2, <1>3, <1>4, <1>5 DEF IInv

LEMMA MakeDigestStep == ASSUME IInv, MakeDigest PROVE IInv'
<1>0. /\ opc = "digest" /\ op = "backup" /\ entry <= Len(List)
      /\ current \in Part /\ (current' = current \/ ~ UNCHANGED <<entry, nth>>)
      /\ UNCHANGED <<op, remain, result, cpc, stop_backup, tar_fork_pid, hit, gone, child,
                     folder, file, unremoved, archive, disk, runs, faulty>>
  BY Current, Frame DEF MakeDigest, IInv, TypeOK, Threads, cancelVars, hist, restoreVars,
     runVars
<1>1. CASE Advance("part", "entry") /\ sum' = [sum EXCEPT ![current] = @ \/ UseDigest]
  <2>0. /\ entry' \in 1 .. Len(List) + 1 /\ nth' \in Nat
        /\ entry' <= Len(List) => nth' \in 0 .. Len(Sub[Listed'])
        /\ entry' > Len(List) => nth' = 0
        /\ \/ opc' = "part" /\ entry' <= Len(List)
           \/ opc' = "entry"
        /\ \A p \in Visited' : p \in Visited \/ p = current
    BY <1>0, <1>1, Advancing DEF IInv
  <2>1. /\ sum' \in [Part -> BOOLEAN]
        /\ \A p \in Part : UseDigest /\ (sum[p] \/ p = current) => sum'[p]
    BY <1>0, <1>1, PartAssumption DEF IInv, TypeOK
  <2>2. TypeOK'
    BY <1>0, <2>0, <2>1 DEF IInv, TypeOK
  <2>3. Threads' /\ Listing'
    BY <1>0, <2>0 DEF IInv, Threads, Listing
  <2>4. Cleaned' /\ Undamaged'
    BY <1>0, <2>0 DEF IInv, Threads, Cleaned, FailureIsClean, Undamaged
  <2>5. Written'
    <3>. SUFFICES ASSUME ~ hit
                  PROVE  /\ \A p \in Visited' : UseDigest => sum'[p]
                         /\ \A p \in Visited' : file[p] = "whole"
      BY <1>0, <2>0 DEF IInv, Threads, Written
    <3>1. /\ \A p \in Visited : (UseDigest => sum[p]) /\ file[p] = "whole"
          /\ file[current] = "whole"
      BY <1>0 DEF IInv, Threads, Written
    <3>2. \A p \in Visited' : p \in Part
      BY DEF Visited
    <3>. QED
      BY <2>0, <2>1, <3>1, <3>2
  <2>. QED
    BY <2>2, <2>3, <2>4, <2>5 DEF IInv
<1>2. CASE opc' = "clean" /\ UNCHANGED <<sum, entry, nth>>
  <2>1. Listed' = Listed
    BY <1>2, Frame
  <2>2. TypeOK'
    BY <1>0, <1>2, <2>1 DEF IInv, TypeOK
  <2>. QED
    BY <1>0, <1>2, <2>2 DEF IInv, Threads, Listing, Cleaned, FailureIsClean, Written, Undamaged
<1>. QED
  BY <1>1, <1>2 DEF MakeDigest

LEMMA VerifyDigestStep == ASSUME IInv, VerifyDigest PROVE IInv'
<1>0. /\ opc = "verify" /\ op = "restore" /\ result = "none" /\ disk = OldDisk
      /\ UNCHANGED <<op, remain, cpc, stop_backup, tar_fork_pid, hit, gone, child, folder,
                     file, sum, unremoved, archive, disk, runs, faulty>>
  BY DEF VerifyDigest, IInv, Threads, Undamaged, restoreFrame, cancelVars, hist, folderVars,
     restoreVars, runVars
<1>1. CASE entry > Len(List) /\ opc' = "restore" /\ entry' = 1 /\ UNCHANGED <<nth, result>>
  <2>1. nth = 0 /\ Len(List) \in Nat
    BY <1>1, PartAssumption DEF IInv, Listing
  <2>2. entry' \in 1 .. Len(List) + 1 /\ (entry' <= Len(List) => 0 \in 0 .. Len(Sub[Listed']))
    BY <1>1, <2>1, PartAssumption DEF Listed
  <2>3. TypeOK'
    BY <1>0, <1>1, <2>1, <2>2 DEF IInv, TypeOK
  <2>. QED
    BY <1>0, <1>1, <2>1, <2>3
       DEF IInv, Threads, Listing, Cleaned, FailureIsClean, Written, Undamaged
<1>2. CASE entry <= Len(List) /\ Advance("verify", "verify") /\ UNCHANGED result
  <2>1. /\ entry' \in 1 .. Len(List) + 1 /\ nth' \in Nat /\ opc' = "verify"
        /\ entry' <= Len(List) => nth' \in 0 .. Len(Sub[Listed'])
        /\ entry' > Len(List) => nth' = 0
    BY <1>2, Advancing DEF IInv
  <2>2. TypeOK'
    BY <1>0, <1>2, <2>1 DEF IInv, TypeOK
  <2>. QED
    BY <1>0, <1>2, <2>1, <2>2
       DEF IInv, Threads, Listing, Cleaned, FailureIsClean, Written, Undamaged, OldDisk
<1>3. CASE Return("false") /\ UNCHANGED <<entry, nth>>
  <2>1. Listed' = Listed
    BY <1>3, Frame
  <2>2. TypeOK'
    BY <1>0, <1>3, <2>1 DEF Return, IInv, TypeOK
  <2>. QED
    BY <1>0, <1>3, <2>2 DEF Return, IInv, Threads, Listing, Cleaned, FailureIsClean, Written,
       Undamaged, OldDisk
<1>. QED
  BY <1>1, <1>2, <1>3 DEF VerifyDigest

LEMMA FinishPartitionStep == ASSUME IInv, Looked, FinishPartition PROVE IInv'
<1>0. /\ opc \in {"extract", "copy"} /\ op = "restore" /\ result = "none"
      /\ entry <= Len(List) /\ current \in Part
      /\ UNCHANGED <<op, remain, cpc, stop_backup, tar_fork_pid, hit, gone, child, folder,
                     file, sum, unremoved, archive, runs, faulty>>
  BY Current DEF FinishPartition, IInv, TypeOK, Threads, restoreFrame, cancelVars, hist,
     folderVars, runVars
<1>1. disk' \in [Part -> {"old", "damaged", "restored", "bad"}]
  BY <1>0 DEF FinishPartition, IInv, TypeOK
<1>2. CASE Advance("restore", "restore") /\ UNCHANGED result
  <2>1. /\ entry' \in 1 .. Len(List) + 1 /\ nth' \in Nat /\ opc' = "restore"
        /\ entry' <= Len(List) => nth' \in 0 .. Len(Sub[Listed'])
        /\ entry' > Len(List) => nth' = 0
    BY <1>0, <1>2, Advancing DEF IInv
  <2>2. TypeOK'
    BY <1>0, <1>1, <1>2, <2>1 DEF IInv, TypeOK
  <2>. QED
    BY <1>0, <1>2, <2>1, <2>2
       DEF IInv, Threads, Listing, Cleaned, FailureIsClean, Written, Undamaged
<1>3. CASE (faulty \/ archive[current] = "bad") /\ Return("false") /\ UNCHANGED <<disk, entry, nth>>
  <2>1. Listed' = Listed /\ current' = current
    BY <1>3, Frame
  <2>3. archive[current] = "bad" => BadUnchecked'
    BY <1>0, <1>3, <2>1, BadIsUnchecked DEF IInv, BadUnchecked
  <2>2. TypeOK'
    BY <1>0, <1>3, <2>1 DEF Return, IInv, TypeOK
  <2>. QED
    BY <1>0, <1>3, <2>2, <2>3 DEF Return, IInv, Threads, Listing, Cleaned, FailureIsClean,
       Written, Undamaged
<1>. QED
  BY <1>2, <1>3 DEF FinishPartition

\* A step of the check looks at one more archive.
LEMMA LookedStep == IInv /\ Looked /\ [Next]_vars => Looked'
<1>. SUFFICES ASSUME IInv, Looked, [Next]_vars, op' = "restore", UseDigest PROVE Looked'
  BY DEF Looked
<1>1. CASE StartRestore
  BY <1>1, PartAssumption DEF StartRestore, Looked
<1>2. CASE VerifyDigest
  <2>1. opc = "verify" /\ archive' = archive /\ entry \in Nat /\ Len(List) \in Nat
        /\ op = "restore"
    BY <1>2, PartAssumption DEF VerifyDigest, restoreVars, IInv, TypeOK, Threads
  <2>2. CASE entry > Len(List) /\ opc' = "restore"
    BY <2>1, <2>2 DEF Looked
  <2>3. CASE /\ entry <= Len(List) /\ Verified(current, Listed)
             /\ Advance("verify", "verify")
    <3>1. archive[List[entry]] = "good"
      BY <2>3 DEF Verified, Listed
    <3>2. opc' = "verify" /\ entry' \in {entry, entry + 1}
      BY <2>3 DEF Advance
    <3>. QED
      BY <2>1, <3>1, <3>2 DEF Looked
  <2>4. CASE Return("false")
    BY <2>4 DEF Return, Looked
  <2>. QED
    BY <1>2, <2>2, <2>3, <2>4 DEF VerifyDigest
<1>3. CASE BeginPartition \/ FinishPartition \/ FinishRestore
  <2>1. op = "restore" /\ archive' = archive /\ opc \in {"restore", "extract", "copy"}
    BY <1>3 DEF BeginPartition, FinishPartition, FinishRestore, restoreVars, opVars, IInv, Threads
  <2>2. opc' \in {"restore", "extract", "copy", "idle"}
    BY <1>3 DEF BeginPartition, FinishPartition, FinishRestore, Return, Advance
  <2>. QED
    BY <2>1, <2>2 DEF Looked
<1>4. CASE CopyBlock
  <2>1. archive' = archive /\ op = "restore" /\ opc = "copy" /\ opc' \in {"copy", "idle"}
    BY <1>4 DEF CopyBlock, restoreVars, Return
  <2>. QED
    BY <2>1 DEF Looked
<1>5. CASE \/ ResetStop \/ MakeFolder \/ NextEntry \/ ForkTar \/ ReapTar \/ OpenImage
           \/ FinishImage \/ MakeDigest \/ Clean_Backup_Folder \/ StartBackup
  BY <1>5 DEF ResetStop, MakeFolder, NextEntry, ForkTar, ReapTar, OpenImage, FinishImage,
     MakeDigest, Clean_Backup_Folder, StartBackup, opVars, IInv, Threads
<1>6. CASE ChildStep \/ SetStop \/ CancelGoesOn
  BY <1>6 DEF ChildStep, ChildOpen, ChildExit, SetStop, CancelGoesOn, TestPid, KillTar,
     AwaitTar, RemoveFiles, RemoveFolder, ForgetPid, CancelStep, opVars, IInv, Threads
<1>7. CASE UNCHANGED vars
  BY <1>7 DEF vars, opVars, restoreVars, Looked
<1>. QED
  BY <1>1, <1>2, <1>3, <1>4, <1>5, <1>6, <1>7 DEF Next, BackupStep, RestoreStep

LEMMA NextStep == IInv /\ Looked /\ [Next]_vars => IInv'
<1>. SUFFICES ASSUME IInv, Looked, [Next]_vars PROVE IInv'
  OBVIOUS
<1>1. CASE StartBackup \/ StartRestore
  BY <1>1, StartBackupStep, StartRestoreStep
<1>2. CASE BackupStep
  BY <1>2, ResetStopStep, MakeFolderStep, NextEntryStep, ForkTarStep, ReapTarStep,
     OpenImageStep, CopyBlockStep, FinishImageStep, MakeDigestStep, Clean_Backup_FolderStep
     DEF BackupStep
<1>3. CASE RestoreStep
  BY <1>3, VerifyDigestStep, BeginPartitionStep, FinishPartitionStep, FinishRestoreStep
     DEF RestoreStep
<1>4. CASE ChildStep
  BY <1>4, ChildOpenStep, ChildExitStep DEF ChildStep
<1>5. CASE SetStop \/ CancelGoesOn
  BY <1>5, SetStopStep, TestPidStep, KillTarStep, AwaitTarStep, RemoveFilesStep,
     RemoveFolderStep, ForgetPidStep DEF CancelGoesOn
<1>6. CASE UNCHANGED vars
  <2>1. Visited' = Visited /\ Listed' = Listed /\ current' = current
    BY <1>6, Frame DEF vars, opVars
  <2>. QED
    BY <1>6, <2>1 DEF vars, opVars, runVars, hist, cancelVars, folderVars, restoreVars, IInv,
       TypeOK, Threads, Listing, Cleaned, FailureIsClean, Written, Undamaged, BadUnchecked
<1>. QED
  BY <1>1, <1>2, <1>3, <1>4, <1>5, <1>6 DEF Next

LEMMA Invariant == Spec => []IInv
<1>1. Init => Looked
  BY DEF Init, Looked
<1>. QED
  BY Initially, <1>1, NextStep, LookedStep, PTL DEF Spec

\* A backup that returns true and was not cancelled has written every partition
\* and subpartition of its list, with its digest, whatever earlier operations
\* and cancels left behind.
THEOREM TrueIsWhole == Spec => []SuccessIsWhole
  BY Invariant, Consequences, PTL

\* A backup that returns false leaves no image and no digest, wherever tar, an
\* image, a digest or a cancel stopped it, unless a call that removes one failed:
\* nothing but the parts of archives that tar had split.
THEOREM FalseIsClean == Spec => []FailureIsClean
  BY Invariant, Consequences, PTL

\* On storage that works, a restore stops with a partition destroyed only at the
\* flag of a cancelled backup or in a broken archive whose digest nobody looked
\* at, which is a subpartition's where digests are on.
THEOREM DamageIsExplained == Spec => []DamageHasCause
  BY Invariant, Consequences, PTL

-----------------------------------------------------------------------------
(***************************************************************************)
(* The invariant of the hot-plug: what the events in the queue will make   *)
(* of an entry agrees with what is plugged in behind it.                   *)
(***************************************************************************)
Add(E, k, b) == E[k].action = "add" /\ BusOf[E[k].disk] = b
Rem(E, k, b) == E[k].action = "remove" /\ BusOf[E[k].disk] = b
NoEvent(E, b) == \A k \in 1 .. Len(E) : BusOf[E[k].disk] # b
NoRem(E, k, m, b) == \A n \in k + 1 .. m - 1 : ~Rem(E, n, b)
NoAdd(E, k, m, b) == \A n \in k + 1 .. m - 1 : ~Add(E, n, b)
RemovesLeft(E, b) == \E k \in 1 .. Len(E) : Rem(E, k, b)

\* When no disk of a bus is plugged in, a removal says so and no addition
\* after it, or has been handled.
Gone(E, G, b, dev) ==
    (\A d \in G : BusOf[d] # b) =>
        \/ \E k \in 1 .. Len(E) : Rem(E, k, b) /\ NoAdd(E, k, Len(E) + 1, b)
        \/ NoEvent(E, b) /\ dev = None

\* The events of a bus that never had two disks: an addition that follows no
\* removal is of the disk the entry has, or will be given by the one before it;
\* one that no removal follows is of the disk that is plugged in; and once
\* Coldboot has been, the disk that is plugged in is that of the entry or of
\* such an addition.
Agrees(E, b, dev) ==
    \A k \in 1 .. Len(E) : Add(E, k, b) /\ NoRem(E, 0, k, b) => dev \in {None, E[k].disk}
Repeats(E, b) ==
    \A k, m \in 1 .. Len(E) :
        k < m /\ Add(E, k, b) /\ Add(E, m, b) /\ NoRem(E, k, m, b) => E[k].disk = E[m].disk
Handled(E, G, b, dev) == NoEvent(E, b) /\ dev # None => dev \in G
Announced(E, G, b) ==
    \A k \in 1 .. Len(E) : Add(E, k, b) /\ NoRem(E, k, Len(E) + 1, b) => E[k].disk \in G
Known(E, G, b, dev) ==
    \A d \in G : BusOf[d] = b =>
        \/ NoEvent(E, b) /\ dev = d
        \/ \E k \in 1 .. Len(E) :
              Add(E, k, b) /\ E[k].disk = d /\ NoRem(E, k, Len(E) + 1, b)
Told(E, G, b, dev) ==
    Agrees(E, b, dev) /\ Repeats(E, b) /\ Handled(E, G, b, dev) /\ Announced(E, G, b)

\* The partitions of the disk behind entry i are listed, and mounted as such.
AllFound(T, i, N, M, stays) ==
    /\ Nodes(T[i].dev) \subseteq N
    /\ \A node \in PartsOf[T[i].dev] :
          \E j \in 1 .. Len(T) : T[j].sub = T[i].mount /\ T[j].dev = node
    /\ \A j \in 1 .. Len(T) : T[j].sub = T[i].mount =>
          /\ T[j].dev \in PartsOf[T[i].dev]
          /\ ~stays /\ T[j].mount \in DOMAIN M => M[T[j].mount] = T[j].dev
    /\ \A j, k \in 1 .. Len(T) :
          j # k /\ T[j].sub = T[i].mount /\ T[k].sub = T[i].mount => T[j].mount # T[k].mount

\* The entries of the buses.
AllGone(T, E, G) ==
    \A i \in 1 .. Len(T) : T[i].sysfs # None => Gone(E, G, T[i].sysfs, T[i].dev)
AllTold(T, E, G) ==
    \A i \in 1 .. Len(T) : T[i].sysfs # None => Told(E, G, T[i].sysfs, T[i].dev)
AllKnown(T, E, G) ==
    \A i \in 1 .. Len(T) : T[i].sysfs # None => Known(E, G, T[i].sysfs, T[i].dev)

\* An entry without a device has no partitions, but for those of bus b.
Childless(T, b) ==
    \A i \in 1 .. Len(T) : T[i].sysfs # None /\ T[i].dev = None /\ T[i].sysfs # b =>
        \A j \in 1 .. Len(T) : T[j].sub # T[i].mount

\* What is mounted below the mount point of a bus is listed.
MountsListed(T, M, stays) ==
    \A m \in DOMAIN M : \A i \in 1 .. Len(T) :
        T[i].sysfs # None /\ m.part # 0 /\ Numbered(m, 0) = T[i].mount =>
            stays \/ \E j \in 1 .. Len(T) : T[j].mount = m

\* A disk that no removal waits for is found.
DisksFound(T, E, N, M, stays) ==
    \A i \in 1 .. Len(T) :
        T[i].sysfs # None /\ T[i].dev # None /\ ~RemovesLeft(E, T[i].sysfs) =>
            AllFound(T, i, N, M, stays)

OneEach(G) == \A d, e \in G : BusOf[d] = BusOf[e] => d = e

Single == ~shared => OneEach(plugged)
Events ==
    /\ Listening => AllGone(Partitions, events, plugged)
    /\ ~shared => AllTold(Partitions, events, plugged)
    /\ ~shared /\ Listening /\ phase # "coldboot" => AllKnown(Partitions, events, plugged)
Empty ==
    Childless(Partitions, IF phase = "remove" THEN BusOf[events[1].disk] ELSE None)
Mounted == MountsListed(Partitions, mounts, stuck)
Found == ~shared /\ ~late => DisksFound(Partitions, events, nodes, mounts, stuck)

PlugInv == Single /\ Events /\ Empty /\ Mounted /\ Found

\* The queue: events of a bus, and of others.
Queues == Seq([action : {"add", "remove"}, disk : Disk])

\* The length of a queue and what its events are.
LEMMA EventsAre ==
    ASSUME NEW E \in Queues
    PROVE  /\ Len(E) \in Nat
           /\ \A k \in 1 .. Len(E) : E[k].disk \in Disk /\ E[k].action \in {"add", "remove"}
  <1> DEFINE S == [action : {"add", "remove"}, disk : Disk]
  <1>1. E \in Seq(S)
    BY DEF Queues
  <1>2. \A e \in S : e.disk \in Disk /\ e.action \in {"add", "remove"}
    OBVIOUS
  <1> HIDE DEF S
  <1> QED
    BY <1>1, <1>2

\* Events of other buses, at the end.
LEMMA OtherEvents ==
    ASSUME NEW E \in Queues, NEW F \in Queues, Len(E) <= Len(F),
           \A k \in 1 .. Len(E) : F[k] = E[k],
           NEW b, \A k \in Len(E) + 1 .. Len(F) : BusOf[F[k].disk] # b,
           NEW G, NEW H, \A d \in Disk : BusOf[d] = b => (d \in G <=> d \in H),
           G \subseteq Disk, H \subseteq Disk,
           NEW dev, dev = None \/ (dev \in Disk /\ BusOf[dev] = b)
    PROVE  /\ Gone(E, G, b, dev) => Gone(F, H, b, dev)
           /\ Told(E, G, b, dev) => Told(F, H, b, dev)
           /\ Known(E, G, b, dev) => Known(F, H, b, dev)
           /\ RemovesLeft(F, b) <=> RemovesLeft(E, b)
  <1>1. Len(E) \in Nat /\ Len(F) \in Nat
    BY DEF Queues
  <1>2. \A k \in 1 .. Len(F) : k \in 1 .. Len(E) \/ k \in Len(E) + 1 .. Len(F)
    BY <1>1
  <1>3. \A k \in 1 .. Len(E) : /\ k \in 1 .. Len(F)
                               /\ Add(F, k, b) <=> Add(E, k, b)
                               /\ Rem(F, k, b) <=> Rem(E, k, b)
                               /\ E[k].disk \in Disk
    <2>1. \A k \in 1 .. Len(E) : E[k].disk \in Disk
      BY EventsAre
    <2> QED
      BY <1>1, <2>1 DEF Add, Rem
  <1>4. \A k \in Len(E) + 1 .. Len(F) : ~Add(F, k, b) /\ ~Rem(F, k, b)
    BY DEF Add, Rem
  <1>5. \A k, m \in 1 .. Len(E) : \A n \in k + 1 .. m - 1 : n \in 1 .. Len(E)
    BY <1>1
  <1>6. \A k \in 1 .. Len(E) : \A n \in k + 1 .. Len(F) + 1 - 1 :
            (n \in k + 1 .. Len(E) + 1 - 1 /\ n \in 1 .. Len(E)) \/ n \in Len(E) + 1 .. Len(F)
    BY <1>1
  <1>a. \A k \in 1 .. Len(E) : \A n \in k + 1 .. Len(E) + 1 - 1 :
            n \in k + 1 .. Len(F) + 1 - 1 /\ n \in 1 .. Len(E)
    BY <1>1
  <1>7. \A k, m \in 1 .. Len(E) : NoRem(F, k, m, b) <=> NoRem(E, k, m, b)
    BY <1>3, <1>5 DEF NoRem
  <1>8. \A m \in 1 .. Len(E) : NoRem(F, 0, m, b) <=> NoRem(E, 0, m, b)
    <2>1. \A m \in 1 .. Len(E) : \A n \in 0 + 1 .. m - 1 : n \in 1 .. Len(E)
      BY <1>1
    <2> QED
      BY <1>3, <2>1 DEF NoRem
  <1>9. \A k \in 1 .. Len(E) : NoRem(F, k, Len(F) + 1, b) <=> NoRem(E, k, Len(E) + 1, b)
    BY <1>3, <1>4, <1>6, <1>a DEF NoRem
  <1>10. \A k \in 1 .. Len(E) : NoAdd(E, k, Len(E) + 1, b) => NoAdd(F, k, Len(F) + 1, b)
    BY <1>3, <1>4, <1>6 DEF NoAdd
  <1>11. NoEvent(E, b) <=> NoEvent(F, b)
    BY <1>2, <1>3 DEF NoEvent
  <1>12. (\A d \in H : BusOf[d] # b) => (\A d \in G : BusOf[d] # b)
    OBVIOUS
  <1>13. Gone(E, G, b, dev) => Gone(F, H, b, dev)
    BY <1>3, <1>10, <1>11, <1>12 DEF Gone
  <1>14. Told(E, G, b, dev) => Told(F, H, b, dev)
    <2>1. SUFFICES ASSUME Told(E, G, b, dev) PROVE Told(F, H, b, dev)
      OBVIOUS
    <2>2. Agrees(F, b, dev)
      BY <1>2, <1>3, <1>4, <1>8, <2>1 DEF Told, Agrees
    <2>3. Repeats(F, b)
      <3>1. ASSUME NEW k \in 1 .. Len(F), NEW m \in 1 .. Len(F),
                   k < m, Add(F, k, b), Add(F, m, b), NoRem(F, k, m, b)
            PROVE  F[k].disk = F[m].disk
        <4>1. k \in 1 .. Len(E) /\ m \in 1 .. Len(E)
          BY <1>2, <1>4, <3>1
        <4>2. k < m /\ Add(E, k, b) /\ Add(E, m, b) /\ NoRem(E, k, m, b)
          BY <1>3, <1>7, <3>1, <4>1
        <4>3. E[k].disk = E[m].disk
          BY <2>1, <4>1, <4>2 DEF Told, Repeats
        <4> QED
          BY <4>1, <4>3
      <3> QED
        BY <3>1 DEF Repeats
    <2>4. Handled(F, H, b, dev)
      BY <1>11, <2>1, DiskAssumption DEF Told, Handled
    <2>5. Announced(F, H, b)
      <3>1. ASSUME NEW k \in 1 .. Len(F), Add(F, k, b), NoRem(F, k, Len(F) + 1, b)
            PROVE  F[k].disk \in H
        <4>1. k \in 1 .. Len(E)
          BY <1>2, <1>4, <3>1
        <4>2. E[k].disk \in G /\ BusOf[E[k].disk] = b
          BY <1>3, <1>9, <2>1, <3>1, <4>1 DEF Told, Announced, Add
        <4> QED
          BY <1>3, <4>1, <4>2
      <3> QED
        BY <3>1 DEF Announced
    <2> QED
      BY <2>2, <2>3, <2>4, <2>5 DEF Told
  <1>15. Known(E, G, b, dev) => Known(F, H, b, dev)
    <2>1. SUFFICES ASSUME Known(E, G, b, dev), NEW d \in H, BusOf[d] = b
                   PROVE  \/ NoEvent(F, b) /\ dev = d
                          \/ \E k \in 1 .. Len(F) :
                                Add(F, k, b) /\ F[k].disk = d /\ NoRem(F, k, Len(F) + 1, b)
      BY DEF Known
    <2>2. d \in G
      BY <2>1
    <2>3. CASE NoEvent(E, b) /\ dev = d
      BY <1>11, <2>3
    <2>4. CASE \E k \in 1 .. Len(E) :
                  Add(E, k, b) /\ E[k].disk = d /\ NoRem(E, k, Len(E) + 1, b)
      BY <1>3, <1>9, <2>4
    <2> QED
      BY <2>1, <2>2, <2>3, <2>4 DEF Known
  <1>16. RemovesLeft(F, b) <=> RemovesLeft(E, b)
    BY <1>2, <1>3, <1>4 DEF RemovesLeft
  <1> QED
    BY <1>13, <1>14, <1>15, <1>16

\* A uevent is put at the end of the queue.
Heard(E, F, action, d) == F = Append(E, Uevent(action, d))

\* A disk is plugged in where there was none.
LEMMA PlugEvent ==
    ASSUME NEW E \in Queues, NEW G \in SUBSET Disk, NEW d \in Disk,
           NEW b, b = BusOf[d], NEW dev, Gone(E, G, b, dev), \A e \in G : BusOf[e] # b,
           NEW F, Heard(E, F, "add", d), NEW H, H = G \cup {d}
    PROVE  /\ Gone(F, H, b, dev)
           /\ Told(E, G, b, dev) => Told(F, H, b, dev) /\ Known(F, H, b, dev)
  <1>1. /\ Len(E) \in Nat /\ Len(F) = Len(E) + 1 /\ F[Len(F)] = Uevent("add", d)
        /\ \A k \in 1 .. Len(E) : F[k] = E[k]
    BY DEF Queues, Heard
  <1>2. \A k \in 1 .. Len(F) : k \in 1 .. Len(E) \/ k = Len(F)
    BY <1>1
  <1>3. /\ \A k \in 1 .. Len(E) : /\ k \in 1 .. Len(F)
                                  /\ Add(F, k, b) <=> Add(E, k, b)
                                  /\ Rem(F, k, b) <=> Rem(E, k, b)
        /\ Add(F, Len(F), b) /\ ~Rem(F, Len(F), b) /\ F[Len(F)].disk = d
        /\ Len(F) \in 1 .. Len(F)
    BY <1>1 DEF Add, Rem, Uevent
  <1>4. Gone(F, H, b, dev)
    BY DEF Gone
  <1>5. ASSUME Told(E, G, b, dev) PROVE Told(F, H, b, dev) /\ Known(F, H, b, dev)
    <2>1. \/ \E k \in 1 .. Len(E) : Rem(E, k, b) /\ NoAdd(E, k, Len(E) + 1, b)
          \/ NoEvent(E, b) /\ dev = None
      BY DEF Gone
    <2>2. Agrees(F, b, dev)
      <3>1. ASSUME NEW k \in 1 .. Len(F), Add(F, k, b), NoRem(F, 0, k, b)
            PROVE  dev \in {None, F[k].disk}
        <4>1. CASE k \in 1 .. Len(E)
          <5>1. NoRem(E, 0, k, b)
            <6>1. \A n \in 0 + 1 .. k - 1 : n \in 1 .. Len(E)
              BY <1>1, <4>1
            <6> QED
              BY <1>3, <3>1, <6>1 DEF NoRem
          <5> QED
            BY <1>1, <1>3, <1>5, <3>1, <4>1, <5>1 DEF Told, Agrees
        <4>2. CASE k = Len(F)
          <5>1. \A n \in 1 .. Len(E) : n \in 0 + 1 .. k - 1
            BY <1>1, <4>2
          <5>2. \A n \in 1 .. Len(E) : ~Rem(E, n, b)
            BY <1>3, <3>1, <5>1 DEF NoRem
          <5> QED
            BY <2>1, <5>2
        <4> QED
          BY <1>2, <4>1, <4>2
      <3> QED
        BY <3>1 DEF Agrees
    <2>3. Repeats(F, b)
      <3>1. ASSUME NEW k \in 1 .. Len(F), NEW m \in 1 .. Len(F),
                   k < m, Add(F, k, b), Add(F, m, b), NoRem(F, k, m, b)
            PROVE  F[k].disk = F[m].disk
        <4>1. CASE m \in 1 .. Len(E)
          <5>1. k \in 1 .. Len(E) /\ \A n \in k + 1 .. m - 1 : n \in 1 .. Len(E)
            BY <1>1, <3>1, <4>1
          <5>2. NoRem(E, k, m, b)
            BY <1>3, <3>1, <5>1 DEF NoRem
          <5>3. E[k].disk = E[m].disk
            BY <1>3, <1>5, <3>1, <4>1, <5>1, <5>2 DEF Told, Repeats
          <5> QED
            BY <1>1, <4>1, <5>1, <5>3
        <4>2. CASE m = Len(F)
          <5>1. k \in 1 .. Len(E)
            BY <1>1, <1>2, <3>1, <4>2
          <5>2. PICK l \in 1 .. Len(E) : Rem(E, l, b) /\ NoAdd(E, l, Len(E) + 1, b)
            BY <1>3, <2>1, <3>1, <5>1 DEF NoEvent, Add
          <5>3. l # k
            BY <1>3, <3>1, <5>1, <5>2 DEF Add, Rem
          <5>4. ~(l < k)
            <6>1. l < k => k \in l + 1 .. Len(E) + 1 - 1
              BY <1>1, <5>1
            <6> QED
              BY <1>3, <3>1, <5>1, <5>2, <6>1 DEF NoAdd
          <5>5. ~(k < l)
            <6>1. k < l => l \in k + 1 .. m - 1
              BY <1>1, <4>2, <5>1
            <6> QED
              BY <1>3, <3>1, <5>2, <6>1 DEF NoRem
          <5> QED
            BY <5>1, <5>3, <5>4, <5>5
        <4> QED
          BY <1>2, <4>1, <4>2
      <3> QED
        BY <3>1 DEF Repeats
    <2>4. Handled(F, H, b, dev)
      <3>1. ~NoEvent(F, b)
        BY <1>3 DEF NoEvent, Add
      <3> QED
        BY <3>1 DEF Handled
    <2>5. Announced(F, H, b)
      <3>1. ASSUME NEW k \in 1 .. Len(E), Add(F, k, b), NoRem(F, k, Len(F) + 1, b)
            PROVE  F[k].disk \in H
        <4>1. \A n \in k + 1 .. Len(E) + 1 - 1 : n \in 1 .. Len(E) /\ n \in k + 1 .. Len(F) + 1 - 1
          BY <1>1
        <4>2. NoRem(E, k, Len(E) + 1, b)
          BY <1>3, <3>1, <4>1 DEF NoRem
        <4> QED
          BY <1>1, <1>3, <1>5, <3>1, <4>2 DEF Told, Announced
      <3> QED
        BY <1>2, <1>3, <3>1 DEF Announced
    <2>6. Known(F, H, b, dev)
      <3>1. NoRem(F, Len(F), Len(F) + 1, b)
        <4>1. \A n \in Len(F) + 1 .. Len(F) + 1 - 1 : FALSE
          BY <1>1
        <4> QED
          BY <4>1 DEF NoRem
      <3>2. ASSUME NEW e \in H, BusOf[e] = b PROVE e = d
        BY <3>2
      <3> QED
        BY <1>3, <3>1, <3>2 DEF Known
    <2> QED
      BY <2>2, <2>3, <2>4, <2>5, <2>6 DEF Told
  <1> QED
    BY <1>4, <1>5

\* The disks that are left when one is pulled out.
Left(G, d) == G \ {d}

\* A disk is pulled out, and it was the only one.
LEMMA UnplugEvent ==
    ASSUME NEW E \in Queues, NEW G \in SUBSET Disk, NEW d \in G,
           NEW b, b = BusOf[d], NEW dev,
           NEW F, Heard(E, F, "remove", d), NEW H, H = Left(G, d)
    PROVE  /\ Gone(F, H, b, dev) /\ RemovesLeft(F, b)
           /\ Told(E, G, b, dev) => Told(F, H, b, dev)
           /\ (\A e \in G : BusOf[e] = b => e = d) => Known(F, H, b, dev)
  <1>0. H = G \ {d}
    BY DEF Left
  <1>1. /\ Len(E) \in Nat /\ Len(F) = Len(E) + 1 /\ F[Len(F)] = Uevent("remove", d)
        /\ \A k \in 1 .. Len(E) : F[k] = E[k]
    BY DEF Queues, Heard
  <1>2. \A k \in 1 .. Len(F) : k \in 1 .. Len(E) \/ k = Len(F)
    BY <1>1
  <1>3. /\ \A k \in 1 .. Len(E) : /\ k \in 1 .. Len(F)
                                  /\ Add(F, k, b) <=> Add(E, k, b)
                                  /\ Rem(F, k, b) <=> Rem(E, k, b)
        /\ Rem(F, Len(F), b) /\ ~Add(F, Len(F), b)
        /\ Len(F) \in 1 .. Len(F)
    BY <1>1 DEF Add, Rem, Uevent
  <1>4. Gone(F, H, b, dev)
    <2>1. \A n \in Len(F) + 1 .. Len(F) + 1 - 1 : FALSE
      BY <1>1
    <2>2. NoAdd(F, Len(F), Len(F) + 1, b)
      BY <2>1 DEF NoAdd
    <2> QED
      BY <1>3, <2>2 DEF Gone
  <1>5. ASSUME Told(E, G, b, dev) PROVE Told(F, H, b, dev)
    <2>1. \A k, m \in 1 .. Len(E) : NoRem(F, k, m, b) => NoRem(E, k, m, b)
      <3>1. \A k, m \in 1 .. Len(E) : \A n \in k + 1 .. m - 1 : n \in 1 .. Len(E)
        BY <1>1
      <3> QED
        BY <1>3, <3>1 DEF NoRem
    <2>2. \A m \in 1 .. Len(E) : NoRem(F, 0, m, b) => NoRem(E, 0, m, b)
      <3>1. \A m \in 1 .. Len(E) : \A n \in 0 + 1 .. m - 1 : n \in 1 .. Len(E)
        BY <1>1
      <3> QED
        BY <1>3, <3>1 DEF NoRem
    <2>3. \A k \in 1 .. Len(E) : ~NoRem(F, k, Len(F) + 1, b)
      <3>1. \A k \in 1 .. Len(E) : Len(F) \in k + 1 .. Len(F) + 1 - 1
        BY <1>1
      <3> QED
        BY <1>3, <3>1 DEF NoRem
    <2>4. Agrees(F, b, dev)
      BY <1>1, <1>2, <1>3, <1>5, <2>2 DEF Told, Agrees
    <2>5. Repeats(F, b)
      <3>1. ASSUME NEW k \in 1 .. Len(F), NEW m \in 1 .. Len(F),
                   k < m, Add(F, k, b), Add(F, m, b), NoRem(F, k, m, b)
            PROVE  F[k].disk = F[m].disk
        <4>1. k \in 1 .. Len(E) /\ m \in 1 .. Len(E)
          BY <1>2, <1>3, <3>1
        <4>2. Add(E, k, b) /\ Add(E, m, b) /\ NoRem(E, k, m, b)
          BY <1>3, <2>1, <3>1, <4>1
        <4>3. E[k].disk = E[m].disk
          BY <1>5, <3>1, <4>1, <4>2 DEF Told, Repeats
        <4> QED
          BY <1>1, <4>1, <4>3
      <3> QED
        BY <3>1 DEF Repeats
    <2>6. Handled(F, H, b, dev)
      <3>1. ~NoEvent(F, b)
        BY <1>3 DEF NoEvent, Rem
      <3> QED
        BY <3>1 DEF Handled
    <2>7. Announced(F, H, b)
      BY <1>2, <1>3, <2>3 DEF Announced
    <2> QED
      BY <2>4, <2>5, <2>6, <2>7 DEF Told
  <1>6. (\A e \in G : BusOf[e] = b => e = d) => Known(F, H, b, dev)
    BY <1>0 DEF Known
  <1>7. RemovesLeft(F, b)
    BY <1>3 DEF RemovesLeft
  <1> QED
    BY <1>4, <1>5, <1>6, <1>7

\* Coldboot, for a bus with the disk d or none.
LEMMA ColdEvents ==
    ASSUME NEW E \in Queues, NEW G \in SUBSET Disk, NEW b, NEW dev,
           NEW F \in Queues, Len(E) <= Len(F), \A k \in 1 .. Len(E) : F[k] = E[k],
           \A k \in Len(E) + 1 .. Len(F) : F[k].action = "add" /\ F[k].disk \in G,
           Gone(E, G, b, dev), dev = None \/ (dev \in Disk /\ BusOf[dev] = b)
    PROVE  /\ Gone(F, G, b, dev)
           /\ RemovesLeft(F, b) => RemovesLeft(E, b)
           /\ /\ \A d, e \in G : BusOf[d] = BusOf[e] => d = e
              /\ Told(E, G, b, dev)
              => Told(F, G, b, dev)
           /\ (\A d \in G : BusOf[d] = b => \E k \in Len(E) + 1 .. Len(F) : F[k].disk = d)
              => Known(F, G, b, dev)
  <1>1. Len(E) \in Nat /\ Len(F) \in Nat
    BY EventsAre
  <1>2. \A k \in 1 .. Len(F) : k \in 1 .. Len(E) \/ k \in Len(E) + 1 .. Len(F)
    BY <1>1
  <1>3. /\ \A k \in 1 .. Len(E) : /\ k \in 1 .. Len(F)
                                  /\ Add(F, k, b) <=> Add(E, k, b)
                                  /\ Rem(F, k, b) <=> Rem(E, k, b)
        /\ \A k \in Len(E) + 1 .. Len(F) : k \in 1 .. Len(F) /\ ~Rem(F, k, b)
    BY <1>1 DEF Add, Rem
  <1>4. Gone(F, G, b, dev)
    <2>1. SUFFICES ASSUME \A d \in G : BusOf[d] # b
                   PROVE  \/ \E k \in 1 .. Len(F) : Rem(F, k, b) /\ NoAdd(F, k, Len(F) + 1, b)
                          \/ NoEvent(F, b) /\ dev = None
      BY DEF Gone
    <2>2. \A k \in Len(E) + 1 .. Len(F) : BusOf[F[k].disk] # b /\ ~Add(F, k, b)
      BY <2>1 DEF Add
    <2>3. CASE \E k \in 1 .. Len(E) : Rem(E, k, b) /\ NoAdd(E, k, Len(E) + 1, b)
      <3>1. PICK k \in 1 .. Len(E) : Rem(E, k, b) /\ NoAdd(E, k, Len(E) + 1, b)
        BY <2>3
      <3>2. \A n \in k + 1 .. Len(F) + 1 - 1 :
               (n \in k + 1 .. Len(E) + 1 - 1 /\ n \in 1 .. Len(E)) \/ n \in Len(E) + 1 .. Len(F)
        BY <1>1
      <3>3. NoAdd(F, k, Len(F) + 1, b)
        BY <1>3, <2>2, <3>1, <3>2 DEF NoAdd
      <3> QED
        BY <1>3, <3>1, <3>3
    <2>4. CASE NoEvent(E, b) /\ dev = None
      BY <1>2, <2>2, <2>4 DEF NoEvent
    <2> QED
      BY <2>1, <2>3, <2>4 DEF Gone
  <1>5. RemovesLeft(F, b) => RemovesLeft(E, b)
    BY <1>2, <1>3 DEF RemovesLeft
  <1>6. ASSUME \A d, e \in G : BusOf[d] = BusOf[e] => d = e, Told(E, G, b, dev)
        PROVE  Told(F, G, b, dev)
    <2>1. \A k \in 1 .. Len(E) : Add(E, k, b) /\ NoRem(E, k, Len(E) + 1, b) =>
             E[k].disk \in G /\ BusOf[E[k].disk] = b
      BY <1>6 DEF Told, Announced, Add
    <2>2. \A k, m \in 1 .. Len(E) : NoRem(F, k, m, b) => NoRem(E, k, m, b)
      <3>1. \A k, m \in 1 .. Len(E) : \A n \in k + 1 .. m - 1 : n \in 1 .. Len(E)
        BY <1>1
      <3> QED
        BY <1>3, <3>1 DEF NoRem
    <2>3. \A m \in 1 .. Len(E) : NoRem(F, 0, m, b) => NoRem(E, 0, m, b)
      <3>1. \A m \in 1 .. Len(E) : \A n \in 0 + 1 .. m - 1 : n \in 1 .. Len(E)
        BY <1>1
      <3> QED
        BY <1>3, <3>1 DEF NoRem
    <2>4. \A k \in 1 .. Len(E), m \in Len(E) + 1 .. Len(F) + 1 :
             NoRem(F, k, m, b) => NoRem(E, k, Len(E) + 1, b)
      <3>1. \A k \in 1 .. Len(E), m \in Len(E) + 1 .. Len(F) + 1 :
               \A n \in k + 1 .. Len(E) + 1 - 1 : n \in 1 .. Len(E) /\ n \in k + 1 .. m - 1
        BY <1>1
      <3> QED
        BY <1>3, <3>1 DEF NoRem
    <2>5. Agrees(F, b, dev)
      <3>1. ASSUME NEW k \in 1 .. Len(F), Add(F, k, b), NoRem(F, 0, k, b)
            PROVE  dev \in {None, F[k].disk}
        <4>1. CASE k \in 1 .. Len(E)
          BY <1>3, <1>6, <2>3, <3>1, <4>1 DEF Told, Agrees
        <4>2. CASE k \in Len(E) + 1 .. Len(F)
          <5>1. F[k].disk \in G /\ BusOf[F[k].disk] = b
            BY <3>1, <4>2 DEF Add
          <5>2. \A n \in 1 .. Len(E) : n \in 0 + 1 .. k - 1
            BY <1>1, <4>2
          <5>3. \A n \in 1 .. Len(E) : ~Rem(E, n, b)
            BY <1>3, <3>1, <5>2 DEF NoRem
          <5>4. CASE NoEvent(E, b)
            <6>1. dev # None => dev \in G
              BY <1>6, <5>4 DEF Told, Handled
            <6> QED
              BY <5>1, <6>1, <1>6
          <5>5. CASE ~NoEvent(E, b)
            <6>1. PICK n \in 1 .. Len(E) : BusOf[E[n].disk] = b
              BY <5>5 DEF NoEvent
            <6>2. Add(E, n, b)
              BY <5>3, <6>1, EventsAre DEF Add, Rem
            <6>3. NoRem(E, 0, n, b) /\ NoRem(E, n, Len(E) + 1, b)
              <7>1. /\ \A i \in 0 + 1 .. n - 1 : i \in 1 .. Len(E)
                    /\ \A i \in n + 1 .. Len(E) + 1 - 1 : i \in 1 .. Len(E)
                BY <1>1
              <7> QED
                BY <5>3, <7>1 DEF NoRem
            <6>4. dev \in {None, E[n].disk}
              BY <1>6, <6>2, <6>3 DEF Told, Agrees
            <6>5. E[n].disk = F[k].disk
              BY <1>6, <2>1, <5>1, <6>2, <6>3
            <6> QED
              BY <6>4, <6>5
          <5> QED
            BY <5>4, <5>5
        <4> QED
          BY <1>2, <4>1, <4>2
      <3> QED
        BY <3>1 DEF Agrees
    <2>6. Repeats(F, b)
      <3>1. ASSUME NEW k \in 1 .. Len(F), NEW m \in 1 .. Len(F),
                   k < m, Add(F, k, b), Add(F, m, b), NoRem(F, k, m, b)
            PROVE  F[k].disk = F[m].disk
        <4>1. CASE m \in 1 .. Len(E)
          <5>1. k \in 1 .. Len(E)
            BY <1>1, <3>1, <4>1
          <5>2. E[k].disk = E[m].disk
            BY <1>3, <1>6, <2>2, <3>1, <4>1, <5>1 DEF Told, Repeats
          <5> QED
            BY <4>1, <5>1, <5>2
        <4>2. CASE m \in Len(E) + 1 .. Len(F)
          <5>1. F[m].disk \in G /\ BusOf[F[m].disk] = b
            BY <3>1, <4>2 DEF Add
          <5>2. F[k].disk \in G /\ BusOf[F[k].disk] = b
            <6>1. CASE k \in 1 .. Len(E)
              <7>1. m \in Len(E) + 1 .. Len(F) + 1
                BY <1>1, <4>2
              <7>2. Add(E, k, b) /\ NoRem(E, k, Len(E) + 1, b)
                BY <1>3, <2>4, <3>1, <6>1, <7>1
              <7> QED
                BY <2>1, <6>1, <7>2
            <6>2. CASE k \in Len(E) + 1 .. Len(F)
              BY <3>1, <6>2 DEF Add
            <6> QED
              BY <1>2, <6>1, <6>2
          <5> QED
            BY <1>6, <5>1, <5>2
        <4> QED
          BY <1>2, <4>1, <4>2
      <3> QED
        BY <3>1 DEF Repeats
    <2>7. Handled(F, G, b, dev)
      <3>1. NoEvent(F, b) => NoEvent(E, b)
        BY <1>3 DEF NoEvent
      <3> QED
        BY <1>6, <3>1 DEF Told, Handled
    <2>8. Announced(F, G, b)
      <3>1. ASSUME NEW k \in 1 .. Len(F), Add(F, k, b), NoRem(F, k, Len(F) + 1, b)
            PROVE  F[k].disk \in G
        <4>1. CASE k \in 1 .. Len(E)
          <5>1. Len(F) + 1 \in Len(E) + 1 .. Len(F) + 1
            BY <1>1
          <5>2. Add(E, k, b) /\ NoRem(E, k, Len(E) + 1, b)
            BY <1>3, <2>4, <3>1, <4>1, <5>1
          <5> QED
            BY <2>1, <4>1, <5>2
        <4> QED
          BY <1>2, <4>1
      <3> QED
        BY <3>1 DEF Announced
    <2> QED
      BY <2>5, <2>6, <2>7, <2>8 DEF Told
  <1>7. ASSUME \A d \in G : BusOf[d] = b => \E k \in Len(E) + 1 .. Len(F) : F[k].disk = d
        PROVE  Known(F, G, b, dev)
    <2>1. ASSUME NEW d \in G, BusOf[d] = b
          PROVE  \E k \in 1 .. Len(F) :
                    Add(F, k, b) /\ F[k].disk = d /\ NoRem(F, k, Len(F) + 1, b)
      <3>1. PICK k \in Len(E) + 1 .. Len(F) : F[k].disk = d
        BY <1>7, <2>1
      <3>2. Add(F, k, b)
        BY <2>1, <3>1 DEF Add
      <3>3. NoRem(F, k, Len(F) + 1, b)
        <4>1. \A n \in k + 1 .. Len(F) + 1 - 1 : n \in Len(E) + 1 .. Len(F)
          BY <1>1
        <4> QED
          BY <1>3, <4>1 DEF NoRem
      <3> QED
        BY <1>3, <3>1, <3>2, <3>3
    <2> QED
      BY <2>1 DEF Known
  <1> QED
    BY <1>4, <1>5, <1>6, <1>7

\* The queue without its first event.
Shifted(E, F, b) ==
    /\ Len(E) \in Nat \ {0} /\ Len(F) = Len(E) - 1 /\ F \in Queues
    /\ \A k \in 1 .. Len(F) : /\ k + 1 \in 1 .. Len(E) /\ F[k] = E[k + 1]
                              /\ Add(F, k, b) <=> Add(E, k + 1, b)
                              /\ Rem(F, k, b) <=> Rem(E, k + 1, b)
    /\ \A k \in 2 .. Len(E) : /\ k - 1 \in 1 .. Len(F) /\ F[k - 1] = E[k]
                              /\ Add(F, k - 1, b) <=> Add(E, k, b)
                              /\ Rem(F, k - 1, b) <=> Rem(E, k, b)
    /\ NoEvent(E, b) <=> NoEvent(F, b) /\ BusOf[E[1].disk] # b
    /\ RemovesLeft(E, b) <=> RemovesLeft(F, b) \/ Rem(E, 1, b)

FreeShifted(E, F, b) ==
    /\ \A k, m \in 1 .. Len(F) + 1 :
          /\ NoRem(F, k, m, b) <=> NoRem(E, k + 1, m + 1, b)
          /\ NoAdd(F, k, m, b) <=> NoAdd(E, k + 1, m + 1, b)
    /\ \A m \in 1 .. Len(F) : NoRem(F, 0, m, b) <=> NoRem(E, 1, m + 1, b)

\* Taking the first event off a queue moves the others forward by one.
LEMMA NextEvents ==
    ASSUME NEW E \in Queues, E # <<>>, NEW F, F = Tail(E), NEW b
    PROVE  Shifted(E, F, b) /\ FreeShifted(E, F, b)
  <1> DEFINE S == [action : {"add", "remove"}, disk : Disk]
  <1>0. E \in Seq(S)
    BY DEF Queues
  <1> HIDE DEF S
  <1>1. /\ Len(E) \in Nat \ {0} /\ Len(F) = Len(E) - 1 /\ F \in Seq(S)
        /\ \A k \in 1 .. Len(F) : F[k] = E[k + 1]
    BY <1>0
  <1>2. F \in Queues
    BY <1>1 DEF Queues, S
  <1>3. \A k \in 1 .. Len(F) : /\ k + 1 \in 1 .. Len(E) /\ F[k] = E[k + 1]
                               /\ Add(F, k, b) <=> Add(E, k + 1, b)
                               /\ Rem(F, k, b) <=> Rem(E, k + 1, b)
    BY <1>1 DEF Add, Rem
  <1>4. \A k \in 2 .. Len(E) : /\ k - 1 \in 1 .. Len(F) /\ F[k - 1] = E[k]
                               /\ Add(F, k - 1, b) <=> Add(E, k, b)
                               /\ Rem(F, k - 1, b) <=> Rem(E, k, b)
    <2>1. \A k \in 2 .. Len(E) : k - 1 \in 1 .. Len(F) /\ k - 1 + 1 = k
      BY <1>1
    <2> QED
      BY <1>1, <2>1 DEF Add, Rem
  <1>5. ASSUME NEW k \in 0 .. Len(F) + 1, NEW m \in 1 .. Len(F) + 1
        PROVE  /\ NoRem(F, k, m, b) <=> NoRem(E, k + 1, m + 1, b)
               /\ NoAdd(F, k, m, b) <=> NoAdd(E, k + 1, m + 1, b)
    <2>1. \A n \in k + 1 .. m - 1 : n \in 1 .. Len(F) /\ n + 1 \in k + 1 + 1 .. m + 1 - 1
      BY <1>1
    <2>2. \A n \in k + 1 + 1 .. m + 1 - 1 : n \in 2 .. Len(E) /\ n - 1 \in k + 1 .. m - 1
      BY <1>1
    <2> QED
      BY <1>3, <1>4, <2>1, <2>2 DEF NoRem, NoAdd
  <1>6. \A m \in 1 .. Len(F) : NoRem(F, 0, m, b) <=> NoRem(E, 1, m + 1, b)
    <2>1. \A m \in 1 .. Len(F) : 0 \in 0 .. Len(F) + 1 /\ m \in 1 .. Len(F) + 1 /\ 0 + 1 = 1
      BY <1>1
    <2> QED
      BY <1>5, <2>1
  <1>7. \A k \in 1 .. Len(E) : k = 1 \/ k \in 2 .. Len(E)
    BY <1>1
  <1>8. 1 \in 1 .. Len(E)
    BY <1>1
  <1>9. NoEvent(E, b) <=> NoEvent(F, b) /\ BusOf[E[1].disk] # b
    <2>1. ASSUME NoEvent(E, b) PROVE NoEvent(F, b) /\ BusOf[E[1].disk] # b
      BY <1>3, <1>8, <2>1 DEF NoEvent
    <2>2. ASSUME NoEvent(F, b), BusOf[E[1].disk] # b PROVE NoEvent(E, b)
      <3>1. \A k \in 2 .. Len(E) : BusOf[E[k].disk] # b
        <4>1. \A k \in 2 .. Len(E) : k - 1 \in 1 .. Len(F) /\ F[k - 1] = E[k]
          BY <1>4
        <4> QED
          BY <2>2, <4>1 DEF NoEvent
      <3> QED
        BY <1>7, <2>2, <3>1 DEF NoEvent
    <2> QED
      BY <2>1, <2>2
  <1>10. RemovesLeft(E, b) <=> RemovesLeft(F, b) \/ Rem(E, 1, b)
    BY <1>3, <1>4, <1>7, <1>8 DEF RemovesLeft
  <1>11. \A k, m \in 1 .. Len(F) + 1 :
                 /\ NoRem(F, k, m, b) <=> NoRem(E, k + 1, m + 1, b)
                 /\ NoAdd(F, k, m, b) <=> NoAdd(E, k + 1, m + 1, b)
    <2>1. \A k \in 1 .. Len(F) + 1 : k \in 0 .. Len(F) + 1
      BY <1>1
    <2> QED
      BY <1>5, <2>1
  <1> QED
    BY <1>1, <1>2, <1>3, <1>4, <1>6, <1>9, <1>10, <1>11 DEF Shifted, FreeShifted

\* What follows from any first event.
LEMMA TailKeeps ==
    ASSUME NEW E \in Queues, E # <<>>, NEW F, F = Tail(E), NEW b, NEW G
    PROVE  /\ Repeats(E, b) => Repeats(F, b)
           /\ Announced(E, G, b) => Announced(F, G, b)
           /\ \A dev : BusOf[E[1].disk] # b =>
                 /\ Gone(E, G, b, dev) => Gone(F, G, b, dev)
                 /\ Told(E, G, b, dev) => Told(F, G, b, dev)
                 /\ Known(E, G, b, dev) => Known(F, G, b, dev)
  <1>0. Shifted(E, F, b) /\ FreeShifted(E, F, b)
    BY NextEvents
  <1>1. /\ Len(E) \in Nat \ {0} /\ Len(F) = Len(E) - 1 /\ F \in Queues
        /\ \A k \in 1 .. Len(F) : /\ k + 1 \in 1 .. Len(E) /\ F[k] = E[k + 1]
                                  /\ Add(F, k, b) <=> Add(E, k + 1, b)
                                  /\ Rem(F, k, b) <=> Rem(E, k + 1, b)
        /\ \A k \in 2 .. Len(E) : /\ k - 1 \in 1 .. Len(F) /\ F[k - 1] = E[k]
                                  /\ Add(F, k - 1, b) <=> Add(E, k, b)
                                  /\ Rem(F, k - 1, b) <=> Rem(E, k, b)
        /\ NoEvent(E, b) <=> NoEvent(F, b) /\ BusOf[E[1].disk] # b
    BY <1>0 DEF Shifted
  <1>2. /\ \A k, m \in 1 .. Len(F) + 1 :
                 /\ NoRem(F, k, m, b) <=> NoRem(E, k + 1, m + 1, b)
                 /\ NoAdd(F, k, m, b) <=> NoAdd(E, k + 1, m + 1, b)
        /\ \A m \in 1 .. Len(F) : NoRem(F, 0, m, b) <=> NoRem(E, 1, m + 1, b)
    BY <1>0 DEF FreeShifted
  <1>3. \A k \in 1 .. Len(F) : k \in 1 .. Len(F) + 1
    BY <1>1
  <1>4. Len(F) + 1 \in 1 .. Len(F) + 1 /\ Len(F) + 1 + 1 = Len(E) + 1
    BY <1>1
  <1>5. ASSUME Repeats(E, b) PROVE Repeats(F, b)
    <2>1. \A k, m \in 1 .. Len(F) : k < m => k + 1 < m + 1
      BY <1>1
    <2> QED
      BY <1>1, <1>2, <1>3, <1>5, <2>1 DEF Repeats
  <1>6. ASSUME Announced(E, G, b) PROVE Announced(F, G, b)
    BY <1>1, <1>2, <1>3, <1>4, <1>6 DEF Announced
  <1>7. ASSUME NEW dev, BusOf[E[1].disk] # b
        PROVE  /\ Gone(E, G, b, dev) => Gone(F, G, b, dev)
               /\ Told(E, G, b, dev) => Told(F, G, b, dev)
               /\ Known(E, G, b, dev) => Known(F, G, b, dev)
    <2>1. /\ NoEvent(E, b) <=> NoEvent(F, b)
          /\ ~Add(E, 1, b) /\ ~Rem(E, 1, b)
      BY <1>1, <1>7 DEF Add, Rem
    <2>2. \A k \in 1 .. Len(E) : Add(E, k, b) \/ Rem(E, k, b) => k \in 2 .. Len(E)
      BY <1>1, <2>1
    <2>3. \A k \in 2 .. Len(E) : k - 1 \in 1 .. Len(F) /\ k - 1 + 1 = k
      BY <1>1
    <2>4. ASSUME Gone(E, G, b, dev) PROVE Gone(F, G, b, dev)
      <3>1. ASSUME NEW k \in 1 .. Len(E), Rem(E, k, b), NoAdd(E, k, Len(E) + 1, b)
            PROVE  \E m \in 1 .. Len(F) : Rem(F, m, b) /\ NoAdd(F, m, Len(F) + 1, b)
        <4>1. k \in 2 .. Len(E) /\ k - 1 \in 1 .. Len(F) /\ k - 1 + 1 = k
          BY <2>2, <2>3, <3>1
        <4>2. Rem(F, k - 1, b) /\ NoAdd(F, k - 1, Len(F) + 1, b)
          BY <1>1, <1>2, <1>3, <1>4, <3>1, <4>1
        <4> QED
          BY <4>1, <4>2
      <3> QED
        BY <2>1, <2>4, <3>1 DEF Gone
    <2>5. ASSUME Known(E, G, b, dev) PROVE Known(F, G, b, dev)
      <3>1. ASSUME NEW d, NEW k \in 1 .. Len(E), Add(E, k, b), E[k].disk = d,
                   NoRem(E, k, Len(E) + 1, b)
            PROVE  \E m \in 1 .. Len(F) :
                      Add(F, m, b) /\ F[m].disk = d /\ NoRem(F, m, Len(F) + 1, b)
        <4>1. k \in 2 .. Len(E) /\ k - 1 \in 1 .. Len(F) /\ k - 1 + 1 = k
          BY <2>2, <2>3, <3>1
        <4>2. Add(F, k - 1, b) /\ F[k - 1] = E[k] /\ NoRem(F, k - 1, Len(F) + 1, b)
          BY <1>1, <1>2, <1>3, <1>4, <3>1, <4>1
        <4> QED
          BY <3>1, <4>1, <4>2
      <3> QED
        BY <2>1, <2>5, <3>1 DEF Known
    <2>6. ASSUME Told(E, G, b, dev) PROVE Told(F, G, b, dev)
      <3>1. Agrees(F, b, dev)
        <4>1. ASSUME NEW k \in 1 .. Len(F), Add(F, k, b), NoRem(F, 0, k, b)
              PROVE  dev \in {None, F[k].disk}
          <5>1. k + 1 \in 1 .. Len(E) /\ Add(E, k + 1, b) /\ NoRem(E, 1, k + 1, b)
                /\ F[k] = E[k + 1]
            BY <1>1, <1>2, <4>1
          <5>2. NoRem(E, 0, k + 1, b)
            <6>1. \A n \in 0 + 1 .. k + 1 - 1 : n = 1 \/ n \in 1 + 1 .. k + 1 - 1
              BY <1>1
            <6> QED
              BY <2>1, <5>1, <6>1 DEF NoRem
          <5> QED
            BY <2>6, <5>1, <5>2 DEF Told, Agrees
        <4> QED
          BY <4>1 DEF Agrees
      <3>2. Handled(F, G, b, dev)
        BY <2>1, <2>6 DEF Told, Handled
      <3> QED
        BY <1>5, <1>6, <2>6, <3>1, <3>2 DEF Told
    <2> QED
      BY <2>4, <2>5, <2>6
  <1> QED
    BY <1>5, <1>6, <1>7

\* An addition gives its disk to the entry.
LEMMA AddHandled ==
    ASSUME NEW E \in Queues, E # <<>>, NEW F, F = Tail(E), NEW G, NEW b, Add(E, 1, b),
           NEW dev, Gone(E, G, b, dev)
    PROVE  LET d == E[1].disk IN
           /\ Gone(F, G, b, d)
           /\ RemovesLeft(F, b) <=> RemovesLeft(E, b)
           /\ Told(E, G, b, dev) => /\ Told(F, G, b, d) /\ dev \in {None, d}
                                    /\ ~RemovesLeft(F, b) => d \in G
           /\ Told(E, G, b, dev) /\ Known(E, G, b, dev) => Known(F, G, b, d)
  <1> DEFINE d == E[1].disk
  <1>0. Shifted(E, F, b) /\ FreeShifted(E, F, b)
    BY NextEvents
  <1>1. /\ Len(E) \in Nat \ {0} /\ Len(F) = Len(E) - 1 /\ F \in Queues
        /\ \A k \in 1 .. Len(F) : /\ k + 1 \in 1 .. Len(E) /\ F[k] = E[k + 1]
                                  /\ Add(F, k, b) <=> Add(E, k + 1, b)
                                  /\ Rem(F, k, b) <=> Rem(E, k + 1, b)
        /\ \A k \in 2 .. Len(E) : /\ k - 1 \in 1 .. Len(F) /\ F[k - 1] = E[k]
                                  /\ Add(F, k - 1, b) <=> Add(E, k, b)
                                  /\ Rem(F, k - 1, b) <=> Rem(E, k, b)
        /\ NoEvent(E, b) <=> NoEvent(F, b) /\ BusOf[E[1].disk] # b
        /\ RemovesLeft(E, b) <=> RemovesLeft(F, b) \/ Rem(E, 1, b)
    BY <1>0 DEF Shifted
  <1>2. /\ \A k, m \in 1 .. Len(F) + 1 :
                 /\ NoRem(F, k, m, b) <=> NoRem(E, k + 1, m + 1, b)
                 /\ NoAdd(F, k, m, b) <=> NoAdd(E, k + 1, m + 1, b)
        /\ \A m \in 1 .. Len(F) : NoRem(F, 0, m, b) <=> NoRem(E, 1, m + 1, b)
    BY <1>0 DEF FreeShifted
  <1>3. \A k \in 1 .. Len(F) : k \in 1 .. Len(F) + 1
    BY <1>1
  <1>4. Len(F) + 1 \in 1 .. Len(F) + 1 /\ Len(F) + 1 + 1 = Len(E) + 1
    BY <1>1
  <1>5. ~Rem(E, 1, b) /\ BusOf[d] = b /\ ~NoEvent(E, b) /\ 1 \in 1 .. Len(E)
    BY <1>1 DEF Add, Rem
  <1>6. Gone(F, G, b, d)
    <2>1. SUFFICES ASSUME \A e \in G : BusOf[e] # b
                   PROVE  \E m \in 1 .. Len(F) : Rem(F, m, b) /\ NoAdd(F, m, Len(F) + 1, b)
      BY DEF Gone
    <2>2. PICK k \in 1 .. Len(E) : Rem(E, k, b) /\ NoAdd(E, k, Len(E) + 1, b)
      BY <1>5, <2>1 DEF Gone
    <2>3. k \in 2 .. Len(E) /\ k - 1 \in 1 .. Len(F) /\ k - 1 + 1 = k
      BY <1>1, <1>5, <2>2
    <2>4. Rem(F, k - 1, b) /\ NoAdd(F, k - 1, Len(F) + 1, b)
      BY <1>1, <1>2, <1>3, <1>4, <2>2, <2>3
    <2> QED
      BY <2>3, <2>4
  <1>7. ASSUME Told(E, G, b, dev)
        PROVE  /\ Told(F, G, b, d) /\ dev \in {None, d}
               /\ ~RemovesLeft(F, b) => d \in G
    <2>1. NoRem(E, 0, 1, b)
      <3>1. \A n \in 0 + 1 .. 1 - 1 : FALSE
        OBVIOUS
      <3> QED
        BY <3>1 DEF NoRem
    <2>2. dev \in {None, d}
      BY <1>5, <1>7, <2>1 DEF Told, Agrees
    <2>3. Agrees(F, b, d)
      <3>1. ASSUME NEW k \in 1 .. Len(F), Add(F, k, b), NoRem(F, 0, k, b)
            PROVE  d = F[k].disk
        <4>1. k + 1 \in 1 .. Len(E) /\ Add(E, k + 1, b) /\ NoRem(E, 1, k + 1, b)
              /\ F[k] = E[k + 1] /\ 1 < k + 1
          BY <1>1, <1>2, <3>1
        <4> QED
          BY <1>5, <1>7, <4>1 DEF Told, Repeats
      <3> QED
        BY <3>1 DEF Agrees
    <2>4. NoRem(E, 1, Len(E) + 1, b) => d \in G
      BY <1>5, <1>7 DEF Told, Announced
    <2>5. Handled(F, G, b, d)
      <3>1. SUFFICES ASSUME NoEvent(F, b) PROVE NoRem(E, 1, Len(E) + 1, b)
        BY <2>4 DEF Handled
      <3>2. \A n \in 1 + 1 .. Len(E) + 1 - 1 : n \in 2 .. Len(E)
        BY <1>1
      <3>3. \A n \in 2 .. Len(E) : BusOf[E[n].disk] # b
        <4>1. \A n \in 2 .. Len(E) : n - 1 \in 1 .. Len(F) /\ F[n - 1] = E[n]
          BY <1>1
        <4> QED
          BY <3>1, <4>1 DEF NoEvent
      <3> QED
        BY <3>2, <3>3 DEF NoRem, Rem
    <2>6. ~RemovesLeft(F, b) => d \in G
      <3>1. SUFFICES ASSUME ~RemovesLeft(F, b) PROVE NoRem(E, 1, Len(E) + 1, b)
        BY <2>4
      <3>2. \A n \in 1 + 1 .. Len(E) + 1 - 1 : n \in 1 .. Len(E)
        BY <1>1
      <3> QED
        BY <1>1, <1>5, <3>1, <3>2 DEF RemovesLeft, NoRem
    <2> QED
      BY <1>7, <2>2, <2>3, <2>5, <2>6, TailKeeps DEF Told
  <1>8. ASSUME Told(E, G, b, dev), Known(E, G, b, dev) PROVE Known(F, G, b, d)
    <2>1. ASSUME NEW e \in G, BusOf[e] = b
          PROVE  \/ NoEvent(F, b) /\ d = e
                 \/ \E k \in 1 .. Len(F) :
                       Add(F, k, b) /\ F[k].disk = e /\ NoRem(F, k, Len(F) + 1, b)
      <3>1. PICK k \in 1 .. Len(E) : Add(E, k, b) /\ E[k].disk = e /\ NoRem(E, k, Len(E) + 1, b)
        BY <1>5, <1>8, <2>1 DEF Known
      <3>2. CASE k \in 2 .. Len(E)
        <4>1. k - 1 \in 1 .. Len(F) /\ k - 1 + 1 = k
          BY <1>1, <3>2
        <4>2. Add(F, k - 1, b) /\ F[k - 1] = E[k] /\ NoRem(F, k - 1, Len(F) + 1, b)
          BY <1>1, <1>2, <1>3, <1>4, <3>1, <3>2, <4>1
        <4> QED
          BY <3>1, <4>1, <4>2
      <3>3. CASE k = 1
        <4>1. d = e
          BY <3>1, <3>3
        <4>2. CASE NoEvent(F, b)
          BY <4>1, <4>2
        <4>3. CASE ~NoEvent(F, b)
          <5>1. PICK m \in 1 .. Len(F) : BusOf[F[m].disk] = b
            BY <4>3 DEF NoEvent
          <5>2. m + 1 \in 1 .. Len(E) /\ m + 1 \in 1 + 1 .. Len(E) + 1 - 1 /\ 1 < m + 1
            BY <1>1
          <5>3. ~Rem(E, m + 1, b)
            BY <3>1, <3>3, <5>2 DEF NoRem
          <5>4. Add(E, m + 1, b)
            <6>1. BusOf[E[m + 1].disk] = b
              BY <1>1, <5>1
            <6> QED
              BY <5>2, <5>3, <6>1, EventsAre DEF Add, Rem
          <5>5. NoRem(E, 1, m + 1, b)
            <6>1. \A n \in 1 + 1 .. m + 1 - 1 : n \in 1 + 1 .. Len(E) + 1 - 1
              BY <1>1
            <6> QED
              BY <3>1, <3>3, <6>1 DEF NoRem
          <5>6. E[1].disk = E[m + 1].disk
            BY <1>5, <1>8, <5>2, <5>4, <5>5 DEF Told, Repeats
          <5>7. NoRem(E, m + 1, Len(E) + 1, b)
            <6>1. \A n \in m + 1 + 1 .. Len(E) + 1 - 1 : n \in 1 + 1 .. Len(E) + 1 - 1
              BY <1>1
            <6> QED
              BY <3>1, <3>3, <6>1 DEF NoRem
          <5>8. Add(F, m, b) /\ F[m].disk = e /\ NoRem(F, m, Len(F) + 1, b)
            BY <1>1, <1>2, <1>3, <1>4, <4>1, <5>4, <5>6, <5>7
          <5> QED
            BY <5>8
        <4> QED
          BY <4>2, <4>3
      <3> QED
        BY <1>1, <3>2, <3>3
    <2> QED
      BY <2>1 DEF Known
  <1>9. RemovesLeft(F, b) <=> RemovesLeft(E, b)
    BY <1>1, <1>5
  <1> QED
    BY <1>6, <1>7, <1>8, <1>9

\* A removal, before and after it is taken from the queue.
LEMMA RemHandled ==
    ASSUME NEW E \in Queues, E # <<>>, NEW F, F = Tail(E), NEW G, NEW b, Rem(E, 1, b)
    PROVE  /\ \A dev : /\ Gone(E, G, b, dev) => Gone(E, G, b, None) /\ Gone(F, G, b, None)
                       /\ Told(E, G, b, dev) => Told(E, G, b, None) /\ Told(F, G, b, None)
                       /\ Known(E, G, b, dev) => Known(E, G, b, None) /\ Known(F, G, b, None)
  <1>0. Shifted(E, F, b) /\ FreeShifted(E, F, b)
    BY NextEvents
  <1>1. /\ Len(E) \in Nat \ {0} /\ Len(F) = Len(E) - 1 /\ F \in Queues
        /\ \A k \in 1 .. Len(F) : /\ k + 1 \in 1 .. Len(E) /\ F[k] = E[k + 1]
                                  /\ Add(F, k, b) <=> Add(E, k + 1, b)
                                  /\ Rem(F, k, b) <=> Rem(E, k + 1, b)
        /\ \A k \in 2 .. Len(E) : /\ k - 1 \in 1 .. Len(F) /\ F[k - 1] = E[k]
                                  /\ Add(F, k - 1, b) <=> Add(E, k, b)
                                  /\ Rem(F, k - 1, b) <=> Rem(E, k, b)
        /\ NoEvent(E, b) <=> NoEvent(F, b) /\ BusOf[E[1].disk] # b
    BY <1>0 DEF Shifted
  <1>2. \A k, m \in 1 .. Len(F) + 1 :
                 /\ NoRem(F, k, m, b) <=> NoRem(E, k + 1, m + 1, b)
                 /\ NoAdd(F, k, m, b) <=> NoAdd(E, k + 1, m + 1, b)
    BY <1>0 DEF FreeShifted
  <1>3. \A k \in 1 .. Len(F) : k \in 1 .. Len(F) + 1
    BY <1>1
  <1>4. Len(F) + 1 \in 1 .. Len(F) + 1 /\ Len(F) + 1 + 1 = Len(E) + 1
    BY <1>1
  <1>5. ~Add(E, 1, b) /\ ~NoEvent(E, b) /\ 1 \in 1 .. Len(E)
    BY <1>1 DEF Add, Rem
  <1>6. ASSUME NEW dev, Gone(E, G, b, dev) PROVE Gone(E, G, b, None) /\ Gone(F, G, b, None)
    <2>1. Gone(E, G, b, None)
      BY <1>6 DEF Gone
    <2>2. Gone(F, G, b, None)
      <3>1. SUFFICES ASSUME \A e \in G : BusOf[e] # b
                     PROVE  \/ \E m \in 1 .. Len(F) : Rem(F, m, b) /\ NoAdd(F, m, Len(F) + 1, b)
                            \/ NoEvent(F, b)
        BY DEF Gone
      <3>2. PICK k \in 1 .. Len(E) : Rem(E, k, b) /\ NoAdd(E, k, Len(E) + 1, b)
        BY <1>5, <1>6, <3>1 DEF Gone
      <3>3. CASE k \in 2 .. Len(E)
        <4>1. k - 1 \in 1 .. Len(F) /\ k - 1 + 1 = k
          BY <1>1, <3>3
        <4>2. Rem(F, k - 1, b) /\ NoAdd(F, k - 1, Len(F) + 1, b)
          BY <1>1, <1>2, <1>3, <1>4, <3>2, <3>3, <4>1
        <4> QED
          BY <4>1, <4>2
      <3>4. CASE k = 1
        <4>1. SUFFICES ASSUME ~NoEvent(F, b)
                       PROVE  \E m \in 1 .. Len(F) : Rem(F, m, b) /\ NoAdd(F, m, Len(F) + 1, b)
          OBVIOUS
        <4>2. PICK m \in 1 .. Len(F) : BusOf[F[m].disk] = b
          BY <4>1 DEF NoEvent
        <4>3. \A n \in 1 .. Len(F) : ~Add(F, n, b)
          <5>1. \A n \in 1 .. Len(F) : n + 1 \in 1 + 1 .. Len(E) + 1 - 1
            BY <1>1
          <5> QED
            BY <1>1, <3>2, <3>4, <5>1 DEF NoAdd
        <4>4. Rem(F, m, b)
          BY <1>1, <4>2, <4>3, EventsAre DEF Add, Rem
        <4>5. NoAdd(F, m, Len(F) + 1, b)
          <5>1. \A n \in m + 1 .. Len(F) + 1 - 1 : n \in 1 .. Len(F)
            BY <1>1
          <5> QED
            BY <4>3, <5>1 DEF NoAdd
        <4> QED
          BY <4>4, <4>5
      <3> QED
        BY <1>1, <3>2, <3>3, <3>4
    <2> QED
      BY <2>1, <2>2
  <1>7. ASSUME NEW dev, Told(E, G, b, dev) PROVE Told(E, G, b, None) /\ Told(F, G, b, None)
    <2>1. \A X : Agrees(X, b, None) /\ Handled(X, G, b, None)
      BY DEF Agrees, Handled
    <2> QED
      BY <1>7, <2>1, TailKeeps DEF Told
  <1>8. ASSUME NEW dev, Known(E, G, b, dev) PROVE Known(E, G, b, None) /\ Known(F, G, b, None)
    <2>1. Known(E, G, b, None)
      BY <1>5, <1>8 DEF Known
    <2>2. ASSUME NEW d \in G, BusOf[d] = b
          PROVE  \E m \in 1 .. Len(F) :
                      Add(F, m, b) /\ F[m].disk = d /\ NoRem(F, m, Len(F) + 1, b)
      <3>1. PICK k \in 1 .. Len(E) : Add(E, k, b) /\ E[k].disk = d /\ NoRem(E, k, Len(E) + 1, b)
        BY <1>5, <1>8, <2>2 DEF Known
      <3>2. k \in 2 .. Len(E) /\ k - 1 \in 1 .. Len(F) /\ k - 1 + 1 = k
        BY <1>1, <1>5, <3>1
      <3>3. Add(F, k - 1, b) /\ F[k - 1] = E[k] /\ NoRem(F, k - 1, Len(F) + 1, b)
        BY <1>1, <1>2, <1>3, <1>4, <3>1, <3>2
      <3> QED
        BY <3>1, <3>2, <3>3
    <2> QED
      BY <2>1, <2>2 DEF Known
  <1> QED
    BY <1>6, <1>7, <1>8

-----------------------------------------------------------------------------
(***************************************************************************)
(* What the steps make of the entries of the buses.                        *)
(***************************************************************************)
\* What has the mount point of a bus as its parent was found on a disk.
LEMMA BelowBus ==
    ASSUME NEW B, NEW T, TableOK(T, B), NEW i \in 1 .. Len(T), NEW j \in 1 .. Len(T),
           T[i].sysfs # None, T[j].sub = T[i].mount
    PROVE  IsChild(T[j]) /\ ChildOK(T[j]) /\ ~IsChild(T[i])
  <1>1. EntryOK(T[i], B) /\ EntryOK(T[j], B)
    BY DEF TableOK
  <1>2. ~IsChild(T[i]) /\ FileOK(T[i], B)
    BY <1>1 DEF EntryOK, ChildOK
  <1>3. IsChild(T[j])
    BY <1>1, <1>2, NoSub DEF EntryOK
  <1> QED
    BY <1>1, <1>2, <1>3 DEF EntryOK

\* Two entries of the files have different mount points.
LEMMA OwnMount ==
    ASSUME NEW B, NEW T, TableOK(T, B), NEW i \in 1 .. Len(T), NEW j \in 1 .. Len(T),
           T[i].sysfs # None, T[j].wild, T[j].mount = T[i].mount
    PROVE  i = j
  <1>1. EntryOK(T[i], B) /\ EntryOK(T[j], B)
    BY DEF TableOK
  <1>2. ~IsChild(T[i]) /\ ~IsChild(T[j])
    BY <1>1 DEF EntryOK, ChildOK
  <1> QED
    BY <1>2 DEF TableOK, Apart

\* The entries stay, and new ones are of disks behind some of them.
Widened(T, U) ==
    /\ Len(T) <= Len(U)
    /\ \A j \in 1 .. Len(T) : /\ U[j].mount = T[j].mount /\ U[j].sub = T[j].sub
                              /\ U[j].sysfs = T[j].sysfs /\ U[j].dev = T[j].dev
    /\ \A j \in Len(T) + 1 .. Len(U) :
          /\ U[j].sysfs = None
          /\ \E k \in 1 .. Len(T) : /\ U[j].sub = T[k].mount /\ T[k].wild /\ T[k].dev \in Disk
                                    /\ U[j].dev \in PartsOf[T[k].dev]

\* A table whose entries stay in place, or of which one was searched for, is
\* widened.
LEMMA WidenedIs ==
    ASSUME NEW T \in Seq(Entries), NEW U
    PROVE  /\ Steady(T, U) => Widened(T, U)
           /\ \A i \in 1 .. Len(T) : Searched(T, U, i) => Widened(T, U)
  <1>1. Len(T) \in Nat
    OBVIOUS
  <1>2. ASSUME Steady(T, U) PROVE Widened(T, U)
    <2>1. \A j \in Len(T) + 1 .. Len(U) : FALSE
      BY <1>1, <1>2 DEF Steady
    <2> QED
      BY <1>1, <1>2, <2>1 DEF Steady, Widened
  <1>3. ASSUME NEW i \in 1 .. Len(T), Searched(T, U, i) PROVE Widened(T, U)
    BY <1>3 DEF Searched, Widened
  <1> QED
    BY <1>2, <1>3

\* What was found for an entry stays so when no entry is added below it.
LEMMA FoundKept ==
    ASSUME NEW T \in Seq(Entries), NEW U \in Seq(Entries), NEW i \in 1 .. Len(T),
           Len(T) <= Len(U), U[i].dev = T[i].dev,
           \A j \in 1 .. Len(T) : U[j].mount = T[j].mount /\ U[j].sub = T[j].sub,
           \A j \in 1 .. Len(T) : T[j].sub = T[i].mount => U[j].dev = T[j].dev,
           \A j \in Len(T) + 1 .. Len(U) : U[j].sub # T[i].mount,
           NEW N, NEW M, NEW s, AllFound(T, i, N, M, s)
    PROVE  AllFound(U, i, N, M, s)
  <1>1. Len(T) \in Nat /\ Len(U) \in Nat
    OBVIOUS
  <1>2. \A j \in 1 .. Len(U) : j \in 1 .. Len(T) \/ j \in Len(T) + 1 .. Len(U)
    BY <1>1
  <1>3. \A j \in 1 .. Len(T) : j \in 1 .. Len(U)
    BY <1>1
  <1>4. U[i].dev = T[i].dev /\ U[i].mount = T[i].mount
    OBVIOUS
  <1>5. \A j \in 1 .. Len(U) : U[j].sub = T[i].mount =>
           j \in 1 .. Len(T) /\ T[j].sub = T[i].mount /\ U[j].dev = T[j].dev /\ U[j].mount = T[j].mount
    BY <1>2
  <1>6. Nodes(U[i].dev) \subseteq N
    BY <1>4 DEF AllFound
  <1>7. ASSUME NEW node \in PartsOf[U[i].dev]
        PROVE  \E j \in 1 .. Len(U) : U[j].sub = U[i].mount /\ U[j].dev = node
    <2>1. PICK j \in 1 .. Len(T) : T[j].sub = T[i].mount /\ T[j].dev = node
      BY <1>4, <1>7 DEF AllFound
    <2>2. U[j].sub = U[i].mount /\ U[j].dev = node
      BY <1>4, <2>1
    <2> QED
      BY <1>3, <2>2
  <1>8. ASSUME NEW j \in 1 .. Len(U), U[j].sub = U[i].mount
        PROVE  /\ U[j].dev \in PartsOf[U[i].dev]
               /\ ~s /\ U[j].mount \in DOMAIN M => M[U[j].mount] = U[j].dev
    <2>1. j \in 1 .. Len(T) /\ T[j].sub = T[i].mount /\ U[j].dev = T[j].dev /\ U[j].mount = T[j].mount
      BY <1>4, <1>5, <1>8
    <2> QED
      BY <1>4, <2>1 DEF AllFound
  <1>9. ASSUME NEW j \in 1 .. Len(U), NEW k \in 1 .. Len(U), j # k,
               U[j].sub = U[i].mount, U[k].sub = U[i].mount
        PROVE  U[j].mount # U[k].mount
    <2>1. /\ j \in 1 .. Len(T) /\ T[j].sub = T[i].mount /\ U[j].mount = T[j].mount
          /\ k \in 1 .. Len(T) /\ T[k].sub = T[i].mount /\ U[k].mount = T[k].mount
      BY <1>4, <1>5, <1>9
    <2> QED
      BY <1>9, <2>1 DEF AllFound
  <1> QED
    BY <1>6, <1>7, <1>8, <1>9 DEF AllFound

\* A search adds no entry where all partitions were found.
LEMMA WidenedFound ==
    ASSUME NEW B, NEW T \in Seq(Entries), TableOK(T, B), NEW U \in Seq(Entries), TableOK(U, B),
           Widened(T, U), NEW i \in 1 .. Len(T), T[i].sysfs # None,
           NEW N, NEW M, NEW s, AllFound(T, i, N, M, s)
    PROVE  AllFound(U, i, N, M, s)
  <1>1. Len(T) \in Nat /\ Len(U) \in Nat /\ Len(T) <= Len(U)
    BY DEF Widened
  <1>2. i \in 1 .. Len(U) /\ U[i].sysfs # None /\ U[i].mount = T[i].mount /\ U[i].dev = T[i].dev
    BY <1>1 DEF Widened
  <1>3. ASSUME NEW j \in Len(T) + 1 .. Len(U), U[j].sub = T[i].mount PROVE FALSE
    <2>1. PICK k \in 1 .. Len(T) : /\ U[j].sub = T[k].mount /\ T[k].wild
                                   /\ U[j].dev \in PartsOf[T[k].dev]
      BY DEF Widened
    <2>2. k = i
      <3>1. T[k].mount = T[i].mount
        BY <1>3, <2>1
      <3> QED
        BY <2>1, <3>1, OwnMount
    <2>3. PICK h \in 1 .. Len(T) : T[h].sub = T[i].mount /\ T[h].dev = U[j].dev
      BY <2>1, <2>2 DEF AllFound
    <2>4. h \in 1 .. Len(U) /\ j \in 1 .. Len(U) /\ h # j
      BY <1>1
    <2>5. U[h].sub = U[i].mount /\ U[h].dev = U[j].dev
      BY <1>2, <2>3 DEF Widened
    <2>6. IsChild(U[h]) /\ IsChild(U[j])
      BY <1>2, <1>3, <2>4, <2>5, BelowBus
    <2> QED
      BY <2>4, <2>5, <2>6 DEF TableOK, Apart
  <1>4. \A j \in 1 .. Len(T) : /\ U[j].mount = T[j].mount /\ U[j].sub = T[j].sub
                               /\ U[j].dev = T[j].dev
    BY DEF Widened
  <1> QED
    BY <1>1, <1>2, <1>3, <1>4, FoundKept

\* What the events will make of the entries is kept when the table is
\* widened.
LEMMA WidenedKeeps ==
    ASSUME NEW B, NEW T \in Seq(Entries), TableOK(T, B), NEW U \in Seq(Entries), TableOK(U, B),
           Widened(T, U), NEW E, NEW G, NEW b, NEW N, NEW M, NEW s
    PROVE  /\ AllGone(T, E, G) => AllGone(U, E, G)
           /\ AllTold(T, E, G) => AllTold(U, E, G)
           /\ AllKnown(T, E, G) => AllKnown(U, E, G)
           /\ Childless(T, b) => Childless(U, b)
           /\ MountsListed(T, M, s) => MountsListed(U, M, s)
           /\ DisksFound(T, E, N, M, s) => DisksFound(U, E, N, M, s)
  <1>1. Len(T) \in Nat /\ Len(U) \in Nat /\ Len(T) <= Len(U)
    BY DEF Widened
  <1>2. \A j \in 1 .. Len(U) : U[j].sysfs # None =>
           /\ j \in 1 .. Len(T) /\ T[j].sysfs = U[j].sysfs /\ T[j].dev = U[j].dev
           /\ T[j].mount = U[j].mount
    <2>1. \A j \in 1 .. Len(U) : j \in 1 .. Len(T) \/ j \in Len(T) + 1 .. Len(U)
      BY <1>1
    <2> QED
      BY <2>1 DEF Widened
  <1>3. /\ AllGone(T, E, G) => AllGone(U, E, G)
        /\ AllTold(T, E, G) => AllTold(U, E, G)
        /\ AllKnown(T, E, G) => AllKnown(U, E, G)
    BY <1>2 DEF AllGone, AllTold, AllKnown
  <1>4. ASSUME Childless(T, b) PROVE Childless(U, b)
    <2>1. ASSUME NEW i \in 1 .. Len(U), U[i].sysfs # None, U[i].dev = None, U[i].sysfs # b,
                 NEW j \in 1 .. Len(U), U[j].sub = U[i].mount
          PROVE  FALSE
      <3>1. i \in 1 .. Len(T) /\ T[i].sysfs = U[i].sysfs /\ T[i].dev = None /\ T[i].mount = U[i].mount
        BY <1>2, <2>1
      <3>2. CASE j \in 1 .. Len(T)
        <4>1. T[j].sub = T[i].mount
          BY <2>1, <3>1, <3>2 DEF Widened
        <4> QED
          BY <1>4, <2>1, <3>1, <3>2, <4>1 DEF Childless
      <3>3. CASE j \in Len(T) + 1 .. Len(U)
        <4>1. PICK k \in 1 .. Len(T) : U[j].sub = T[k].mount /\ T[k].wild /\ T[k].dev \in Disk
          BY <3>3 DEF Widened
        <4>2. k = i
          BY <2>1, <3>1, <4>1, OwnMount
        <4> QED
          BY <3>1, <4>1, <4>2, DiskAssumption
      <3> QED
        BY <1>1, <3>2, <3>3
    <2> QED
      BY <2>1 DEF Childless
  <1>5. ASSUME MountsListed(T, M, s) PROVE MountsListed(U, M, s)
    <2>1. ASSUME NEW m \in DOMAIN M, NEW i \in 1 .. Len(U), U[i].sysfs # None, m.part # 0,
                 Numbered(m, 0) = U[i].mount, ~s
          PROVE  \E j \in 1 .. Len(U) : U[j].mount = m
      <3>1. i \in 1 .. Len(T) /\ T[i].sysfs # None /\ T[i].mount = U[i].mount
        BY <1>2, <2>1
      <3>2. PICK j \in 1 .. Len(T) : T[j].mount = m
        BY <1>5, <2>1, <3>1 DEF MountsListed
      <3>3. j \in 1 .. Len(U) /\ U[j].mount = m
        BY <1>1, <3>2 DEF Widened
      <3> QED
        BY <3>3
    <2> QED
      BY <2>1 DEF MountsListed
  <1>6. ASSUME DisksFound(T, E, N, M, s) PROVE DisksFound(U, E, N, M, s)
    <2>1. ASSUME NEW i \in 1 .. Len(U), U[i].sysfs # None, U[i].dev # None,
                 ~RemovesLeft(E, U[i].sysfs)
          PROVE  AllFound(U, i, N, M, s)
      <3>1. i \in 1 .. Len(T) /\ T[i].sysfs = U[i].sysfs /\ T[i].dev = U[i].dev
        BY <1>2, <2>1
      <3>2. AllFound(T, i, N, M, s)
        BY <1>6, <2>1, <3>1 DEF DisksFound
      <3> QED
        BY <2>1, <3>1, <3>2, WidenedFound
    <2> QED
      BY <2>1 DEF DisksFound
  <1> QED
    BY <1>3, <1>4, <1>5, <1>6

\* More nodes, fewer mounts, other events.
LEMMA FoundStill ==
    ASSUME NEW T, NEW E, NEW F, \A b : RemovesLeft(E, b) => RemovesLeft(F, b),
           NEW N, NEW O, N \subseteq O, NEW M, NEW L, DOMAIN L \subseteq DOMAIN M,
           \A m \in DOMAIN L : L[m] = M[m], NEW s, DisksFound(T, E, N, M, s)
    PROVE  DisksFound(T, F, O, L, s)
  <1>1. ASSUME NEW i \in 1 .. Len(T), T[i].sysfs # None, T[i].dev # None,
               ~RemovesLeft(F, T[i].sysfs)
        PROVE  AllFound(T, i, O, L, s)
    <2>1. AllFound(T, i, N, M, s)
      BY <1>1 DEF DisksFound
    <2> QED
      BY <2>1 DEF AllFound
  <1> QED
    BY <1>1 DEF DisksFound

\* The queue grows.
LEMMA RemovesStay ==
    ASSUME NEW E \in Queues, NEW F \in Queues, Len(E) <= Len(F), \A k \in 1 .. Len(E) : F[k] = E[k]
    PROVE  \A b : RemovesLeft(E, b) => RemovesLeft(F, b)
  <1>1. Len(E) \in Nat /\ Len(F) \in Nat
    BY EventsAre
  <1>2. \A k \in 1 .. Len(E) : k \in 1 .. Len(F) /\ F[k] = E[k]
    BY <1>1
  <1> QED
    BY <1>2 DEF RemovesLeft, Rem

-----------------------------------------------------------------------------
(***************************************************************************)
(* The steps before the uevents are listened to, and the searches.         *)
(***************************************************************************)
LEMMA QueueIs ==
    ASSUME TableInv
    PROVE  /\ events \in Queues /\ Partitions \in Seq(Entries) /\ TableOK(Partitions, Buses)
           /\ plugged \in SUBSET Disk
           /\ {stuck, shared, late} \subseteq BOOLEAN
           /\ \A i \in 1 .. Len(Partitions) : Partitions[i].sysfs # None =>
                 \/ Partitions[i].dev = None
                 \/ Partitions[i].dev \in Disk /\ BusOf[Partitions[i].dev] = Partitions[i].sysfs
  <1>1. /\ events \in Queues /\ Partitions \in Seq(Entries) /\ TableOK(Partitions, Buses)
        /\ plugged \in SUBSET Disk /\ {stuck, shared, late} \subseteq BOOLEAN
    BY DEF TableInv, TableTypeOK, Queues
  <1>2. ASSUME NEW i \in 1 .. Len(Partitions), Partitions[i].sysfs # None
        PROVE  \/ Partitions[i].dev = None
               \/ Partitions[i].dev \in Disk /\ BusOf[Partitions[i].dev] = Partitions[i].sysfs
    BY <1>1, <1>2 DEF TableOK, EntryOK, ChildOK, FileOK
  <1> QED
    BY <1>1, <1>2

\* With no event in the queue nothing is left to be told.
LEMMA NoEvents ==
    ASSUME NEW G, NEW b
    PROVE  Gone(<<>>, G, b, None) /\ Told(<<>>, G, b, None)
  <1>1. Len(<<>>) = 0 /\ \A k \in 1 .. 0 : FALSE
    OBVIOUS
  <1>2. \A k \in 1 .. Len(<<>>) : FALSE
    BY <1>1
  <1>3. NoEvent(<<>>, b)
    BY <1>2 DEF NoEvent
  <1> QED
    BY <1>2, <1>3 DEF Gone, Told, Agrees, Repeats, Handled, Announced

\* Nothing is heard of, and no bus has a disk.
LEMMA QuietInv ==
    ASSUME Single', Empty', events' = <<>>, DOMAIN mounts' = {},
           \A i \in 1 .. Len(Partitions') : Partitions'[i].sysfs # None => Partitions'[i].dev = None,
           ~Listening' \/ phase' = "coldboot"
    PROVE  PlugInv'
  <1>1. \A i \in 1 .. Len(Partitions') : Partitions'[i].sysfs # None =>
           /\ Gone(events', plugged', Partitions'[i].sysfs, Partitions'[i].dev)
           /\ Told(events', plugged', Partitions'[i].sysfs, Partitions'[i].dev)
    BY NoEvents
  <1>2. AllGone(Partitions', events', plugged') /\ AllTold(Partitions', events', plugged')
    BY <1>1 DEF AllGone, AllTold
  <1>3. Events'
    BY <1>2 DEF Events
  <1>4. Mounted'
    BY DEF Mounted, MountsListed
  <1>5. Found'
    BY DEF Found, DisksFound
  <1> QED
    BY <1>3, <1>4, <1>5 DEF PlugInv

\* The invariant of the hot-plug holds at the start.
LEMMA PlugStarts == TableInit => PlugInv
  <1> SUFFICES ASSUME TableInit PROVE PlugInv
    OBVIOUS
  <1>1. /\ Partitions = <<>> /\ Len(Partitions) = 0 /\ events = <<>> /\ DOMAIN mounts = {}
        /\ shared = \E d, e \in plugged : d # e /\ BusOf[d] = BusOf[e]
    BY DEF TableInit
  <1>2. \A i \in 1 .. Len(Partitions) : FALSE
    BY <1>1
  <1>3. Single
    BY <1>1 DEF Single, OneEach
  <1>4. Events
    BY <1>2 DEF Events, AllGone, AllTold, AllKnown
  <1>5. Empty /\ Mounted /\ Found
    BY <1>1, <1>2 DEF Empty, Childless, Mounted, MountsListed, Found, DisksFound
  <1> QED
    BY <1>3, <1>4, <1>5 DEF PlugInv

\* The steps that only widen the table.
LEMMA TableWidens ==
    ASSUME TableInv, \/ SetupOne \/ Setup_Fstab_Partitions \/ UpdateOne \/ Update_System_Details
                     \/ \E i \in DOMAIN Partitions : Mount(i)
    PROVE  /\ Partitions' \in Seq(Entries) /\ TableOK(Partitions', Buses)
           /\ Widened(Partitions, Partitions')
  <1>1. Partitions \in Seq(Entries) /\ TableOK(Partitions, Buses) /\ TableTypeOK
    BY DEF TableInv, TableTypeOK
  <1>2. ASSUME NEW i \in DOMAIN Partitions, Update_Size(i)
        PROVE  /\ Partitions' \in Seq(Entries) /\ TableOK(Partitions', Buses)
               /\ Widened(Partitions, Partitions')
    <2>1. i \in 1 .. Len(Partitions)
      BY <1>1
    <2> QED
      BY <1>1, <1>2, <2>1, SizeUpdated, WidenedIs
  <1>3. CASE SetupOne \/ Setup_Fstab_Partitions
    <2>1. phase = "setup"
      BY <1>3 DEF SetupOne, Setup_Fstab_Partitions
    <2>2. /\ pos \in Nat /\ storageid \in Nat /\ settings \in Paths
          /\ Chosen(Partitions, pos, settings, storageid)
      BY <1>1, <2>1 DEF TableInv, TableTypeOK, Setting
    <2>3. /\ Partitions' \in Seq(Entries) /\ TableOK(Partitions', Buses)
          /\ Steady(Partitions, Partitions')
      <3>1. CASE SetupOne
        BY <1>1, <2>2, <3>1, SetupOneOK
      <3>2. CASE Setup_Fstab_Partitions
        <4>1. pos = Len(Partitions)
          BY <3>2 DEF Setup_Fstab_Partitions
        <4> QED
          BY <1>1, <2>2, <3>2, <4>1, SetupAllOK
      <3> QED
        BY <1>3, <3>1, <3>2
    <2> QED
      BY <1>1, <2>3, WidenedIs
  <1>4. CASE UpdateOne
    <2>1. pos + 1 \in DOMAIN Partitions /\ Update_Size(pos + 1)
      BY <1>1, <1>4 DEF UpdateOne, TableTypeOK
    <2> QED
      BY <1>2, <2>1
  <1>5. CASE Update_System_Details
    <2>1. Partitions' = Write_Fstab(Partitions)
      BY <1>5 DEF Update_System_Details
    <2> QED
      BY <1>1, <2>1, WriteOK, WidenedIs
  <1>6. CASE \E i \in DOMAIN Partitions : Mount(i)
    BY <1>2, <1>6 DEF Mount
  <1> QED
    BY <1>3, <1>4, <1>5, <1>6

\* Until the socket is bound.
LEMMA EarlyStep ==
    ASSUME TableInv, TableInv', PlugInv,
           \/ ReadFstab \/ ReadFlags \/ ReadVendor \/ EndOfFile
           \/ SetupOne \/ Setup_Fstab_Partitions \/ setup_uevent
           \/ (UpdateOne \/ Update_System_Details) /\ phase = "update"
    PROVE  PlugInv'
  <1>1. /\ UNCHANGED world /\ UNCHANGED seen /\ ~Listening /\ phase # "remove"
        /\ phase' # "remove"
        /\ \/ ~Listening'
           \/ phase' = "coldboot" /\ Partitions' = Partitions
    <2>1. CASE ReadFstab \/ ReadFlags \/ ReadVendor
      BY <2>1 DEF ReadFstab, ReadFlags, ReadVendor, Reading, Listening
    <2>2. CASE EndOfFile
      BY <2>2 DEF EndOfFile, Listening
    <2>3. CASE SetupOne \/ Setup_Fstab_Partitions \/ setup_uevent
      BY <2>3 DEF SetupOne, Setup_Fstab_Partitions, setup_uevent, Listening
    <2>4. CASE (UpdateOne \/ Update_System_Details) /\ phase = "update"
      BY <2>4 DEF UpdateOne, Update_System_Details, Listening
    <2> QED
      BY <2>1, <2>2, <2>3, <2>4
  <1>2. /\ events' = events /\ plugged' = plugged /\ mounts' = mounts /\ shared' = shared
    BY <1>1 DEF world, seen
  <1>3. events = <<>> /\ DOMAIN mounts = {}
    BY <1>1 DEF TableInv, Queue
  <1>4. \A i \in 1 .. Len(Partitions') : Partitions'[i].sysfs # None => Partitions'[i].dev = None
    <2>1. CASE ~Listening'
      BY <2>1 DEF TableInv, Queue
    <2>2. CASE Partitions' = Partitions
      BY <1>1, <2>2 DEF TableInv, Queue
    <2> QED
      BY <1>1, <2>1, <2>2
  <1>5. Single'
    BY <1>2 DEF PlugInv, Single
  <1>6. Childless(Partitions, None)
    BY <1>1 DEF PlugInv, Empty
  <1>7. Childless(Partitions', None)
    <2>1. CASE ReadFstab \/ ReadFlags \/ ReadVendor
      <3>1. phase' \in Reads
        BY <2>1 DEF ReadFstab, ReadFlags, ReadVendor, Reading, Reads
      <3>2. NoDisk(Partitions')
        BY <3>1 DEF TableInv, Parsing, Read
      <3> QED
        BY <3>2 DEF NoDisk, Childless
    <2>2. CASE EndOfFile \/ setup_uevent
      <3>1. Partitions' = Partitions
        BY <2>2 DEF EndOfFile, setup_uevent
      <3> QED
        BY <1>6, <3>1
    <2>3. CASE \/ SetupOne \/ Setup_Fstab_Partitions
               \/ (UpdateOne \/ Update_System_Details) /\ phase = "update"
      <3>1. /\ Partitions' \in Seq(Entries) /\ TableOK(Partitions', Buses)
            /\ Widened(Partitions, Partitions')
        BY <2>3, TableWidens
      <3> QED
        BY <1>6, <3>1, QueueIs, WidenedKeeps
    <2> QED
      BY <2>1, <2>2, <2>3
  <1>8. Empty'
    BY <1>1, <1>7 DEF Empty
  <1> QED
    BY <1>1, <1>2, <1>3, <1>4, <1>5, <1>8, QuietInv

\* What a mount adds to what is mounted.
LEMMA MountedAs ==
    ASSUME NEW B, NEW U \in Seq(Entries), TableOK(U, B), NEW E, NEW N, NEW M, NEW s,
           NEW i \in 1 .. Len(U),
           NEW L, DOMAIN L = DOMAIN M \cup {U[i].mount}, L[U[i].mount] = U[i].actual,
           \A m \in DOMAIN M : m # U[i].mount => L[m] = M[m]
    PROVE  /\ MountsListed(U, M, s) => MountsListed(U, L, s)
           /\ DisksFound(U, E, N, M, s) => DisksFound(U, E, N, L, s)
  <1>1. MountsListed(U, M, s) => MountsListed(U, L, s)
    BY DEF MountsListed
  <1>2. ASSUME NEW k \in 1 .. Len(U), U[k].sysfs # None, AllFound(U, k, N, M, s)
        PROVE  AllFound(U, k, N, L, s)
    <2>1. ASSUME NEW j \in 1 .. Len(U), U[j].sub = U[k].mount, ~s, U[j].mount \in DOMAIN L
          PROVE  L[U[j].mount] = U[j].dev
      <3>1. CASE U[j].mount # U[i].mount
        BY <1>2, <2>1, <3>1 DEF AllFound
      <3>2. CASE U[j].mount = U[i].mount
        <4>1. IsChild(U[j]) /\ ChildOK(U[j])
          BY <1>2, <2>1, BelowBus
        <4>2. IsChild(U[i]) /\ EntryOK(U[i], B)
          BY <3>2, <4>1 DEF IsChild, TableOK
        <4>3. ChildOK(U[i])
          BY <4>2 DEF EntryOK
        <4>4. U[i].sub = U[k].mount
          BY <2>1, <3>2, <4>1, <4>3 DEF ChildOK
        <4>5. i = j
          BY <1>2, <2>1, <3>2, <4>4 DEF AllFound
        <4> QED
          BY <4>3, <4>5 DEF ChildOK
      <3> QED
        BY <3>1, <3>2
    <2> QED
      BY <1>2, <2>1 DEF AllFound
  <1>3. ASSUME DisksFound(U, E, N, M, s) PROVE DisksFound(U, E, N, L, s)
    BY <1>2, <1>3 DEF DisksFound
  <1> QED
    BY <1>1, <1>3

\* A search, once the uevents are listened to, and a mount.
LEMMA WidenStep ==
    ASSUME TableInv, PlugInv,
           \/ (UpdateOne \/ Update_System_Details) /\ phase # "update"
           \/ \E i \in DOMAIN Partitions : Mount(i)
    PROVE  PlugInv'
  <1> DEFINE T == Partitions
             U == Partitions'
  <1>1. /\ UNCHANGED world /\ stuck' = stuck /\ shared' = shared /\ late' = late
        /\ phase \in {"ready", "refresh"} /\ phase' \in {"ready", "refresh"}
    <2>1. CASE UpdateOne /\ phase # "update"
      BY <2>1 DEF UpdateOne, seen
    <2>2. CASE Update_System_Details /\ phase # "update"
      BY <2>2 DEF Update_System_Details, seen
    <2>3. CASE \E i \in DOMAIN T : Mount(i)
      BY <2>3 DEF Mount
    <2> QED
      BY <2>1, <2>2, <2>3
  <1>2. /\ events' = events /\ plugged' = plugged /\ nodes' = nodes
    BY <1>1 DEF world
  <1>3. /\ phase # "remove" /\ phase' # "remove" /\ phase # "coldboot" /\ phase' # "coldboot"
        /\ Listening /\ Listening'
    BY <1>1 DEF Listening
  <1>4. T \in Seq(Entries) /\ TableOK(T, Buses)
    BY QueueIs
  <1>5. U \in Seq(Entries) /\ TableOK(U, Buses) /\ Widened(T, U)
    BY TableWidens
  <1>6. Single'
    BY <1>1, <1>2 DEF PlugInv, Single
  <1>7. Events'
    <2>1. /\ AllGone(T, events, plugged) => AllGone(U, events, plugged)
          /\ AllTold(T, events, plugged) => AllTold(U, events, plugged)
          /\ AllKnown(T, events, plugged) => AllKnown(U, events, plugged)
      BY <1>4, <1>5, WidenedKeeps
    <2> QED
      BY <1>1, <1>2, <1>3, <2>1 DEF PlugInv, Events
  <1>8. Empty'
    <2>1. Childless(T, None)
      BY <1>3 DEF PlugInv, Empty
    <2>2. Childless(U, None)
      BY <1>4, <1>5, <2>1, WidenedKeeps
    <2> QED
      BY <1>3, <2>2 DEF Empty
  <1>9. /\ MountsListed(U, mounts, stuck)
        /\ ~shared /\ ~late => DisksFound(U, events, nodes, mounts, stuck)
    BY <1>4, <1>5, WidenedKeeps DEF PlugInv, Mounted, Found
  <1>10. /\ MountsListed(U, mounts', stuck)
         /\ ~shared /\ ~late => DisksFound(U, events, nodes, mounts', stuck)
    <2>1. CASE mounts' = mounts
      BY <1>9, <2>1
    <2>2. CASE mounts' # mounts
      <3>1. PICK i \in DOMAIN T : Mount(i)
        BY <2>2 DEF UpdateOne, Update_System_Details, seen
      <3>2. mounts' = [m \in DOMAIN mounts \cup {U[i].mount} |->
                          IF m = U[i].mount THEN U[i].actual ELSE mounts[m]]
        BY <2>2, <3>1 DEF Mount
      <3>3. i \in 1 .. Len(U)
        BY <1>4, <1>5 DEF Widened
      <3>4. /\ DOMAIN mounts' = DOMAIN mounts \cup {U[i].mount}
            /\ mounts'[U[i].mount] = U[i].actual
            /\ \A m \in DOMAIN mounts : m # U[i].mount => mounts'[m] = mounts[m]
        BY <3>2
      <3> QED
        BY <1>5, <1>9, <3>3, <3>4, MountedAs
    <2> QED
      BY <2>1, <2>2
  <1>11. Mounted' /\ Found'
    BY <1>1, <1>2, <1>10 DEF Mounted, Found
  <1> QED
    BY <1>6, <1>7, <1>8, <1>11 DEF PlugInv

-----------------------------------------------------------------------------
(***************************************************************************)
(* The steps that leave the table.                                         *)
(***************************************************************************)
LEMMA StillStep ==
    ASSUME TableInv, PlugInv,
           \/ Refresh \/ UNCHANGED tableVars
           \/ \E m \in DOMAIN mounts : UnMount(m)
           \/ \E d \in Disk : MakeNode(d)
    PROVE  PlugInv'
  <1>1. /\ Partitions' = Partitions /\ events' = events /\ plugged' = plugged
        /\ stuck' = stuck /\ shared' = shared /\ late' = late /\ nodes \subseteq nodes'
        /\ DOMAIN mounts' \subseteq DOMAIN mounts /\ \A m \in DOMAIN mounts' : mounts'[m] = mounts[m]
        /\ \/ phase' = phase
           \/ phase = "ready" /\ phase' = "refresh"
    <2>1. CASE Refresh
      BY <2>1 DEF Refresh, world, seen
    <2>2. CASE UNCHANGED tableVars
      BY <2>2 DEF tableVars, world, seen
    <2>3. CASE \E m \in DOMAIN mounts : UnMount(m)
      BY <2>3 DEF UnMount, Without, world
    <2>4. CASE \E d \in Disk : MakeNode(d)
      <3>1. PICK d \in Disk : MakeNode(d)
        BY <2>4
      <3>2. nodes \subseteq nodes'
        BY <3>1 DEF MakeNode
      <3> QED
        BY <3>1, <3>2 DEF MakeNode, seen
    <2> QED
      BY <2>1, <2>2, <2>3, <2>4
  <1>2. /\ Listening' <=> Listening
        /\ phase' = "coldboot" <=> phase = "coldboot"
        /\ phase' = "remove" <=> phase = "remove"
    BY <1>1 DEF Listening
  <1>3. Single' /\ Events'
    BY <1>1, <1>2 DEF PlugInv, Single, Events
  <1>4. Empty'
    BY <1>1, <1>2 DEF PlugInv, Empty
  <1>5. Mounted'
    BY <1>1 DEF PlugInv, Mounted, MountsListed
  <1>6. Found'
    <2>1. SUFFICES ASSUME ~shared, ~late
                   PROVE  DisksFound(Partitions, events, nodes', mounts', stuck)
      BY <1>1 DEF Found
    <2>2. DisksFound(Partitions, events, nodes, mounts, stuck)
      BY <2>1 DEF PlugInv, Found
    <2> QED
      BY <1>1, <2>2, FoundStill
  <1> QED
    BY <1>3, <1>4, <1>5, <1>6 DEF PlugInv

\* An event the program hears is the last of the queue, if the program
\* watches the disk at all.
LEMMA Appended ==
    ASSUME NEW E \in Queues, NEW action \in {"add", "remove"}, NEW d \in Disk,
           NEW F, Heard(E, F, action, d)
    PROVE  /\ F \in Queues /\ Len(E) <= Len(F) /\ \A k \in 1 .. Len(E) : F[k] = E[k]
           /\ \A k \in Len(E) + 1 .. Len(F) : F[k].disk = d
  <1> DEFINE S == [action : {"add", "remove"}, disk : Disk]
  <1>1. E \in Seq(S) /\ Uevent(action, d) \in S /\ Uevent(action, d).disk = d
    BY DEF Queues, Uevent
  <1> HIDE DEF S
  <1>2. /\ F \in Seq(S) /\ Len(F) = Len(E) + 1 /\ Len(E) \in Nat
        /\ \A k \in 1 .. Len(E) : F[k] = E[k]
        /\ F[Len(E) + 1] = Uevent(action, d)
    BY <1>1 DEF Heard
  <1>3. \A k \in Len(E) + 1 .. Len(F) : k = Len(E) + 1
    BY <1>2
  <1> QED
    BY <1>1, <1>2, <1>3 DEF Queues, S

\* A disk is plugged in.
LEMMA PlugStep ==
    ASSUME TableInv, PlugInv, NEW d \in Disk, Plug(d)
    PROVE  PlugInv'
  <1> DEFINE E == events
             G == plugged
             F == Append(events, Uevent("add", d))
             H == plugged \cup {d}
  <1>1. /\ Listening /\ d \notin plugged /\ plugged' = H /\ events' = F
        /\ shared' = (shared \/ \E e \in plugged : BusOf[d] = BusOf[e])
        /\ phase' = phase /\ Partitions' = Partitions /\ nodes' = nodes /\ mounts' = mounts
        /\ stuck' = stuck /\ late' = late
    BY DEF Plug
  <1>2. Listening'
    BY <1>1 DEF Listening
  <1>3. /\ E \in Queues /\ G \in SUBSET Disk
        /\ \A i \in 1 .. Len(Partitions) : Partitions[i].sysfs # None =>
                 \/ Partitions[i].dev = None
                 \/ Partitions[i].dev \in Disk /\ BusOf[Partitions[i].dev] = Partitions[i].sysfs
    BY QueueIs
  <1>4. /\ F \in Queues /\ Len(E) <= Len(F) /\ \A k \in 1 .. Len(E) : F[k] = E[k]
        /\ \A k \in Len(E) + 1 .. Len(F) : F[k].disk = d
    <2>1. "add" \in {"add", "remove"} /\ Heard(E, F, "add", d)
      BY DEF Heard
    <2> HIDE DEF F
    <2> QED
      BY <1>3, <2>1, Appended
  <1>5. AllGone(Partitions, E, G) /\ (~shared => AllTold(Partitions, E, G))
        /\ (~shared /\ phase # "coldboot" => AllKnown(Partitions, E, G))
    BY <1>1 DEF PlugInv, Events
  <1>6. ~shared' => ~shared /\ \A e \in G : BusOf[e] # BusOf[d]
    BY <1>1, <1>3
  <1> HIDE DEF F, H
  <1>7. ASSUME NEW i \in 1 .. Len(Partitions), Partitions[i].sysfs # None
        PROVE  LET b == Partitions[i].sysfs
                   dev == Partitions[i].dev IN
               /\ Gone(F, H, b, dev)
               /\ ~shared' => Told(F, H, b, dev)
               /\ ~shared' /\ phase # "coldboot" => Known(F, H, b, dev)
    <2> DEFINE b == Partitions[i].sysfs
               dev == Partitions[i].dev
    <2>1. Gone(E, G, b, dev)
      BY <1>5, <1>7 DEF AllGone
    <2>2. ~shared => Told(E, G, b, dev)
      BY <1>5, <1>7 DEF AllTold
    <2>3. ~shared /\ phase # "coldboot" => Known(E, G, b, dev)
      BY <1>5, <1>7 DEF AllKnown
    <2>4. dev = None \/ (dev \in Disk /\ BusOf[dev] = b)
      BY <1>3, <1>7
    <2>5. CASE b # BusOf[d]
      <3>1. \A k \in Len(E) + 1 .. Len(F) : BusOf[F[k].disk] # b
        BY <1>4, <2>5
      <3>2. \A e \in Disk : BusOf[e] = b => (e \in G <=> e \in H)
        BY <2>5 DEF H
      <3>3. H \subseteq Disk /\ G \subseteq Disk
        BY <1>3 DEF H
      <3> HIDE DEF b, dev, E, G
      <3>4. /\ Gone(E, G, b, dev) => Gone(F, H, b, dev)
            /\ Told(E, G, b, dev) => Told(F, H, b, dev)
            /\ Known(E, G, b, dev) => Known(F, H, b, dev)
        BY <1>3, <1>4, <2>4, <3>1, <3>2, <3>3, OtherEvents DEF E, G
      <3> QED
        BY <1>6, <2>1, <2>2, <2>3, <3>4 DEF E, G, b, dev
    <2>6. CASE b = BusOf[d] /\ \A e \in G : BusOf[e] # BusOf[d]
      <3>1. /\ Gone(F, H, b, dev)
            /\ Told(E, G, b, dev) => Told(F, H, b, dev) /\ Known(F, H, b, dev)
        <4>1. Heard(E, F, "add", d) /\ H = G \cup {d}
          BY DEF F, H, Heard
        <4>2. b = BusOf[d] /\ \A e \in G : BusOf[e] # b
          BY <2>6
        <4> HIDE DEF b, dev
        <4> QED
          BY <1>3, <2>1, <4>1, <4>2, PlugEvent
      <3> QED
        BY <1>6, <2>2, <3>1
    <2>7. CASE b = BusOf[d] /\ \E e \in G : BusOf[e] = BusOf[d]
      <3>1. shared'
        BY <1>6, <2>7
      <3>2. Gone(F, H, b, dev)
        BY <2>7 DEF Gone, H
      <3> QED
        BY <3>1, <3>2
    <2> QED
      BY <2>5, <2>6, <2>7
  <1>8. /\ AllGone(Partitions, F, H) /\ (~shared' => AllTold(Partitions, F, H))
        /\ (~shared' /\ phase # "coldboot" => AllKnown(Partitions, F, H))
    BY <1>7 DEF AllGone, AllTold, AllKnown
  <1>9. Events'
    BY <1>1, <1>2, <1>8 DEF Events
  <1>10. Single'
    <2>1. SUFFICES ASSUME ~shared' PROVE OneEach(H)
      BY <1>1 DEF Single
    <2>2. OneEach(G)
      BY <1>6, <2>1 DEF PlugInv, Single
    <2> QED
      BY <1>6, <2>1, <2>2 DEF OneEach, H
  <1>11. Empty'
    <2>1. phase = "remove" => F[1] = E[1]
      <3>1. phase = "remove" => 1 \in 1 .. Len(E)
        BY HeadIs
      <3> QED
        BY <1>4, <3>1
    <2> QED
      BY <1>1, <2>1 DEF PlugInv, Empty
  <1>12. Mounted'
    BY <1>1 DEF PlugInv, Mounted
  <1>13. Found'
    <2>1. SUFFICES ASSUME ~shared', ~late
                   PROVE  DisksFound(Partitions, F, nodes, mounts, stuck)
      BY <1>1 DEF Found
    <2>2. DisksFound(Partitions, E, nodes, mounts, stuck)
      BY <1>6, <2>1 DEF PlugInv, Found
    <2>3. \A b : RemovesLeft(E, b) => RemovesLeft(F, b)
      BY <1>3, <1>4, RemovesStay
    <2> QED
      BY <2>2, <2>3, FoundStill
  <1> QED
    BY <1>9, <1>10, <1>11, <1>12, <1>13 DEF PlugInv

\* A disk is pulled out.
LEMMA UnplugStep ==
    ASSUME TableInv, PlugInv, NEW d \in Disk, Unplug(d)
    PROVE  PlugInv'
  <1> DEFINE E == events
             G == plugged
             F == Append(events, Uevent("remove", d))
             H == plugged \ {d}
  <1>1. /\ Listening /\ d \in plugged /\ plugged' = H /\ events' = F
        /\ nodes' = nodes \ Nodes(d)
        /\ shared' = shared
        /\ phase' = phase /\ Partitions' = Partitions /\ mounts' = mounts
        /\ stuck' = stuck /\ late' = late
    BY DEF Unplug, seen
  <1>2. Listening'
    BY <1>1 DEF Listening
  <1>3. /\ E \in Queues /\ G \in SUBSET Disk
        /\ \A i \in 1 .. Len(Partitions) : Partitions[i].sysfs # None =>
                 \/ Partitions[i].dev = None
                 \/ Partitions[i].dev \in Disk /\ BusOf[Partitions[i].dev] = Partitions[i].sysfs
    BY QueueIs
  <1>4. /\ F \in Queues /\ Len(E) <= Len(F) /\ \A k \in 1 .. Len(E) : F[k] = E[k]
        /\ \A k \in Len(E) + 1 .. Len(F) : F[k].disk = d
    <2>1. "remove" \in {"add", "remove"} /\ Heard(E, F, "remove", d)
      BY DEF Heard
    <2> HIDE DEF F
    <2> QED
      BY <1>3, <2>1, Appended
  <1>5. AllGone(Partitions, E, G) /\ (~shared => AllTold(Partitions, E, G))
        /\ (~shared /\ phase # "coldboot" => AllKnown(Partitions, E, G))
    BY <1>1 DEF PlugInv, Events
  <1>6. ~shared => OneEach(G)
    BY DEF PlugInv, Single
  <1>a. RemovesLeft(F, BusOf[d])
    BY <1>1, <1>3, UnplugEvent DEF F, Heard, Left
  <1> HIDE DEF F, H
  <1>7. ASSUME NEW i \in 1 .. Len(Partitions), Partitions[i].sysfs # None
        PROVE  LET b == Partitions[i].sysfs
                   dev == Partitions[i].dev IN
               /\ Gone(F, H, b, dev)
               /\ ~shared => Told(F, H, b, dev)
               /\ ~shared /\ phase # "coldboot" => Known(F, H, b, dev)
    <2> DEFINE b == Partitions[i].sysfs
               dev == Partitions[i].dev
    <2>1. Gone(E, G, b, dev)
      BY <1>5, <1>7 DEF AllGone
    <2>2. ~shared => Told(E, G, b, dev)
      BY <1>5, <1>7 DEF AllTold
    <2>3. ~shared /\ phase # "coldboot" => Known(E, G, b, dev)
      BY <1>5, <1>7 DEF AllKnown
    <2>4. dev = None \/ (dev \in Disk /\ BusOf[dev] = b)
      BY <1>3, <1>7
    <2>5. CASE b # BusOf[d]
      <3>1. \A k \in Len(E) + 1 .. Len(F) : BusOf[F[k].disk] # b
        BY <1>4, <2>5
      <3>2. \A e \in Disk : BusOf[e] = b => (e \in G <=> e \in H)
        BY <2>5 DEF H
      <3>3. H \subseteq Disk /\ G \subseteq Disk
        BY <1>3 DEF H
      <3> HIDE DEF b, dev, E, G
      <3>4. /\ Gone(E, G, b, dev) => Gone(F, H, b, dev)
            /\ Told(E, G, b, dev) => Told(F, H, b, dev)
            /\ Known(E, G, b, dev) => Known(F, H, b, dev)
        BY <1>3, <1>4, <2>4, <3>1, <3>2, <3>3, OtherEvents DEF E, G
      <3> QED
        BY <2>1, <2>2, <2>3, <3>4 DEF E, G, b, dev
    <2>6. CASE b = BusOf[d]
      <3>1. /\ Gone(F, H, b, dev)
            /\ Told(E, G, b, dev) => Told(F, H, b, dev)
            /\ (\A e \in G : BusOf[e] = b => e = d) => Known(F, H, b, dev)
        <4>1. Heard(E, F, "remove", d) /\ H = Left(G, d) /\ d \in G
          BY <1>1 DEF F, H, Heard, Left
        <4> HIDE DEF b, dev
        <4> QED
          BY <1>3, <2>6, <4>1, UnplugEvent
      <3>2. ~shared => \A e \in G : BusOf[e] = b => e = d
        BY <1>1, <1>6, <2>6 DEF OneEach
      <3> QED
        BY <2>2, <3>1, <3>2
    <2> QED
      BY <2>5, <2>6
  <1>8. /\ AllGone(Partitions, F, H) /\ (~shared => AllTold(Partitions, F, H))
        /\ (~shared /\ phase # "coldboot" => AllKnown(Partitions, F, H))
    BY <1>7 DEF AllGone, AllTold, AllKnown
  <1>9. Events'
    BY <1>1, <1>2, <1>8 DEF Events
  <1>10. Single'
    BY <1>1, <1>6 DEF Single, OneEach, H
  <1>11. Empty'
    <2>1. phase = "remove" => F[1] = E[1]
      <3>1. phase = "remove" => 1 \in 1 .. Len(E)
        BY HeadIs
      <3> QED
        BY <1>4, <3>1
    <2> QED
      BY <1>1, <2>1 DEF PlugInv, Empty
  <1>12. Mounted'
    BY <1>1 DEF PlugInv, Mounted
  <1>13. Found'
    <2>1. SUFFICES ASSUME ~shared, ~late
                   PROVE  DisksFound(Partitions, F, nodes', mounts, stuck)
      BY <1>1 DEF Found
    <2>2. DisksFound(Partitions, E, nodes, mounts, stuck)
      BY <2>1 DEF PlugInv, Found
    <2>3. \A b : RemovesLeft(E, b) => RemovesLeft(F, b)
      BY <1>3, <1>4, RemovesStay
    <2>4. ASSUME NEW i \in 1 .. Len(Partitions), Partitions[i].sysfs # None,
                 Partitions[i].dev # None, ~RemovesLeft(F, Partitions[i].sysfs)
          PROVE  AllFound(Partitions, i, nodes', mounts, stuck)
      <3>1. AllFound(Partitions, i, nodes, mounts, stuck)
        BY <2>2, <2>3, <2>4 DEF DisksFound
      <3>2. Partitions[i].dev \in Disk /\ Partitions[i].dev # d
        BY <1>3, <1>a, <2>4
      <3>3. Nodes(Partitions[i].dev) \cap Nodes(d) = {}
        <4>1. PartsOf[Partitions[i].dev] \subseteq Parts /\ PartsOf[d] \subseteq Parts
          BY <3>2 DEF Parts
        <4>2. Disk \cap Parts = {} /\ PartsOf[Partitions[i].dev] \cap PartsOf[d] = {}
          BY <3>2, DiskAssumption
        <4> QED
          BY <3>2, <4>1, <4>2 DEF Nodes
      <3>4. Nodes(Partitions[i].dev) \subseteq nodes'
        BY <1>1, <3>1, <3>3 DEF AllFound
      <3> QED
        BY <3>1, <3>4 DEF AllFound
    <2> QED
      BY <2>4 DEF DisksFound
  <1> QED
    BY <1>9, <1>10, <1>11, <1>12, <1>13 DEF PlugInv

-----------------------------------------------------------------------------
(***************************************************************************)
(* The steps of the queue.                                                 *)
(***************************************************************************)
\* Coldboot puts an addition of every disk behind an entry into the queue.
LEMMA ColdbootIs ==
    ASSUME TableInv, Coldboot
    PROVE  /\ events' \in Queues /\ Len(events) <= Len(events')
           /\ \A k \in 1 .. Len(events) : events'[k] = events[k]
           /\ \A k \in Len(events) + 1 .. Len(events') :
                 events'[k].action = "add" /\ events'[k].disk \in plugged
           /\ \A d \in plugged : Watched(d) =>
                 \E k \in Len(events) + 1 .. Len(events') : events'[k].disk = d
  <1> DEFINE W == {d \in plugged : Watched(d)}
             S == [action : {"add", "remove"}, disk : Disk]
  <1>1. PICK disks \in SetToSeqs(W) :
             events' = events \o [k \in DOMAIN disks |-> Uevent("add", disks[k])]
    BY DEF Coldboot
  <1>2. W \subseteq Disk /\ IsFiniteSet(W)
    <2>1. W \subseteq Disk
      BY QueueIs
    <2> QED
      BY <2>1, DiskAssumption, FS_Subset
  <1> DEFINE n == Cardinality(W)
  <1>3. n \in Nat
    BY <1>2, FS_CardinalityType
  <1>4. disks \in [1 .. n -> W] /\ \A i, j \in 1 .. n : i # j => disks[i] # disks[j]
    BY DEF SetToSeqs
  <1>5. \A d \in W : \E k \in 1 .. n : disks[k] = d
    BY <1>2, <1>4, Permutes
  <1> DEFINE new == [k \in 1 .. n |-> Uevent("add", disks[k])]
  <1>6. events' = events \o new
    BY <1>1, <1>4
  <1>7. events \in Seq(S)
    BY QueueIs DEF Queues
  <1>8. \A k \in 1 .. n : disks[k] \in plugged /\ disks[k] \in Disk
    BY <1>2, <1>4
  <1>9. \A d \in plugged : Watched(d) => \E k \in 1 .. n : disks[k] = d
    BY <1>5
  <1> HIDE DEF n, W
  <1>10. \A k \in 1 .. n : /\ Uevent("add", disks[k]) \in S
                           /\ Uevent("add", disks[k]).action = "add"
                           /\ Uevent("add", disks[k]).disk = disks[k]
    BY <1>8 DEF Uevent
  <1> HIDE DEF S
  <1>11. new \in Seq(S) /\ Len(new) = n /\ \A k \in 1 .. n : new[k] = Uevent("add", disks[k])
    BY <1>3, <1>10
  <1> HIDE DEF new
  <1>12. /\ events \o new \in Seq(S) /\ Len(events \o new) = Len(events) + n
         /\ Len(events) \in Nat
         /\ \A k \in 1 .. Len(events) : (events \o new)[k] = events[k]
         /\ \A k \in 1 .. n : (events \o new)[Len(events) + k] = new[k]
    BY <1>3, <1>7, <1>11
  <1>13. \A k \in Len(events) + 1 .. Len(events') :
            k - Len(events) \in 1 .. n /\ Len(events) + (k - Len(events)) = k
    BY <1>3, <1>6, <1>12
  <1>14. ASSUME NEW k \in Len(events) + 1 .. Len(events')
         PROVE  events'[k].action = "add" /\ events'[k].disk \in plugged
    <2>1. k - Len(events) \in 1 .. n /\ events'[k] = new[k - Len(events)]
      BY <1>6, <1>12, <1>13
    <2> QED
      BY <1>8, <1>10, <1>11, <2>1
  <1>15. ASSUME NEW d \in plugged, Watched(d)
         PROVE  \E k \in Len(events) + 1 .. Len(events') : events'[k].disk = d
    <2>1. PICK k \in 1 .. n : disks[k] = d
      BY <1>9, <1>15
    <2>2. Len(events) + k \in Len(events) + 1 .. Len(events')
      BY <1>3, <1>6, <1>12
    <2>3. events'[Len(events) + k].disk = d
      BY <1>6, <1>10, <1>11, <1>12, <2>1
    <2> QED
      BY <2>2, <2>3
  <1>16. events' \in Queues
    BY <1>6, <1>12 DEF Queues, S
  <1>17. Len(events) <= Len(events')
    BY <1>3, <1>6, <1>12
  <1>18. \A k \in 1 .. Len(events) : events'[k] = events[k]
    BY <1>6, <1>12
  <1> QED
    BY <1>14, <1>15, <1>16, <1>17, <1>18

\* Coldboot keeps the invariant of the hot-plug.
LEMMA ColdbootStep ==
    ASSUME TableInv, PlugInv, Coldboot
    PROVE  PlugInv'
  <1> DEFINE E == events
             F == events'
             G == plugged
  <1>1. /\ phase = "coldboot" /\ phase' = "ready" /\ Partitions' = Partitions
        /\ plugged' = plugged /\ nodes' = nodes /\ mounts' = mounts
        /\ stuck' = stuck /\ shared' = shared /\ late' = late
    BY DEF Coldboot, seen
  <1>2. Listening /\ Listening'
    BY <1>1 DEF Listening
  <1>3. /\ E \in Queues /\ G \in SUBSET Disk
        /\ \A i \in 1 .. Len(Partitions) : Partitions[i].sysfs # None =>
                 \/ Partitions[i].dev = None
                 \/ Partitions[i].dev \in Disk /\ BusOf[Partitions[i].dev] = Partitions[i].sysfs
    BY QueueIs
  <1>4. /\ F \in Queues /\ Len(E) <= Len(F) /\ \A k \in 1 .. Len(E) : F[k] = E[k]
        /\ \A k \in Len(E) + 1 .. Len(F) : F[k].action = "add" /\ F[k].disk \in G
        /\ \A d \in G : Watched(d) => \E k \in Len(E) + 1 .. Len(F) : F[k].disk = d
    BY ColdbootIs
  <1>5. AllGone(Partitions, E, G) /\ (~shared => AllTold(Partitions, E, G) /\ OneEach(G))
    BY <1>2 DEF PlugInv, Events, Single
  <1>6. ASSUME NEW i \in 1 .. Len(Partitions), Partitions[i].sysfs # None
        PROVE  LET b == Partitions[i].sysfs
                   dev == Partitions[i].dev IN
               /\ Gone(F, G, b, dev)
               /\ ~shared => Told(F, G, b, dev) /\ Known(F, G, b, dev)
    <2> DEFINE b == Partitions[i].sysfs
               dev == Partitions[i].dev
    <2>1. Gone(E, G, b, dev) /\ (~shared => Told(E, G, b, dev))
      BY <1>5, <1>6 DEF AllGone, AllTold
    <2>2. dev = None \/ (dev \in Disk /\ BusOf[dev] = b)
      BY <1>3, <1>6
    <2>3. ~shared => \A d, e \in G : BusOf[d] = BusOf[e] => d = e
      BY <1>5 DEF OneEach
    <2>4. ASSUME NEW d \in G, BusOf[d] = b PROVE \E k \in Len(E) + 1 .. Len(F) : F[k].disk = d
      <3>1. Watched(d)
        BY <2>4, QueueIs DEF Watched
      <3> QED
        BY <1>4, <3>1
    <2> HIDE DEF b, dev
    <2>5. /\ Gone(F, G, b, dev)
          /\ /\ \A d, e \in G : BusOf[d] = BusOf[e] => d = e
             /\ Told(E, G, b, dev)
             => Told(F, G, b, dev)
          /\ (\A d \in G : BusOf[d] = b => \E k \in Len(E) + 1 .. Len(F) : F[k].disk = d)
             => Known(F, G, b, dev)
      BY <1>3, <1>4, <2>1, <2>2, ColdEvents
    <2> QED
      BY <2>1, <2>3, <2>4, <2>5 DEF b, dev
  <1>7. Events'
    <2>1. AllGone(Partitions, F, G)
          /\ (~shared => AllTold(Partitions, F, G) /\ AllKnown(Partitions, F, G))
      BY <1>6 DEF AllGone, AllTold, AllKnown
    <2> QED
      BY <1>1, <1>2, <2>1 DEF Events
  <1>8. Single' /\ Mounted'
    BY <1>1 DEF PlugInv, Single, Mounted
  <1>9. Empty'
    BY <1>1 DEF PlugInv, Empty
  <1>10. Found'
    <2>1. \A b : RemovesLeft(E, b) => RemovesLeft(F, b)
      BY <1>3, <1>4, RemovesStay
    <2>2. ASSUME ~shared, ~late PROVE DisksFound(Partitions, F, nodes, mounts, stuck)
      BY <2>1, <2>2, FoundStill DEF PlugInv, Found
    <2> QED
      BY <1>1, <2>2 DEF Found
  <1> QED
    BY <1>7, <1>8, <1>9, <1>10 DEF PlugInv

\* The first event, for its bus and for the others.
LEMMA HeadEvents ==
    ASSUME TableInv, PlugInv, phase \in {"ready", "remove"}, NEW action,
           Event(action) \/ phase = "remove"
    PROVE  /\ events \in Queues /\ events # <<>> /\ plugged \in SUBSET Disk
           /\ Partitions \in Seq(Entries) /\ TableOK(Partitions, Buses)
           /\ Entry(Head(events)) \in 1 .. Len(Partitions)
           /\ Partitions[Entry(Head(events))].sysfs = BusOf[events[1].disk]
           /\ events[1].disk \in Disk /\ BusOf[events[1].disk] # None
           /\ events[1].action = IF phase = "remove" THEN "remove" ELSE action
           /\ \A i \in 1 .. Len(Partitions) : Partitions[i].sysfs = BusOf[events[1].disk] =>
                 i = Entry(Head(events))
           /\ AllGone(Partitions, events, plugged)
           /\ ~shared => /\ AllTold(Partitions, events, plugged)
                         /\ AllKnown(Partitions, events, plugged)
  <1>1. /\ events \in Queues /\ plugged \in SUBSET Disk
        /\ Partitions \in Seq(Entries) /\ TableOK(Partitions, Buses)
    BY QueueIs
  <1>2. /\ events # <<>> /\ Entry(Head(events)) \in 1 .. Len(Partitions)
        /\ Partitions[Entry(Head(events))].sysfs = BusOf[events[1].disk]
        /\ events[1].disk \in Disk /\ BusOf[events[1].disk] # None
        /\ events[1].action = IF phase = "remove" THEN "remove" ELSE action
    BY HeadIs
  <1>3. \A i \in 1 .. Len(Partitions) : Partitions[i].sysfs = BusOf[events[1].disk] =>
           i = Entry(Head(events))
    BY <1>1, <1>2 DEF TableOK, Apart
  <1>4. Listening /\ phase # "coldboot"
    BY DEF Listening
  <1>5. /\ AllGone(Partitions, events, plugged)
        /\ ~shared => /\ AllTold(Partitions, events, plugged)
                      /\ AllKnown(Partitions, events, plugged)
    BY <1>4 DEF PlugInv, Events
  <1> QED
    BY <1>1, <1>2, <1>3, <1>5

\* What a search or a removal leaves of the queue for the other buses.
LEMMA OthersTold ==
    ASSUME NEW E \in Queues, E # <<>>, NEW F, F = Tail(E), NEW G, NEW b, b # BusOf[E[1].disk]
    PROVE  /\ \A dev : /\ Gone(E, G, b, dev) => Gone(F, G, b, dev)
                       /\ Told(E, G, b, dev) => Told(F, G, b, dev)
                       /\ Known(E, G, b, dev) => Known(F, G, b, dev)
           /\ RemovesLeft(E, b) => RemovesLeft(F, b)
  <1>1. Shifted(E, F, b)
    BY NextEvents
  <1>2. ~Rem(E, 1, b)
    BY DEF Rem
  <1>3. RemovesLeft(E, b) => RemovesLeft(F, b)
    BY <1>1, <1>2 DEF Shifted
  <1>4. ASSUME NEW dev
        PROVE  /\ Gone(E, G, b, dev) => Gone(F, G, b, dev)
               /\ Told(E, G, b, dev) => Told(F, G, b, dev)
               /\ Known(E, G, b, dev) => Known(F, G, b, dev)
    BY TailKeeps
  <1> QED
    BY <1>3, <1>4

-----------------------------------------------------------------------------
(***************************************************************************)
(* The steps of a removal.                                                 *)
(***************************************************************************)
\* The device of a bus goes when its removal is handled; what is listed below
\* its mount point is still to be erased.
LEMMA GoneBehind ==
    ASSUME NEW B, NEW P \in Seq(Entries), TableOK(P, B), NEW U \in Seq(Entries), TableOK(U, B),
           NEW E \in Queues, E # <<>>, NEW i \in 1 .. Len(P),
           NEW b, b # None, P[i].sysfs = b, Rem(E, 1, b), Behind(P, U, i, None),
           NEW G, NEW N, NEW M, NEW s
    PROVE  /\ AllGone(P, E, G) => AllGone(U, E, G)
           /\ AllTold(P, E, G) => AllTold(U, E, G)
           /\ AllKnown(P, E, G) => AllKnown(U, E, G)
           /\ Childless(P, None) => Childless(U, b)
           /\ MountsListed(P, M, s) => MountsListed(U, M, s)
           /\ DisksFound(P, E, N, M, s) => DisksFound(U, E, N, M, s)
  <1>1. Len(P) \in Nat /\ Len(U) = Len(P)
    BY DEF Behind
  <1>2. \A j \in 1 .. Len(P) : P[j].sysfs = b => j = i
    BY DEF TableOK, Apart
  <1>3. \A j \in 1 .. Len(P) :
           /\ U[j].mount = P[j].mount /\ U[j].sub = P[j].sub /\ U[j].sysfs = P[j].sysfs
           /\ j # i => U[j].dev = P[j].dev
           /\ j = i => U[j].dev = None
    BY DEF Behind
  <1>4. ASSUME NEW j \in 1 .. Len(U), U[j].sysfs # None
        PROVE  /\ j \in 1 .. Len(P) /\ P[j].sysfs = U[j].sysfs
               /\ Gone(E, G, P[j].sysfs, P[j].dev) => Gone(E, G, U[j].sysfs, U[j].dev)
               /\ Told(E, G, P[j].sysfs, P[j].dev) => Told(E, G, U[j].sysfs, U[j].dev)
               /\ Known(E, G, P[j].sysfs, P[j].dev) => Known(E, G, U[j].sysfs, U[j].dev)
    <2>1. j \in 1 .. Len(P) /\ U[j].sysfs = P[j].sysfs
      BY <1>1, <1>3
    <2>2. CASE j # i
      BY <1>3, <2>1, <2>2
    <2>3. CASE j = i
      <3>1. U[j].dev = None /\ P[j].sysfs = b
        BY <1>3, <2>1, <2>3
      <3>2. \A dev : /\ Gone(E, G, b, dev) => Gone(E, G, b, None)
                     /\ Told(E, G, b, dev) => Told(E, G, b, None)
                     /\ Known(E, G, b, dev) => Known(E, G, b, None)
        BY RemHandled
      <3> QED
        BY <2>1, <3>1, <3>2
    <2> QED
      BY <2>2, <2>3
  <1>5. /\ AllGone(P, E, G) => AllGone(U, E, G)
        /\ AllTold(P, E, G) => AllTold(U, E, G)
        /\ AllKnown(P, E, G) => AllKnown(U, E, G)
    BY <1>4 DEF AllGone, AllTold, AllKnown
  <1>6. Childless(P, None) => Childless(U, b)
    <2>1. ASSUME Childless(P, None),
                 NEW j \in 1 .. Len(U), U[j].sysfs # None, U[j].dev = None, U[j].sysfs # b,
                 NEW k \in 1 .. Len(U)
          PROVE  U[k].sub # U[j].mount
      <3>1. j \in 1 .. Len(P) /\ k \in 1 .. Len(P) /\ j # i
        BY <1>1, <1>3, <2>1
      <3>2. P[j].sysfs # None /\ P[j].dev = None /\ P[j].mount = U[j].mount
        BY <1>3, <2>1, <3>1
      <3>3. P[k].sub # P[j].mount
        BY <2>1, <3>1, <3>2 DEF Childless
      <3> QED
        BY <1>3, <3>1, <3>3
    <2> QED
      BY <2>1 DEF Childless
  <1>7. MountsListed(P, M, s) => MountsListed(U, M, s)
    BY <1>1, <1>3 DEF MountsListed
  <1>8. ASSUME DisksFound(P, E, N, M, s) PROVE DisksFound(U, E, N, M, s)
    <2>1. ASSUME NEW j \in 1 .. Len(U), U[j].sysfs # None, U[j].dev # None,
                 ~RemovesLeft(E, U[j].sysfs)
          PROVE  AllFound(U, j, N, M, s)
      <3>1. j \in 1 .. Len(P) /\ j # i
        BY <1>1, <1>3, <2>1
      <3>2. P[j].sysfs = U[j].sysfs /\ P[j].dev = U[j].dev
        BY <1>3, <3>1
      <3>3. AllFound(P, j, N, M, s)
        BY <1>8, <2>1, <3>1, <3>2 DEF DisksFound
      <3>4. ~IsChild(P[i]) /\ EntryOK(P[i], B) /\ P[i].wild
        BY DEF TableOK, EntryOK, ChildOK, FileOK
      <3>5. \A k \in 1 .. Len(P) : P[k].sub = P[j].mount => k # i
        BY <2>1, <3>1, <3>2, <3>4, BelowBus
      <3>6. \A k \in 1 .. Len(P) : P[k].sub = P[j].mount => U[k].dev = P[k].dev
        BY <1>3, <3>5
      <3>7. \A k \in Len(P) + 1 .. Len(U) : FALSE
        BY <1>1
      <3>8. Len(P) <= Len(U)
        BY <1>1
      <3> QED
        BY <1>3, <3>1, <3>2, <3>3, <3>6, <3>7, <3>8, FoundKept
    <2> QED
      BY <2>1 DEF DisksFound
  <1> QED
    BY <1>5, <1>6, <1>7, <1>8

\* Handle_Uevent of "remove".
LEMMA RemoveStep ==
    ASSUME TableInv, PlugInv, HandleRemove
    PROVE  PlugInv'
  <1> DEFINE P == Partitions
             U == Partitions'
             E == events
             i == Entry(Head(events))
             b == BusOf[events[1].disk]
  <1>1. /\ phase = "ready" /\ phase' = "remove" /\ events' = E /\ plugged' = plugged
        /\ nodes' = nodes /\ mounts' = mounts /\ stuck' = stuck
        /\ shared' = shared /\ late' = late /\ Event("remove")
    BY DEF HandleRemove, Event, world, seen
  <1>2. /\ E \in Queues /\ E # <<>> /\ P \in Seq(Entries) /\ TableOK(P, Buses)
        /\ i \in 1 .. Len(P) /\ P[i].sysfs = b /\ b # None
        /\ E[1].action = "remove"
        /\ AllGone(P, E, plugged)
        /\ ~shared => AllTold(P, E, plugged) /\ AllKnown(P, E, plugged)
    BY <1>1, HeadEvents
  <1>3. U \in Seq(Entries) /\ TableOK(U, Buses) /\ Behind(P, U, i, None)
    BY RemoveIs
  <1>4. Rem(E, 1, b)
    BY <1>2 DEF Rem
  <1> HIDE DEF i
  <1>5. /\ AllGone(P, E, plugged) => AllGone(U, E, plugged)
        /\ AllTold(P, E, plugged) => AllTold(U, E, plugged)
        /\ AllKnown(P, E, plugged) => AllKnown(U, E, plugged)
        /\ Childless(P, None) => Childless(U, b)
        /\ MountsListed(P, mounts, stuck) => MountsListed(U, mounts, stuck)
        /\ DisksFound(P, E, nodes, mounts, stuck) => DisksFound(U, E, nodes, mounts, stuck)
    <2> HIDE DEF b
    <2> QED
      BY <1>2, <1>3, <1>4, GoneBehind
  <1>6. Childless(P, None)
    BY <1>1 DEF PlugInv, Empty
  <1>7. Single'
    BY <1>1 DEF PlugInv, Single
  <1>8. Events'
    BY <1>1, <1>2, <1>5 DEF Events
  <1>9. Empty'
    BY <1>1, <1>5, <1>6 DEF Empty
  <1>10. Mounted' /\ Found'
    BY <1>1, <1>5 DEF PlugInv, Mounted, Found
  <1> QED
    BY <1>7, <1>8, <1>9, <1>10 DEF PlugInv

\* Nothing is left to erase.
LEMMA NothingLeft ==
    ASSUME Leftover = 0
    PROVE  \A j \in 1 .. Len(Partitions) :
              Partitions[j].sub # Partitions[Entry(Head(events))].mount
  <1> DEFINE m == Partitions[Entry(Head(events))].mount
             I == {j \in 1 .. Len(Partitions) : Partitions[j].sub = m}
  <1>1. 0 = IF I # {} THEN Min(I) ELSE 0
    BY DEF Leftover, SelectInSeq
  <1>2. I \in SUBSET Nat
    OBVIOUS
  <1>3. I # {} => Min(I) \in I
    BY <1>2, MinIsLeast
  <1>4. I = {}
    BY <1>1, <1>3
  <1> QED
    BY <1>4

\* Remove_Uevent_Devices keeps the invariant of the hot-plug.
LEMMA RemovedStep ==
    ASSUME TableInv, PlugInv, Remove_Uevent_Devices
    PROVE  PlugInv'
  <1> DEFINE P == Partitions
             E == events
             F == Tail(events)
             i == Entry(Head(events))
             b == BusOf[events[1].disk]
  <1>1. /\ phase = "remove" /\ phase' = "ready" /\ events' = F /\ plugged' = plugged
        /\ Partitions' = P /\ nodes' = nodes /\ mounts' = mounts /\ stuck' = stuck
        /\ shared' = shared /\ late' = late /\ Leftover = 0
    BY DEF Remove_Uevent_Devices, seen
  <1>2. /\ E \in Queues /\ E # <<>> /\ P \in Seq(Entries) /\ TableOK(P, Buses)
        /\ i \in 1 .. Len(P) /\ P[i].sysfs = b /\ b # None
        /\ E[1].action = "remove"
        /\ \A j \in 1 .. Len(P) : P[j].sysfs = b => j = i
        /\ AllGone(P, E, plugged)
        /\ ~shared => AllTold(P, E, plugged) /\ AllKnown(P, E, plugged)
    BY <1>1, HeadEvents
  <1>3. \A j \in 1 .. Len(P) : P[j].sub # P[i].mount
    BY <1>1, NothingLeft
  <1>4. P[i].dev = None
    BY <1>1, <1>2 DEF TableInv, Queue
  <1>5. Rem(E, 1, b) /\ b = BusOf[E[1].disk]
    BY <1>2 DEF Rem
  <1> DEFINE G == plugged
  <1> HIDE DEF i
  <1>6. ASSUME NEW j \in 1 .. Len(P), P[j].sysfs # None
        PROVE  /\ Gone(E, G, P[j].sysfs, P[j].dev) => Gone(F, G, P[j].sysfs, P[j].dev)
               /\ Told(E, G, P[j].sysfs, P[j].dev) => Told(F, G, P[j].sysfs, P[j].dev)
               /\ Known(E, G, P[j].sysfs, P[j].dev) => Known(F, G, P[j].sysfs, P[j].dev)
               /\ j # i /\ RemovesLeft(E, P[j].sysfs) => RemovesLeft(F, P[j].sysfs)
    <2> DEFINE c == P[j].sysfs
               dev == P[j].dev
    <2>1. CASE j = i
      <3>1. c = b /\ dev = None
        BY <1>2, <1>4, <2>1
      <3> HIDE DEF c, dev, b, E, G
      <3>2. /\ Gone(E, G, b, None) => Gone(F, G, b, None)
            /\ Told(E, G, b, None) => Told(F, G, b, None)
            /\ Known(E, G, b, None) => Known(F, G, b, None)
        BY <1>2, <1>5, RemHandled DEF E
      <3> QED
        BY <2>1, <3>1, <3>2 DEF c, dev
    <2>2. CASE j # i
      <3>1. c # BusOf[E[1].disk]
        BY <1>2, <2>2
      <3> HIDE DEF c, dev, b, E, G
      <3>2. /\ Gone(E, G, c, dev) => Gone(F, G, c, dev)
            /\ Told(E, G, c, dev) => Told(F, G, c, dev)
            /\ Known(E, G, c, dev) => Known(F, G, c, dev)
            /\ RemovesLeft(E, c) => RemovesLeft(F, c)
        BY <1>2, <3>1, OthersTold DEF E
      <3> QED
        BY <3>2 DEF c, dev
    <2> QED
      BY <2>1, <2>2
  <1> HIDE DEF F
  <1>7. /\ AllGone(P, E, G) => AllGone(P, F, G)
        /\ AllTold(P, E, G) => AllTold(P, F, G)
        /\ AllKnown(P, E, G) => AllKnown(P, F, G)
    BY <1>6 DEF AllGone, AllTold, AllKnown
  <1>8. Single'
    BY <1>1 DEF PlugInv, Single
  <1>9. Events'
    BY <1>1, <1>2, <1>7 DEF Events
  <1>10. Empty'
    <2>1. Childless(P, b)
      BY <1>1 DEF PlugInv, Empty
    <2>2. Childless(P, None)
      BY <1>2, <1>3, <2>1 DEF Childless
    <2> QED
      BY <1>1, <2>2 DEF Empty
  <1>11. Mounted'
    BY <1>1 DEF PlugInv, Mounted
  <1>12. Found'
    <2>1. SUFFICES ASSUME ~shared, ~late, DisksFound(P, E, nodes, mounts, stuck)
                   PROVE  DisksFound(P, F, nodes, mounts, stuck)
      BY <1>1 DEF PlugInv, Found
    <2>2. ASSUME NEW j \in 1 .. Len(P), P[j].sysfs # None, P[j].dev # None,
                 ~RemovesLeft(F, P[j].sysfs)
          PROVE  AllFound(P, j, nodes, mounts, stuck)
      <3>1. j # i
        BY <1>4, <2>2
      <3> QED
        BY <1>6, <2>1, <2>2, <3>1 DEF DisksFound
    <2> QED
      BY <2>2 DEF DisksFound
  <1> QED
    BY <1>8, <1>9, <1>10, <1>11, <1>12 DEF PlugInv

\* A table without entry i.
Lacks(P, U, i) ==
    /\ \A j \in 1 .. Len(U) : \E h \in 1 .. Len(P) : h # i /\ U[j] = P[h]
    /\ \A h \in 1 .. Len(P) : h # i => \E j \in 1 .. Len(U) : U[j] = P[h]

\* What is erased was below an entry without a device.
LEMMA ErasedBelow ==
    ASSUME NEW B, NEW P \in Seq(Entries), TableOK(P, B), NEW U \in Seq(Entries), TableOK(U, B),
           NEW i \in 1 .. Len(P), NEW c \in 1 .. Len(P), P[c].sysfs # None, P[c].dev = None,
           P[i].sub = P[c].mount,
           Lacks(P, U, i),
           NEW E, NEW G, NEW b, NEW N, NEW M, NEW s, NEW L, NEW t,
           DOMAIN L \subseteq DOMAIN M, \A m \in DOMAIN L : L[m] = M[m],
           t \/ (~s /\ P[i].mount \notin DOMAIN L)
    PROVE  /\ AllGone(P, E, G) => AllGone(U, E, G)
           /\ AllTold(P, E, G) => AllTold(U, E, G)
           /\ AllKnown(P, E, G) => AllKnown(U, E, G)
           /\ Childless(P, b) => Childless(U, b)
           /\ MountsListed(P, M, s) => MountsListed(U, L, t)
           /\ DisksFound(P, E, N, M, s) => DisksFound(U, E, N, L, t)
  <1>2. /\ AllGone(P, E, G) => AllGone(U, E, G)
        /\ AllTold(P, E, G) => AllTold(U, E, G)
        /\ AllKnown(P, E, G) => AllKnown(U, E, G)
    <2>1. ASSUME NEW j \in 1 .. Len(U), U[j].sysfs # None
          PROVE  /\ AllGone(P, E, G) => Gone(E, G, U[j].sysfs, U[j].dev)
                 /\ AllTold(P, E, G) => Told(E, G, U[j].sysfs, U[j].dev)
                 /\ AllKnown(P, E, G) => Known(E, G, U[j].sysfs, U[j].dev)
      <3>1. PICK h \in 1 .. Len(P) : U[j] = P[h]
        BY DEF Lacks
      <3> QED
        BY <2>1, <3>1 DEF AllGone, AllTold, AllKnown
    <2> QED
      BY <2>1 DEF AllGone, AllTold, AllKnown
  <1>3. ASSUME Childless(P, b), NEW j \in 1 .. Len(U), U[j].sysfs # None, U[j].dev = None,
               U[j].sysfs # b, NEW k \in 1 .. Len(U)
        PROVE  U[k].sub # U[j].mount
    <2>1. PICK h \in 1 .. Len(P) : U[j] = P[h]
      BY DEF Lacks
    <2>2. PICK g \in 1 .. Len(P) : U[k] = P[g]
      BY DEF Lacks
    <2>3. P[g].sub # P[h].mount
      BY <1>3, <2>1 DEF Childless
    <2> QED
      BY <2>1, <2>2, <2>3
  <1>4. ASSUME MountsListed(P, M, s), NEW m \in DOMAIN L, NEW j \in 1 .. Len(U),
               U[j].sysfs # None, m.part # 0, Numbered(m, 0) = U[j].mount, ~t
        PROVE  \E k \in 1 .. Len(U) : U[k].mount = m
    <2>1. PICK h \in 1 .. Len(P) : U[j] = P[h]
      BY DEF Lacks
    <2>2. P[h].sysfs # None /\ Numbered(m, 0) = P[h].mount /\ m \in DOMAIN M /\ ~s
      BY <1>4, <2>1
    <2>3. PICK g \in 1 .. Len(P) : P[g].mount = m
      BY <1>4, <2>2 DEF MountsListed
    <2>4. g # i
      BY <1>4, <2>2, <2>3
    <2>5. PICK k \in 1 .. Len(U) : U[k] = P[g]
      BY <2>4 DEF Lacks
    <2> QED
      BY <2>3, <2>5
  <1>5. ASSUME DisksFound(P, E, N, M, s), NEW j \in 1 .. Len(U), U[j].sysfs # None,
               U[j].dev # None, ~RemovesLeft(E, U[j].sysfs)
        PROVE  AllFound(U, j, N, L, t)
    <2>1. PICK h \in 1 .. Len(P) : U[j] = P[h]
      BY DEF Lacks
    <2>2. AllFound(P, h, N, M, s)
      BY <1>5, <2>1 DEF DisksFound
    <2>3. P[i].sub # P[h].mount
      <3>1. SUFFICES ASSUME P[i].sub = P[h].mount PROVE h = c
        BY <1>5, <2>1
      <3>2. P[h].sysfs # None /\ P[c].mount = P[h].mount
        BY <1>5, <2>1, <3>1
      <3>3. P[c].wild
        BY DEF TableOK, EntryOK, ChildOK, FileOK
      <3> QED
        BY <3>2, <3>3, OwnMount
    <2>4. Nodes(U[j].dev) \subseteq N
      BY <2>1, <2>2 DEF AllFound
    <2>5. ASSUME NEW node \in PartsOf[U[j].dev]
          PROVE  \E k \in 1 .. Len(U) : U[k].sub = U[j].mount /\ U[k].dev = node
      <3>1. PICK g \in 1 .. Len(P) : P[g].sub = P[h].mount /\ P[g].dev = node
        BY <2>1, <2>2, <2>5 DEF AllFound
      <3>2. g # i
        BY <2>3, <3>1
      <3>3. PICK k \in 1 .. Len(U) : U[k] = P[g]
        BY <3>2 DEF Lacks
      <3> QED
        BY <2>1, <3>1, <3>3
    <2>6. ASSUME NEW k \in 1 .. Len(U), U[k].sub = U[j].mount
          PROVE  /\ U[k].dev \in PartsOf[U[j].dev]
                 /\ ~t /\ U[k].mount \in DOMAIN L => L[U[k].mount] = U[k].dev
      <3>1. PICK g \in 1 .. Len(P) : U[k] = P[g]
        BY DEF Lacks
      <3>2. P[g].sub = P[h].mount
        BY <2>1, <2>6, <3>1
      <3>3. /\ P[g].dev \in PartsOf[P[h].dev]
            /\ ~s /\ P[g].mount \in DOMAIN M => M[P[g].mount] = P[g].dev
        BY <2>2, <3>2 DEF AllFound
      <3>4. ~t => ~s
        OBVIOUS
      <3> QED
        BY <2>1, <3>1, <3>3, <3>4
    <2>7. ASSUME NEW k \in 1 .. Len(U), NEW l \in 1 .. Len(U), k # l,
                 U[k].sub = U[j].mount, U[l].sub = U[j].mount
          PROVE  U[k].mount # U[l].mount
      <3>1. IsChild(U[k]) /\ IsChild(U[l])
        <4>1. ASSUME NEW n \in 1 .. Len(U), U[n].sub = U[j].mount PROVE IsChild(U[n])
          BY <1>5, <4>1, BelowBus
        <4> QED
          BY <2>7, <4>1
      <3>2. U[k].dev # U[l].dev
        BY <2>7, <3>1 DEF TableOK, Apart
      <3>3. PICK g \in 1 .. Len(P) : U[k] = P[g]
        BY DEF Lacks
      <3>4. PICK f \in 1 .. Len(P) : U[l] = P[f]
        BY DEF Lacks
      <3>5. g # f /\ P[g].sub = P[h].mount /\ P[f].sub = P[h].mount
        BY <2>1, <2>7, <3>2, <3>3, <3>4
      <3>6. P[g].mount # P[f].mount
        BY <2>2, <3>5 DEF AllFound
      <3> QED
        BY <3>3, <3>4, <3>6
    <2> QED
      BY <2>4, <2>5, <2>6, <2>7 DEF AllFound
  <1>6. Childless(P, b) => Childless(U, b)
    BY <1>3 DEF Childless
  <1>7. MountsListed(P, M, s) => MountsListed(U, L, t)
    BY <1>4 DEF MountsListed
  <1>8. DisksFound(P, E, N, M, s) => DisksFound(U, E, N, L, t)
    BY <1>5 DEF DisksFound
  <1> QED
    BY <1>2, <1>6, <1>7, <1>8

\* What EraseOne does to the mounts: the entry is no longer mounted, or was in use.
LEMMA ErasedMounts ==
    ASSUME TableInv, EraseOne
    PROVE  /\ DOMAIN mounts' \subseteq DOMAIN mounts
           /\ \A m \in DOMAIN mounts' : mounts'[m] = mounts[m]
           /\ stuck' \/ (~stuck /\ Partitions[Leftover].mount \notin DOMAIN mounts')
  <1> DEFINE m == Partitions[Leftover].mount
  <1>1. CASE mounts' = Without(mounts, {m}) /\ stuck' = stuck
    BY <1>1 DEF Without
  <1>2. CASE stuck' = TRUE /\ mounts' = mounts
    BY <1>2
  <1> QED
    BY <1>1, <1>2 DEF EraseOne

\* Erasing one entry of a disk that is gone keeps the invariant of the hot-
\* plug.
LEMMA ErasedStep ==
    ASSUME TableInv, PlugInv, EraseOne
    PROVE  PlugInv'
  <1> DEFINE P == Partitions
             U == Partitions'
             E == events
             i == Leftover
             c == Entry(Head(events))
             b == BusOf[events[1].disk]
  <1>1. /\ phase = "remove" /\ phase' = "remove" /\ events' = E /\ plugged' = plugged
        /\ nodes' = nodes /\ shared' = shared /\ late' = late
    BY DEF EraseOne, world
  <1>2. /\ P \in Seq(Entries) /\ TableOK(P, Buses)
        /\ c \in 1 .. Len(P) /\ P[c].sysfs = b /\ b # None
        /\ AllGone(P, E, plugged)
        /\ ~shared => AllTold(P, E, plugged) /\ AllKnown(P, E, plugged)
    BY <1>1, HeadEvents
  <1>3. /\ i \in 1 .. Len(P) /\ P[i].sub = P[c].mount
        /\ U \in Seq(Entries) /\ TableOK(U, Buses)
        /\ Lacks(P, U, i)
    BY EraseOneIs DEF Lacks
  <1>4. P[c].dev = None
    BY <1>1, <1>2 DEF TableInv, Queue
  <1>5. /\ DOMAIN mounts' \subseteq DOMAIN mounts
        /\ \A m \in DOMAIN mounts' : mounts'[m] = mounts[m]
        /\ stuck' \/ (~stuck /\ P[i].mount \notin DOMAIN mounts')
    BY ErasedMounts
  <1> HIDE DEF i, c, b, E
  <1>6. /\ AllGone(P, E, plugged) => AllGone(U, E, plugged)
        /\ AllTold(P, E, plugged) => AllTold(U, E, plugged)
        /\ AllKnown(P, E, plugged) => AllKnown(U, E, plugged)
        /\ Childless(P, b) => Childless(U, b)
        /\ MountsListed(P, mounts, stuck) => MountsListed(U, mounts', stuck')
        /\ DisksFound(P, E, nodes, mounts, stuck) => DisksFound(U, E, nodes, mounts', stuck')
    <2> DEFINE L == mounts'
               t == stuck'
               G == plugged
    <2>1. P[c].sysfs # None
      BY <1>2
    <2>2. /\ DOMAIN L \subseteq DOMAIN mounts /\ \A m \in DOMAIN L : L[m] = mounts[m]
          /\ t \/ (~stuck /\ P[i].mount \notin DOMAIN L)
      BY <1>5
    <2> HIDE DEF P, U, L, t, G
    <2>3. /\ AllGone(P, E, G) => AllGone(U, E, G)
          /\ AllTold(P, E, G) => AllTold(U, E, G)
          /\ AllKnown(P, E, G) => AllKnown(U, E, G)
          /\ Childless(P, b) => Childless(U, b)
          /\ MountsListed(P, mounts, stuck) => MountsListed(U, L, t)
          /\ DisksFound(P, E, nodes, mounts, stuck) => DisksFound(U, E, nodes, L, t)
      BY <1>2, <1>3, <1>4, <2>1, <2>2, ErasedBelow
    <2> QED
      BY <2>3 DEF L, t, G
  <1>7. Single'
    BY <1>1 DEF PlugInv, Single, E
  <1>8. Events'
    BY <1>1, <1>2, <1>6 DEF Events
  <1>9. Empty'
    <2>1. Childless(P, b)
      BY <1>1 DEF PlugInv, Empty, b
    <2> QED
      BY <1>1, <1>6, <2>1 DEF Empty, b, E
  <1>10. Mounted'
    BY <1>6 DEF PlugInv, Mounted
  <1>11. Found'
    BY <1>1, <1>6 DEF PlugInv, Found, E
  <1> QED
    BY <1>7, <1>8, <1>9, <1>10, <1>11 DEF PlugInv

-----------------------------------------------------------------------------
(***************************************************************************)
(* The step of an addition.                                                *)
(***************************************************************************)
\* An entry gets a disk of its bus.
LEMMA AddedTold ==
    ASSUME NEW P \in Seq(Entries), NEW B, TableOK(P, B), NEW E \in Queues, E # <<>>,
           NEW i \in 1 .. Len(P), Add(E, 1, P[i].sysfs),
           NEW T, Behind(P, T, i, E[1].disk), NEW U, Widened(T, U), NEW G, AllGone(P, E, G)
    PROVE  /\ AllGone(U, Tail(E), G)
           /\ AllTold(P, E, G) =>
                 /\ AllTold(U, Tail(E), G)
                 /\ P[i].sysfs # None => /\ P[i].dev \in {None, E[1].disk}
                                         /\ ~RemovesLeft(Tail(E), P[i].sysfs) => E[1].disk \in G
           /\ P[i].sysfs # None => (RemovesLeft(Tail(E), P[i].sysfs) <=> RemovesLeft(E, P[i].sysfs))
           /\ AllTold(P, E, G) /\ AllKnown(P, E, G) => AllKnown(U, Tail(E), G)
           /\ \A j \in 1 .. Len(P) : j # i /\ P[i].sysfs # None =>
                 (RemovesLeft(E, P[j].sysfs) => RemovesLeft(Tail(E), P[j].sysfs))
  <1> DEFINE F == Tail(E)
             d == E[1].disk
  <1>1. Len(P) \in Nat /\ Len(T) = Len(P)
    BY DEF Behind
  <1>2. BusOf[d] = P[i].sysfs
    BY DEF Add
  <1>3. ASSUME NEW j \in 1 .. Len(U), U[j].sysfs # None
        PROVE  /\ j \in 1 .. Len(P) /\ P[j].sysfs = U[j].sysfs
               /\ U[j].dev = IF j = i THEN d ELSE P[j].dev
    <2>1. j \in 1 .. Len(T) \/ j \in Len(T) + 1 .. Len(U)
      BY <1>1
    <2>2. j \in 1 .. Len(T) /\ U[j].sysfs = T[j].sysfs /\ U[j].dev = T[j].dev
      BY <1>3, <2>1 DEF Widened
    <2> QED
      BY <1>1, <2>2 DEF Behind
  <1>4. \A j \in 1 .. Len(P) : j # i /\ P[i].sysfs # None => P[j].sysfs # BusOf[d]
    BY <1>2 DEF TableOK, Apart
  <1>5. ASSUME P[i].sysfs # None, NEW b, b = P[i].sysfs
        PROVE  /\ Gone(F, G, b, d)
               /\ RemovesLeft(F, b) <=> RemovesLeft(E, b)
               /\ Told(E, G, b, P[i].dev) => /\ Told(F, G, b, d) /\ P[i].dev \in {None, d}
                                             /\ ~RemovesLeft(F, b) => d \in G
               /\ Told(E, G, b, P[i].dev) /\ Known(E, G, b, P[i].dev) => Known(F, G, b, d)
    <2> DEFINE dev == P[i].dev
    <2>1. Gone(E, G, b, dev) /\ Add(E, 1, b)
      BY <1>5 DEF AllGone
    <2> HIDE DEF dev
    <2>2. /\ Gone(F, G, b, d)
          /\ RemovesLeft(F, b) <=> RemovesLeft(E, b)
          /\ Told(E, G, b, dev) => /\ Told(F, G, b, d) /\ dev \in {None, d}
                                   /\ ~RemovesLeft(F, b) => d \in G
          /\ Told(E, G, b, dev) /\ Known(E, G, b, dev) => Known(F, G, b, d)
      BY <2>1, AddHandled
    <2> QED
      BY <2>2 DEF dev
  <1>6. ASSUME NEW b, b # BusOf[d]
        PROVE  /\ \A dev : /\ Gone(E, G, b, dev) => Gone(F, G, b, dev)
                           /\ Told(E, G, b, dev) => Told(F, G, b, dev)
                           /\ Known(E, G, b, dev) => Known(F, G, b, dev)
               /\ RemovesLeft(E, b) => RemovesLeft(F, b)
    BY <1>6, OthersTold
  <1> HIDE DEF F, d
  <1>7. ASSUME NEW j \in 1 .. Len(U), U[j].sysfs # None
        PROVE  /\ Gone(F, G, U[j].sysfs, U[j].dev)
               /\ AllTold(P, E, G) => Told(F, G, U[j].sysfs, U[j].dev)
               /\ AllTold(P, E, G) /\ AllKnown(P, E, G) => Known(F, G, U[j].sysfs, U[j].dev)
    <2> DEFINE b == U[j].sysfs
    <2>1. j \in 1 .. Len(P) /\ P[j].sysfs = b /\ b # None
      BY <1>3, <1>7
    <2>2. /\ Gone(E, G, b, P[j].dev)
          /\ AllTold(P, E, G) => Told(E, G, b, P[j].dev)
          /\ AllKnown(P, E, G) => Known(E, G, b, P[j].dev)
      BY <2>1 DEF AllGone, AllTold, AllKnown
    <2>3. CASE j = i
      <3>1. U[j].dev = d
        BY <1>3, <1>7, <2>3
      <3> HIDE DEF b
      <3> QED
        BY <1>5, <2>1, <2>2, <2>3, <3>1 DEF b
    <2>4. CASE j # i
      <3>1. U[j].dev = P[j].dev
        BY <1>3, <1>7, <2>4
      <3>2. P[i].sysfs # None => b # BusOf[d]
        BY <1>4, <2>1, <2>4
      <3>3. b # BusOf[d]
        BY <1>2, <2>1, <3>2
      <3> HIDE DEF b
      <3>4. /\ \A dev : /\ Gone(E, G, b, dev) => Gone(F, G, b, dev)
                        /\ Told(E, G, b, dev) => Told(F, G, b, dev)
                        /\ Known(E, G, b, dev) => Known(F, G, b, dev)
        BY <1>6, <3>3
      <3> QED
        BY <2>2, <3>1, <3>4 DEF b
    <2> QED
      BY <2>3, <2>4
  <1>8. /\ AllGone(U, F, G)
        /\ AllTold(P, E, G) => AllTold(U, F, G)
        /\ AllTold(P, E, G) /\ AllKnown(P, E, G) => AllKnown(U, F, G)
    BY <1>7 DEF AllGone, AllTold, AllKnown
  <1>9. ASSUME P[i].sysfs # None
        PROVE  /\ AllTold(P, E, G) => /\ P[i].dev \in {None, d}
                                      /\ ~RemovesLeft(F, P[i].sysfs) => d \in G
               /\ RemovesLeft(F, P[i].sysfs) <=> RemovesLeft(E, P[i].sysfs)
    <2>1. AllTold(P, E, G) => Told(E, G, P[i].sysfs, P[i].dev)
      BY <1>9 DEF AllTold
    <2> QED
      BY <1>5, <1>9, <2>1
  <1>10. ASSUME NEW j \in 1 .. Len(P), j # i, P[i].sysfs # None, RemovesLeft(E, P[j].sysfs)
         PROVE  RemovesLeft(F, P[j].sysfs)
    BY <1>4, <1>6, <1>10
  <1> QED
    BY <1>8, <1>9, <1>10 DEF F, d

\* A search of a disk that has all its nodes, and none of its partitions listed.
LEMMA NewFound ==
    ASSUME NEW B, NEW T \in Seq(Entries), TableOK(T, B), NEW U \in Seq(Entries), TableOK(U, B),
           NEW i \in 1 .. Len(T), Searched(T, U, i), T[i].wild, T[i].sysfs # None,
           NEW d \in Disk, T[i].dev = d, BusOf[d] = T[i].sysfs, Nodes(d) \subseteq nodes,
           \A j \in 1 .. Len(T) : T[j].sub # T[i].mount,
           NEW M, NEW s, MountsListed(T, M, s)
    PROVE  AllFound(U, i, nodes, M, s)
  <1>1. /\ Len(T) \in Nat /\ Len(U) \in Nat /\ i \in 1 .. Len(U) /\ PartsOf[d] \subseteq nodes
        /\ U[i].mount = T[i].mount /\ U[i].sysfs = T[i].sysfs /\ U[i].dev = d
    BY DEF Searched, Nodes
  <1>2. ASSUME NEW j \in 1 .. Len(U), U[j].sub = U[i].mount
        PROVE  /\ j \in Len(T) + 1 .. Len(U) /\ U[j].mount.part = j - Len(T)
               /\ U[j].dev \in PartsOf[d]
    <2>1. j \notin 1 .. Len(T)
      BY <1>1, <1>2 DEF Searched
    <2>2. j \in Len(T) + 1 .. Len(U)
      BY <1>1, <2>1
    <2> QED
      BY <2>2 DEF Searched
  <1>3. ASSUME NEW node \in PartsOf[d]
        PROVE  \E j \in 1 .. Len(U) : U[j].sub = U[i].mount /\ U[j].dev = node
    <2>1. PICK j \in 1 .. Len(U) : U[j].dev = node
      BY <1>1, <1>3 DEF Searched
    <2>2. node \in Parts /\ EntryOK(U[j], B)
      BY <1>3 DEF Parts, TableOK
    <2>3. IsChild(U[j])
      BY <2>1, <2>2, DeviceIs
    <2>4. ~IsChild(U[i])
      BY <1>1 DEF TableOK, EntryOK, ChildOK
    <2>5. Apart(U[j], U[i])
      BY <1>1, <2>3, <2>4 DEF TableOK
    <2>6. U[i].mount = U[j].sub
      BY <1>1, <1>3, <2>1, <2>3, <2>5 DEF Apart
    <2> QED
      BY <2>1, <2>6
  <1>4. ASSUME NEW j \in 1 .. Len(U), U[j].sub = U[i].mount, ~s, U[j].mount \in DOMAIN M
        PROVE  FALSE
    <2>1. IsChild(U[j]) /\ ChildOK(U[j])
      BY <1>1, <1>4, BelowBus
    <2> DEFINE m == U[j].mount
    <2>2. m.part # 0 /\ Numbered(m, 0) = T[i].mount
      BY <1>1, <1>4, <2>1 DEF IsChild, ChildOK
    <2>3. PICK k \in 1 .. Len(T) : T[k].mount = m
      BY <1>4, <2>2 DEF MountsListed
    <2>4. IsChild(T[k]) /\ EntryOK(T[k], B)
      BY <2>2, <2>3 DEF IsChild, TableOK
    <2>5. T[k].sub = T[i].mount
      BY <2>2, <2>3, <2>4 DEF EntryOK, ChildOK
    <2> QED
      BY <2>5
  <1>5. ASSUME NEW j \in 1 .. Len(U), NEW k \in 1 .. Len(U), j # k,
               U[j].sub = U[i].mount, U[k].sub = U[i].mount
        PROVE  U[j].mount # U[k].mount
    <2>1. U[j].mount.part = j - Len(T) /\ U[k].mount.part = k - Len(T)
      BY <1>2, <1>5
    <2>2. j - Len(T) # k - Len(T)
      BY <1>1, <1>5
    <2> QED
      BY <2>1, <2>2
  <1>6. Nodes(U[i].dev) \subseteq nodes
    BY <1>1
  <1>7. \A j \in 1 .. Len(U) : U[j].sub = U[i].mount =>
           /\ U[j].dev \in PartsOf[U[i].dev]
           /\ ~s /\ U[j].mount \in DOMAIN M => M[U[j].mount] = U[j].dev
    BY <1>1, <1>2, <1>4
  <1> QED
    BY <1>1, <1>3, <1>5, <1>6, <1>7 DEF AllFound

\* The device of entry i comes, or stays.
LEMMA BehindFound ==
    ASSUME NEW B, NEW P \in Seq(Entries), TableOK(P, B), NEW T \in Seq(Entries), TableOK(T, B),
           NEW i \in 1 .. Len(P), P[i].sysfs # None, NEW d, Behind(P, T, i, d),
           NEW j \in 1 .. Len(P), P[j].sysfs # None, j # i \/ P[i].dev = d,
           NEW N, NEW M, NEW s, AllFound(P, j, N, M, s)
    PROVE  AllFound(T, j, N, M, s)
  <1>1. Len(P) \in Nat /\ Len(T) = Len(P)
    BY DEF Behind
  <1>2. \A k \in 1 .. Len(P) :
           /\ T[k].mount = P[k].mount /\ T[k].sub = P[k].sub
           /\ k # i => T[k].dev = P[k].dev
    BY DEF Behind
  <1>3. T[j].dev = P[j].dev
    BY DEF Behind
  <1>4. ~IsChild(P[i])
    BY DEF TableOK, EntryOK, ChildOK
  <1>5. \A k \in 1 .. Len(P) : P[k].sub = P[j].mount => k # i
    BY <1>4, BelowBus
  <1>6. \A k \in 1 .. Len(P) : P[k].sub = P[j].mount => T[k].dev = P[k].dev
    BY <1>2, <1>5
  <1>7. \A k \in Len(P) + 1 .. Len(T) : FALSE
    BY <1>1
  <1>8. Len(P) <= Len(T)
    BY <1>1
  <1> QED
    BY <1>2, <1>3, <1>6, <1>7, <1>8, FoundKept

\* What is found after an addition.
LEMMA AddedFound ==
    ASSUME NEW B, NEW P \in Seq(Entries), TableOK(P, B), NEW T \in Seq(Entries), TableOK(T, B),
           NEW U \in Seq(Entries), TableOK(U, B),
           NEW i \in 1 .. Len(P), P[i].sysfs # None, NEW d \in Disk, BusOf[d] = P[i].sysfs,
           Behind(P, T, i, d), Searched(T, U, i), Widened(T, U), T[i].wild,
           NEW E, NEW F, \A j \in 1 .. Len(P) : j # i /\ RemovesLeft(E, P[j].sysfs) =>
                                                  RemovesLeft(F, P[j].sysfs),
           RemovesLeft(F, P[i].sysfs) <=> RemovesLeft(E, P[i].sysfs),
           P[i].dev \in {None, d},
           ~RemovesLeft(F, P[i].sysfs) => Nodes(d) \subseteq nodes,
           Childless(P, None), NEW M, NEW s, MountsListed(T, M, s),
           DisksFound(P, E, nodes, M, s)
    PROVE  DisksFound(U, F, nodes, M, s)
  <1>1. Len(P) \in Nat /\ Len(T) = Len(P)
    BY DEF Behind
  <1>2. \A j \in 1 .. Len(P) : /\ T[j].sysfs = P[j].sysfs /\ T[j].sub = P[j].sub
                               /\ T[j].mount = P[j].mount
    BY DEF Behind
  <1>3. ASSUME NEW j \in 1 .. Len(P), P[j].sysfs # None, j # i \/ P[i].dev = d,
               AllFound(P, j, nodes, M, s)
        PROVE  AllFound(U, j, nodes, M, s)
    <2>1. AllFound(T, j, nodes, M, s)
      BY <1>3, BehindFound
    <2>2. j \in 1 .. Len(T) /\ T[j].sysfs # None
      BY <1>1, <1>2, <1>3
    <2> QED
      BY <2>1, <2>2, WidenedFound
  <1>4. ASSUME NEW j \in 1 .. Len(U), U[j].sysfs # None, U[j].dev # None,
               ~RemovesLeft(F, U[j].sysfs)
        PROVE  AllFound(U, j, nodes, M, s)
    <2>1. j \in 1 .. Len(T) \/ j \in Len(T) + 1 .. Len(U)
      BY <1>1
    <2>2. j \in 1 .. Len(T) /\ U[j].sysfs = T[j].sysfs /\ U[j].dev = T[j].dev
      BY <1>4, <2>1 DEF Widened
    <2>3. j \in 1 .. Len(P) /\ U[j].sysfs = P[j].sysfs /\ P[j].sysfs # None
      BY <1>1, <1>2, <1>4, <2>2
    <2>4. CASE j # i
      <3>1. P[j].dev # None
        BY <1>1, <1>4, <2>2, <2>4 DEF Behind
      <3>2. ~RemovesLeft(E, P[j].sysfs)
        BY <1>4, <2>3, <2>4
      <3>3. AllFound(P, j, nodes, M, s)
        BY <2>3, <3>1, <3>2 DEF DisksFound
      <3> QED
        BY <1>3, <2>3, <2>4, <3>3
    <2>5. CASE j = i /\ P[i].dev = d
      <3>1. P[j].dev # None /\ ~RemovesLeft(E, P[j].sysfs)
        BY <1>4, <2>3, <2>5, DiskAssumption
      <3>2. AllFound(P, j, nodes, M, s)
        BY <2>3, <3>1 DEF DisksFound
      <3> QED
        BY <1>3, <2>3, <2>5, <3>2
    <2>6. CASE j = i /\ P[i].dev = None
      <3>1. \A k \in 1 .. Len(P) : P[k].sub # P[i].mount
        BY <2>6 DEF Childless
      <3>2. \A k \in 1 .. Len(T) : T[k].sub # T[i].mount
        BY <1>1, <1>2, <3>1
      <3>3. Nodes(d) \subseteq nodes
        BY <1>4, <2>3, <2>6
      <3>4. T[i].dev = d /\ BusOf[d] = T[i].sysfs /\ T[i].sysfs # None /\ i \in 1 .. Len(T)
        BY <1>1, <1>2 DEF Behind
      <3>5. AllFound(U, i, nodes, M, s)
        BY <3>2, <3>3, <3>4, NewFound
      <3> QED
        BY <2>6, <3>5
    <2> QED
      BY <2>4, <2>5, <2>6
  <1> QED
    BY <1>4 DEF DisksFound

\* An addition keeps what a disk without a bus has found, and the parents of
\* the mount points in use.
LEMMA AddedRest ==
    ASSUME NEW P \in Seq(Entries), NEW T, NEW i \in 1 .. Len(P), NEW d, d # None,
           Behind(P, T, i, d), NEW M, NEW s
    PROVE  /\ Childless(P, None) => Childless(T, None)
           /\ MountsListed(P, M, s) => MountsListed(T, M, s)
  <1>1. Len(P) \in Nat /\ Len(T) = Len(P)
    BY DEF Behind
  <1>2. \A j \in 1 .. Len(P) :
           /\ T[j].mount = P[j].mount /\ T[j].sub = P[j].sub /\ T[j].sysfs = P[j].sysfs
           /\ T[j].dev = None => P[j].dev = None
    BY DEF Behind
  <1>3. Childless(P, None) => Childless(T, None)
    BY <1>1, <1>2 DEF Childless
  <1>4. MountsListed(P, M, s) => MountsListed(T, M, s)
    BY <1>1, <1>2 DEF MountsListed
  <1> QED
    BY <1>3, <1>4

\* Handle_Uevent on an addition keeps the invariant of the hot-plug.
LEMMA AddStep ==
    ASSUME TableInv, PlugInv, HandleAdd
    PROVE  PlugInv'
  <1> DEFINE P == Partitions
             U == Partitions'
             E == events
             F == Tail(events)
             G == plugged
             i == Entry(Head(events))
             d == events[1].disk
  <1>1. /\ phase = "ready" /\ phase' = "ready" /\ events' = F /\ plugged' = G
        /\ nodes' = nodes /\ mounts' = mounts /\ stuck' = stuck /\ shared' = shared
        /\ late' = (late \/ (Head(events).disk \in G /\ ~(Nodes(Head(events).disk) \subseteq nodes)))
        /\ Event("add")
    BY DEF HandleAdd, Event
  <1>2. /\ E \in Queues /\ E # <<>> /\ G \in SUBSET Disk
        /\ P \in Seq(Entries) /\ TableOK(P, Buses)
        /\ i \in 1 .. Len(P) /\ P[i].sysfs = BusOf[d]
        /\ d \in Disk /\ BusOf[d] # None
        /\ E[1].action = "add"
        /\ AllGone(P, E, G)
        /\ ~shared => AllTold(P, E, G) /\ AllKnown(P, E, G)
    BY <1>1, HeadEvents
  <1>3. Head(events).disk = d /\ d # None
    BY <1>1, <1>2, HeadIs, DiskAssumption
  <1>4. /\ U \in Seq(Entries) /\ TableOK(U, Buses)
        /\ \E T \in Seq(Entries) : /\ TableOK(T, Buses) /\ T[i].wild
                                   /\ Behind(P, T, i, Head(events).disk)
                                   /\ Searched(T, U, i)
    BY AddIs
  <1>5. PICK T \in Seq(Entries) : /\ TableOK(T, Buses) /\ T[i].wild /\ Behind(P, T, i, d)
                                  /\ Searched(T, U, i)
    BY <1>3, <1>4
  <1>6. i \in 1 .. Len(T)
    BY <1>2, <1>5 DEF Behind
  <1>7. Widened(T, U)
    BY <1>5, <1>6, WidenedIs
  <1>8. Add(E, 1, P[i].sysfs)
    BY <1>2 DEF Add
  <1> HIDE DEF i
  <1>9. /\ AllGone(U, F, G)
        /\ AllTold(P, E, G) =>
              /\ AllTold(U, F, G)
              /\ P[i].sysfs # None => /\ P[i].dev \in {None, d}
                                      /\ ~RemovesLeft(F, P[i].sysfs) => d \in G
        /\ P[i].sysfs # None => (RemovesLeft(F, P[i].sysfs) <=> RemovesLeft(E, P[i].sysfs))
        /\ AllTold(P, E, G) /\ AllKnown(P, E, G) => AllKnown(U, F, G)
        /\ \A j \in 1 .. Len(P) : j # i /\ P[i].sysfs # None =>
              (RemovesLeft(E, P[j].sysfs) => RemovesLeft(F, P[j].sysfs))
    BY <1>2, <1>5, <1>7, <1>8, AddedTold
  <1>10. Childless(P, None) /\ MountsListed(P, mounts, stuck)
    BY <1>1 DEF PlugInv, Empty, Mounted
  <1>11. Childless(T, None) /\ MountsListed(T, mounts, stuck)
    BY <1>2, <1>3, <1>5, <1>10, AddedRest
  <1>12. Childless(U, None) /\ MountsListed(U, mounts, stuck)
    BY <1>4, <1>5, <1>7, <1>11, WidenedKeeps
  <1>13. Single'
    BY <1>1 DEF PlugInv, Single
  <1>14. Events'
    BY <1>1, <1>2, <1>9 DEF Events
  <1>15. Empty' /\ Mounted'
    BY <1>1, <1>12 DEF Empty, Mounted
  <1>16. Found'
    <2>1. SUFFICES ASSUME ~shared, ~late' PROVE DisksFound(U, F, nodes, mounts, stuck)
      BY <1>1 DEF Found
    <2>2. ~late /\ (d \in G => Nodes(d) \subseteq nodes)
      BY <1>1, <1>3, <2>1
    <2>3. DisksFound(P, E, nodes, mounts, stuck)
      BY <2>1, <2>2 DEF PlugInv, Found
    <2>4. /\ P[i].sysfs # None /\ BusOf[d] = P[i].sysfs /\ P[i].dev \in {None, d}
          /\ ~RemovesLeft(F, P[i].sysfs) => Nodes(d) \subseteq nodes
          /\ RemovesLeft(F, P[i].sysfs) <=> RemovesLeft(E, P[i].sysfs)
      BY <1>2, <1>9, <2>1, <2>2
    <2>5. \A j \in 1 .. Len(P) : j # i /\ RemovesLeft(E, P[j].sysfs) => RemovesLeft(F, P[j].sysfs)
      BY <1>9, <2>4
    <2> HIDE DEF d, F, E, G
    <2> QED
      BY <1>2, <1>4, <1>5, <1>7, <1>10, <1>11, <2>3, <2>4, <2>5, AddedFound
  <1> QED
    BY <1>13, <1>14, <1>15, <1>16 DEF PlugInv

\* Every step keeps the invariant of the hot-plug.
LEMMA PlugInvStep == TableInv /\ PlugInv /\ [TableNext]_tableVars => PlugInv'
  <1> SUFFICES ASSUME TableInv, PlugInv, [TableNext]_tableVars PROVE PlugInv'
    OBVIOUS
  <1>1. TableInv'
    BY TableStep
  <1>2. CASE ReadFstab \/ ReadFlags \/ ReadVendor \/ EndOfFile
             \/ SetupOne \/ Setup_Fstab_Partitions \/ setup_uevent
    BY <1>1, <1>2, EarlyStep
  <1>3. CASE UpdateOne \/ Update_System_Details
    <2>1. CASE phase = "update"
      BY <1>1, <1>3, <2>1, EarlyStep
    <2>2. CASE phase # "update"
      BY <1>3, <2>2, WidenStep
    <2> QED
      BY <2>1, <2>2
  <1>4. CASE Coldboot
    BY <1>4, ColdbootStep
  <1>5. CASE Refresh \/ UNCHANGED tableVars
    BY <1>5, StillStep
  <1>6. CASE HandleAdd
    BY <1>6, AddStep
  <1>7. CASE HandleRemove
    BY <1>7, RemoveStep
  <1>8. CASE EraseOne
    BY <1>8, ErasedStep
  <1>9. CASE Remove_Uevent_Devices
    BY <1>9, RemovedStep
  <1>10. CASE \E d \in Disk : Plug(d) \/ MakeNode(d) \/ Unplug(d)
    <2>1. PICK d \in Disk : Plug(d) \/ MakeNode(d) \/ Unplug(d)
      BY <1>10
    <2>2. CASE Plug(d)
      BY <2>2, PlugStep
    <2>3. CASE MakeNode(d)
      BY <2>3, StillStep
    <2>4. CASE Unplug(d)
      BY <2>4, UnplugStep
    <2> QED
      BY <2>1, <2>2, <2>3, <2>4
  <1>11. CASE \E i \in DOMAIN Partitions : Mount(i)
    BY <1>11, WidenStep
  <1>12. CASE \E m \in DOMAIN mounts : UnMount(m)
    BY <1>12, StillStep
  <1> QED
    BY <1>2, <1>3, <1>4, <1>5, <1>6, <1>7, <1>8, <1>9, <1>10, <1>11, <1>12 DEF TableNext

\* What an empty queue says of an entry of a bus.
LEMMA AllHandled ==
    ASSUME TableInv, PlugInv, phase \in {"ready", "refresh"}, events = <<>>,
           NEW i \in 1 .. Len(Partitions), Partitions[i].sysfs # None
    PROVE  LET p == Partitions[i] IN
           /\ (\A d \in plugged : BusOf[d] # p.sysfs) => p.dev = None
           /\ p.dev = None =>
                 /\ ~p.present
                 /\ \A j \in 1 .. Len(Partitions) : Partitions[j].sub # p.mount
           /\ ~shared => \A d \in plugged : BusOf[d] = p.sysfs <=> d = p.dev
           /\ ~shared /\ p.dev # None => p.dev \in plugged
           /\ ~shared /\ ~late /\ p.dev # None =>
                 AllFound(Partitions, i, nodes, mounts, stuck)
  <1> DEFINE p == Partitions[i]
  <1>1. \A k \in 1 .. Len(events) : FALSE
    OBVIOUS
  <1>2. Listening /\ phase # "coldboot" /\ phase # "remove"
    BY DEF Listening
  <1>3. /\ Gone(events, plugged, p.sysfs, p.dev)
        /\ ~shared => /\ Told(events, plugged, p.sysfs, p.dev)
                      /\ Known(events, plugged, p.sysfs, p.dev)
    BY <1>2 DEF PlugInv, Events, AllGone, AllTold, AllKnown
  <1>4. NoEvent(events, p.sysfs) /\ ~RemovesLeft(events, p.sysfs)
    BY <1>1 DEF NoEvent, RemovesLeft
  <1>5. \/ p.dev = None
        \/ p.dev \in Disk /\ BusOf[p.dev] = p.sysfs
    BY QueueIs
  <1>6. (\A d \in plugged : BusOf[d] # p.sysfs) => p.dev = None
    BY <1>1, <1>3 DEF Gone
  <1>7. ASSUME p.dev = None
        PROVE  /\ ~p.present
               /\ \A j \in 1 .. Len(Partitions) : Partitions[j].sub # p.mount
    <2>1. Childless(Partitions, None)
      BY <1>2 DEF PlugInv, Empty
    <2>2. \A j \in 1 .. Len(Partitions) : Partitions[j].sub # p.mount
      BY <1>7, <2>1 DEF Childless
    <2>3. TableOK(Partitions, Buses)
      BY QueueIs
    <2>4. EntryOK(p, Buses)
      BY <2>3 DEF TableOK
    <2>5. FileOK(p, Buses)
      BY <2>4 DEF EntryOK, ChildOK
    <2> QED
      BY <1>7, <2>2, <2>5 DEF FileOK
  <1>8. ASSUME ~shared, p.dev # None PROVE p.dev \in plugged
    BY <1>3, <1>4, <1>8 DEF Told, Handled
  <1>9. ASSUME ~shared, NEW d \in plugged PROVE BusOf[d] = p.sysfs <=> d = p.dev
    <2>1. d \in Disk
      BY QueueIs
    <2>2. d # None
      BY <2>1, DiskAssumption
    <2>3. d = p.dev => BusOf[d] = p.sysfs
      BY <1>5, <2>2
    <2>4. BusOf[d] = p.sysfs => d = p.dev
      BY <1>1, <1>3, <1>9 DEF Known
    <2> QED
      BY <2>3, <2>4
  <1>10. ASSUME ~shared, ~late, p.dev # None
         PROVE  AllFound(Partitions, i, nodes, mounts, stuck)
    BY <1>4, <1>10 DEF PlugInv, Found, DisksFound
  <1> QED
    BY <1>6, <1>7, <1>8, <1>9, <1>10

\* The two invariants imply PlugAgrees.
LEMMA InvAgrees == TableInv /\ PlugInv => PlugAgrees
  <1> SUFFICES ASSUME TableInv, PlugInv, phase \in {"ready", "refresh"}, events = <<>>
               PROVE  PlugAgrees
    BY DEF PlugAgrees
  <1> DEFINE P == Partitions
             E == DOMAIN P
             children(i) == {j \in E : P[j].sub = P[i].mount}
             there(i) == {d \in plugged : BusOf[d] = P[i].sysfs}
  <1>1. /\ P \in Seq(Entries) /\ TableOK(P, Buses) /\ plugged \in SUBSET Disk
        /\ E = 1 .. Len(P)
    BY QueueIs
  <1>2. ASSUME NEW i \in E, P[i].sysfs # None, there(i) = {}
        PROVE  /\ ~P[i].present /\ children(i) = {}
               /\ \A m \in DOMAIN mounts : m.part # 0 /\ Numbered(m, 0) = P[i].mount => stuck
    <2>1. \A d \in plugged : BusOf[d] # P[i].sysfs
      BY <1>2
    <2>2. ~P[i].present /\ \A j \in 1 .. Len(P) : P[j].sub # P[i].mount
      BY <1>1, <1>2, <2>1, AllHandled
    <2>3. ASSUME NEW m \in DOMAIN mounts, m.part # 0, Numbered(m, 0) = P[i].mount, ~stuck
          PROVE  FALSE
      <3>1. PICK j \in 1 .. Len(P) : P[j].mount = m
        BY <1>1, <1>2, <2>3 DEF PlugInv, Mounted, MountsListed
      <3>2. IsChild(P[j]) /\ EntryOK(P[j], Buses)
        BY <1>1, <2>3, <3>1 DEF IsChild, TableOK
      <3>3. P[j].sub = P[i].mount
        BY <2>3, <3>1, <3>2 DEF EntryOK, ChildOK
      <3> QED
        BY <2>2, <3>3
    <2> QED
      BY <1>1, <2>2, <2>3
  <1>3. ASSUME NEW i \in E, NEW j \in E, i # j, IsChild(P[i]), P[i].actual = P[j].actual
        PROVE  FALSE
    <2>1. EntryOK(P[i], Buses) /\ EntryOK(P[j], Buses) /\ Apart(P[i], P[j])
      BY <1>1, <1>3 DEF TableOK
    <2>2. P[i].dev \in Parts /\ P[i].actual = P[i].dev
      BY <1>3, <2>1 DEF EntryOK, ChildOK
    <2>3. P[j].dev = P[i].dev /\ IsChild(P[j])
      BY <1>3, <2>1, <2>2, DeviceIs
    <2> QED
      BY <1>3, <2>1, <2>3 DEF Apart
  <1>4. ASSUME ~shared, ~late, NEW i \in E, P[i].sysfs # None
        PROVE  /\ UNION {PartsOf[d] : d \in there(i)} = {P[j].actual : j \in children(i)}
               /\ \A j, k \in children(i) : j # k => P[j].mount # P[k].mount
               /\ ~stuck => \A j \in children(i) : P[j].mount \in DOMAIN mounts =>
                               mounts[P[j].mount] = P[j].actual
    <2> DEFINE dev == P[i].dev
    <2>1. /\ dev = None => \A j \in 1 .. Len(P) : P[j].sub # P[i].mount
          /\ \A d \in plugged : BusOf[d] = P[i].sysfs <=> d = dev
          /\ dev # None => dev \in plugged /\ AllFound(P, i, nodes, mounts, stuck)
      BY <1>1, <1>4, AllHandled
    <2>2. CASE dev = None
      <3>1. children(i) = {}
        BY <1>1, <2>1, <2>2
      <3>2. there(i) = {}
        <4>1. None \notin plugged
          BY <1>1, DiskAssumption
        <4> QED
          BY <2>1, <2>2, <4>1
      <3> QED
        BY <3>1, <3>2
    <2>3. CASE dev # None
      <3>1. there(i) = {dev}
        BY <2>1, <2>3
      <3>2. AllFound(P, i, nodes, mounts, stuck)
        BY <2>1, <2>3
      <3>3. ASSUME NEW j \in children(i)
            PROVE  /\ j \in 1 .. Len(P) /\ P[j].sub = P[i].mount
                   /\ P[j].actual = P[j].dev /\ P[j].dev \in PartsOf[dev]
                   /\ ~stuck /\ P[j].mount \in DOMAIN mounts =>
                         mounts[P[j].mount] = P[j].actual
        <4>1. j \in 1 .. Len(P) /\ P[j].sub = P[i].mount /\ i \in 1 .. Len(P)
          BY <1>1
        <4>2. ChildOK(P[j])
          BY <1>1, <1>4, <4>1, BelowBus
        <4> QED
          BY <3>2, <4>1, <4>2 DEF AllFound, ChildOK
      <3>4. ASSUME NEW node \in PartsOf[dev]
            PROVE  \E j \in children(i) : P[j].actual = node
        <4>1. PICK j \in 1 .. Len(P) : P[j].sub = P[i].mount /\ P[j].dev = node
          BY <3>2 DEF AllFound
        <4>2. j \in children(i)
          BY <1>1, <4>1
        <4> QED
          BY <3>3, <4>1, <4>2
      <3>5. ASSUME NEW j \in children(i), NEW k \in children(i), j # k
            PROVE  P[j].mount # P[k].mount
        BY <3>2, <3>3, <3>5 DEF AllFound
      <3>6. UNION {PartsOf[d] : d \in there(i)} = PartsOf[dev]
        BY <3>1
      <3> HIDE DEF children
      <3>7. PartsOf[dev] = {P[j].actual : j \in children(i)}
        BY <3>3, <3>4
      <3> QED
        BY <3>3, <3>5, <3>6, <3>7
    <2> QED
      BY <2>2, <2>3
  <1> QED
    BY <1>2, <1>3, <1>4 DEF PlugAgrees

\* PlugAgrees, for every text, every disk and every fstab the assumptions
\* allow, and for any number of disks plugged in and pulled out in any order
\* while events wait in the queue: whenever the queue is empty and no
\* removal is under way, the table lists what is plugged in and nothing else
\* (Handle_Uevent, Remove_Uevent_Devices and Coldboot of
\* partitionmanager.cpp).
THEOREM TableAgrees == TableSpec => []PlugAgrees
  <1>1. TableInit => TableInv /\ PlugInv
    BY TableStarts, PlugStarts
  <1>2. TableInv /\ PlugInv /\ [TableNext]_tableVars => (TableInv /\ PlugInv)'
    BY TableStep, PlugInvStep
  <1>3. TableSpec => [](TableInv /\ PlugInv)
    BY <1>1, <1>2, PTL DEF TableSpec
  <1> QED
    BY <1>3, InvAgrees, PTL

-----------------------------------------------------------------------------
(***************************************************************************)
(* The composition.                                                        *)
(***************************************************************************)
\* Whatever the table is made of, and whatever disks come and go: a step of the
\* recovery is one of the operation, or none.
LEMMA StepOfRecovery == [RecoveryNext]_<<tableVars, vars>> => [Next]_vars
  BY DEF RecoveryNext

\* The recovery's operations on the table are the operations that the results
\* above are about, fairness included.
LEMMA RecoveryIsNandroid == RecoverySpec => Spec
  <1>1. RecoveryInit => Init
    BY DEF RecoveryInit
  <1> QED
    BY <1>1, StepOfRecovery, PTL DEF RecoverySpec, Spec

\* So, on any table: true means a whole backup, false a cleaned folder, and a
\* restore that stops half way on storage that works was stopped by an earlier
\* cancel or by an archive whose digest nobody looked at.
THEOREM HoldsOnAnyTable ==
    RecoverySpec => [](SuccessIsWhole /\ FailureIsClean /\ DamageHasCause)
  BY RecoveryIsNandroid, TrueIsWhole, FalseIsClean, DamageIsExplained, PTL

\* A step of the recovery is one of the table, or leaves the table alone.
LEMMA StepOfTable == [RecoveryNext]_<<tableVars, vars>> => [TableNext]_tableVars
  BY DEF RecoveryNext

\* Whatever operations run on the table, it keeps both its invariants.
LEMMA RecoveryKeepsTable == RecoverySpec => [](TableInv /\ PlugInv)
  <1>1. RecoveryInit => TableInv /\ PlugInv
    BY TableStarts, PlugStarts DEF RecoveryInit
  <1>2. TableInv /\ PlugInv /\ [TableNext]_tableVars => (TableInv /\ PlugInv)'
    BY TableStep, PlugInvStep
  <1> QED
    BY <1>1, <1>2, StepOfTable, PTL DEF RecoverySpec

\* So, beside any backup or restore, running, cancelled or failed: the table is
\* the one the files describe, and when the events are handled it agrees with
\* what is plugged in.
THEOREM TableHoldsBesideAny == RecoverySpec => [](TableSound /\ PlugAgrees)
  BY RecoveryKeepsTable, InvIsSound, InvAgrees, PTL

=============================================================================
