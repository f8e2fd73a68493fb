------------------------------- MODULE Nandroid -------------------------------
(***************************************************************************)
(* TWPartitionManager's backup and restore: the operation thread that runs *)
(* Run_Backup or Run_Restore over a list of partitions, the tar child it   *)
(* forks for file systems, the block copy it does itself for images, and   *)
(* the GUI thread that may call Cancel_Backup at any moment of a backup.   *)
(*                                                                         *)
(* The threads share stop_backup, tar_fork_pid and the backup folder, and  *)
(* nothing locks them.  A file of the folder is "none", "partial" (open,   *)
(* being written) or "whole".                                              *)
(***************************************************************************)
EXTENDS Naturals, Sequences

CONSTANTS
    Part,       \* partitions, subpartitions included
    List,       \* tw_backup_list / tw_restore_selected: the listed partitions
    Sub,        \* the subpartitions of every partition, in order
    Method,     \* Backup_Method: "files" or "image"
    Split,      \* file systems so large that tar writes .win000, .win001, ...
    Blocks,     \* blocks of an image: the loop of Raw_Read_Write
    UseDigest,  \* digests are generated, and checked before a restore
    NameKept,   \* TW_BACKUP_NAME names the folder (not "(Current Date)")
    Faults,     \* whether reads, writes, tar and digests may fail
    MaxRuns     \* bound on the number of operations

ASSUME PartAssumption ==
    /\ List \in Seq(Part)
    /\ Sub \in [Part -> Seq(Part)]
    /\ Method \in [Part -> {"files", "image"}]
    /\ Split \subseteq {p \in Part : Method[p] = "files"}
    /\ Blocks \in Nat \ {0}
    /\ MaxRuns \in Nat
    /\ {UseDigest, NameKept} \subseteq BOOLEAN
    /\ Faults \subseteq BOOLEAN

VARIABLES
    op,           \* the operation running or run last
    opc,          \* where its thread is
    entry,        \* position in the list
    nth,          \* 0: the listed partition, k: its k-th subpartition
    remain,       \* blocks Raw_Read_Write has still to copy
    result,       \* what Run_Backup or Run_Restore returned
    cpc,          \* where Cancel_Backup is
    stop_backup,
    tar_fork_pid, \* TRUE when it is not 0: the pid of the last child
    child,        \* that child: "none" once it was waited for
    folder,       \* the folder of this backup exists
    file, sum,    \* its image or archive and its digest, per partition
    unremoved,    \* an opendir, unlink or rmdir in the folder failed
    archive,      \* the files a restore reads: "good" or "bad" digest
    disk,         \* the partitions themselves
    runs,         \* operations started
    faulty,       \* the storage of this behaviour may fail
    hit,          \* Cancel_Backup was called during this backup ...
    gone          \* ... and found a tar pid and saw that process gone

opVars == <<op, entry, nth, remain>>
runVars == <<runs, faulty>>
hist == <<hit, gone>>
cancelVars == <<cpc, stop_backup, tar_fork_pid, hist>>
folderVars == <<folder, file, sum, unremoved>>
restoreVars == <<archive, disk>>
vars == <<opVars, opc, result, cancelVars, child, folderVars, restoreVars, runVars>>

NoFiles == [p \in Part |-> "none"]
NoSums == [p \in Part |-> FALSE]

Init ==
    /\ op = "backup" /\ opc = "idle" /\ entry = 1 /\ nth = 0 /\ remain = 0
    /\ result = "none"
    /\ cpc = "idle" /\ stop_backup = 0 /\ tar_fork_pid = FALSE
    /\ hit = FALSE /\ gone = FALSE
    /\ child = "none"
    /\ folder = FALSE /\ file = NoFiles /\ sum = NoSums /\ unremoved = FALSE
    /\ archive = [p \in Part |-> "good"]
    /\ disk = [p \in Part |-> "old"]
    /\ runs = 0
    /\ faulty \in Faults

Listed == List[entry]
current == IF nth = 0 THEN Listed ELSE Sub[Listed][nth]

\* After one partition: its next subpartition, or the next list entry.
Advance(again, next) ==
    IF nth < Len(Sub[Listed])
    THEN nth' = nth + 1 /\ entry' = entry /\ opc' = again
    ELSE nth' = 0 /\ entry' = entry + 1 /\ opc' = next

Return(r) ==
    /\ opc' = "idle"
    /\ result' = r

(***************************************************************************)
(* Run_Backup                                                              *)
(***************************************************************************)
\* The GUI starts the thread; its cancel button is there from now on.
StartBackup ==
    /\ opc = "idle" /\ cpc = "idle" /\ runs < MaxRuns
    /\ op' = "backup" /\ opc' = "queued" /\ runs' = runs + 1
    /\ entry' = 1 /\ nth' = 0
    /\ hit' = FALSE /\ gone' = FALSE /\ result' = "none"
    /\ folder' = FALSE /\ file' = NoFiles /\ sum' = NoSums /\ unremoved' = FALSE
    /\ UNCHANGED <<remain, cpc, stop_backup, tar_fork_pid, child, restoreVars, faulty>>

ResetStop ==
    /\ opc = "queued"
    /\ opc' = "prepare"
    /\ stop_backup' = 0
    /\ UNCHANGED <<opVars, result, cpc, tar_fork_pid, hist, child, folderVars,
                   restoreVars, runVars>>

\* Storage, list and space are checked, then Recursive_Mkdir.
MakeFolder ==
    /\ opc = "prepare"
    /\ \/ folder' = TRUE /\ opc' = "entry" /\ UNCHANGED result
       \/ faulty /\ Return("false") /\ UNCHANGED folder
    /\ UNCHANGED <<opVars, cancelVars, child, file, sum, unremoved, restoreVars, runVars>>

\* The only place of Run_Backup that looks at stop_backup.
NextEntry ==
    /\ op = "backup" /\ opc = "entry"
    /\ \/ entry > Len(List) /\ Return("true")
       \/ entry <= Len(List) /\ stop_backup # 0 /\ Return("-1")
       \/ entry <= Len(List) /\ stop_backup = 0 /\ opc' = "part" /\ UNCHANGED result
    /\ UNCHANGED <<opVars, cancelVars, child, folderVars, restoreVars, runVars>>

\* Backup_Tar: createTarFork sets tar_fork_pid and waits.
ForkTar ==
    /\ op = "backup" /\ opc = "part" /\ Method[current] = "files"
    /\ child' = "running" /\ tar_fork_pid' = TRUE
    /\ opc' = "wait"
    /\ UNCHANGED <<opVars, result, cpc, stop_backup, hist, folderVars,
                   restoreVars, runVars>>

\* Mutants of ReapTar: the exit status of tar is ignored; the child is not
\* waited for, so that its pid stays in use.
ReapTarBlindly ==
    /\ opc = "wait" /\ child \in {"succeeded", "failed"}
    /\ opc' = "digest"
    /\ child' = "none"
    /\ UNCHANGED <<opVars, result, cancelVars, folderVars, restoreVars, runVars>>

ReapTarLeavesZombie ==
    /\ opc = "wait" /\ child \in {"succeeded", "failed"}
    /\ opc' = IF child = "succeeded" THEN "digest" ELSE "clean"
    /\ UNCHANGED <<opVars, child, result, cancelVars, folderVars, restoreVars, runVars>>

ReapTar ==
    /\ opc = "wait" /\ child \in {"succeeded", "failed"}
    /\ opc' = IF child = "succeeded" THEN "digest" ELSE "clean"
    /\ child' = "none"
    /\ UNCHANGED <<opVars, result, cancelVars, folderVars, restoreVars, runVars>>

\* Backup_Image and Raw_Read_Write: O_CREAT | O_TRUNC in the folder.
OpenImage ==
    /\ op = "backup" /\ opc = "part" /\ Method[current] = "image"
    /\ \/ /\ folder
          /\ file' = [file EXCEPT ![current] = "partial"]
          /\ remain' = Blocks /\ opc' = "copy"
       \/ /\ ~folder \/ faulty
          /\ opc' = "clean"
          /\ UNCHANGED <<file, remain>>
    /\ UNCHANGED <<op, entry, nth, result, cancelVars, child, folder, sum,
                   unremoved, restoreVars, runVars>>

\* One turn of the loop: read, write, then Check_Backup_Cancel.  An image that
\* is not the one backed up may be longer than the partition.
CopyBlock ==
    /\ opc = "copy" /\ remain > 0
    /\ remain' = remain - 1
    /\ \/ stop_backup = 0 /\ UNCHANGED <<opc, result>>
       \/ /\ stop_backup # 0 \/ faulty \/ (op = "restore" /\ archive[current] = "bad")
          /\ \/ op = "backup" /\ opc' = "clean" /\ UNCHANGED result
             \/ op = "restore" /\ Return("false")
    /\ UNCHANGED <<op, entry, nth, cancelVars, child, folderVars, restoreVars,
                   runVars>>

\* Writing to a file that was unlinked meanwhile leaves nothing behind.
Complete(p) == [file EXCEPT ![p] = IF @ = "partial" THEN "whole" ELSE @]

FinishImage ==
    /\ op = "backup" /\ opc = "copy" /\ remain = 0
    /\ file' = Complete(current)
    /\ opc' = "digest"
    /\ UNCHANGED <<opVars, result, cancelVars, child, folder, sum, unremoved,
                   restoreVars, runVars>>

MakeDigest ==
    /\ opc = "digest"
    /\ \/ /\ UseDigest => file[current] # "none"
          /\ sum' = [sum EXCEPT ![current] = @ \/ UseDigest]
          /\ Advance("part", "entry")
       \/ /\ UseDigest /\ (file[current] = "none" \/ faulty)
          /\ opc' = "clean"
          /\ UNCHANGED <<sum, entry, nth>>
    /\ UNCHANGED <<op, remain, result, cancelVars, child, folder, file,
                   unremoved, restoreVars, runVars>>

\* Only these images or archives, and only these digests, are left.
Leave(images, digests) ==
    /\ file' = [p \in Part |-> IF p \in images THEN file[p] ELSE "none"]
    /\ sum' = [p \in Part |-> sum[p] /\ p \in digests]

\* Some calls that remove them fail; that is logged at most.
RemoveFails ==
    /\ faulty
    /\ unremoved' = TRUE

\* Mutant of Clean_Backup_Folder: .sha2 is not among the extensions.
CleanImagesOnly ==
    /\ opc = "clean"
    /\ Leave(Split, Part)
    /\ Return("false")
    /\ UNCHANGED <<opVars, cancelVars, child, folder, unremoved, restoreVars, runVars>>

\* backup_error: what ends in .win, .sha2, .md5 or .info goes; a part of a
\* split archive ends in .win000, its digest in .sha2.
Clean_Backup_Folder ==
    /\ opc = "clean"
    /\ \/ Leave(Split, {}) /\ UNCHANGED unremoved
       \/ RemoveFails /\ \E images, digests \in SUBSET Part : Leave(Split \cup images, digests)
    /\ Return("false")
    /\ UNCHANGED <<opVars, cancelVars, child, folder, restoreVars, runVars>>

(***************************************************************************)
(* The tar child                                                           *)
(***************************************************************************)
ChildOpen ==
    /\ child = "running"
    /\ \/ /\ folder /\ child' = "writing"
          /\ file' = [file EXCEPT ![current] = "partial"]
       \/ (~folder \/ faulty) /\ child' = "failed" /\ UNCHANGED file
    /\ UNCHANGED <<opVars, opc, result, cancelVars, folder, sum, unremoved, restoreVars,
                   runVars>>

ChildExit ==
    /\ child = "writing"
    /\ \/ child' = "succeeded" /\ file' = Complete(current)
       \/ faulty /\ child' = "failed" /\ UNCHANGED file
    /\ UNCHANGED <<opVars, opc, result, cancelVars, folder, sum, unremoved, restoreVars,
                   runVars>>

(***************************************************************************)
(* Cancel_Backup, called by the GUI thread                                 *)
(***************************************************************************)
CancelStep(from, to) ==
    /\ cpc = from /\ cpc' = to
    /\ UNCHANGED <<opVars, opc, result, restoreVars, runVars>>

SetStop ==
    /\ op = "backup" /\ opc # "idle"
    /\ CancelStep("idle", "test")
    /\ stop_backup' = 1 /\ hit' = TRUE
    /\ UNCHANGED <<gone, tar_fork_pid, child, folderVars>>

TestPid ==
    /\ CancelStep("test", IF tar_fork_pid THEN "kill" ELSE "idle")
    /\ UNCHANGED <<stop_backup, hist, tar_fork_pid, child, folderVars>>

\* SIGUSR2 to whatever child the pid names now.
KillTar ==
    /\ CancelStep("kill", "await")
    /\ child' = IF child \in {"running", "writing"} THEN "failed" ELSE child
    /\ UNCHANGED <<stop_backup, hist, tar_fork_pid, folderVars>>

\* kill(pid, 0) fails once the operation thread has waited for the child.
AwaitTar ==
    /\ child = "none"
    /\ CancelStep("await", IF NameKept THEN "empty" ELSE "forget")
    /\ gone' = TRUE
    /\ UNCHANGED <<stop_backup, hit, tar_fork_pid, child, folderVars>>

\* removeDir: the files, whatever their names, then the directory if it is empty.
RemoveFiles ==
    /\ CancelStep("empty", "rmdir")
    /\ \/ Leave({}, {}) /\ UNCHANGED unremoved
       \/ RemoveFails /\ \E images, digests \in SUBSET Part : Leave(images, digests)
    /\ UNCHANGED <<stop_backup, hist, tar_fork_pid, child, folder>>

RemoveFolder ==
    /\ CancelStep("rmdir", "forget")
    /\ \/ /\ folder' = (folder /\ ~(file = NoFiles /\ sum = NoSums))
          /\ UNCHANGED unremoved
       \/ RemoveFails /\ UNCHANGED folder
    /\ UNCHANGED <<stop_backup, hist, tar_fork_pid, child, file, sum>>

ForgetPid ==
    /\ CancelStep("forget", "idle")
    /\ tar_fork_pid' = FALSE
    /\ UNCHANGED <<stop_backup, hist, child, folderVars>>

(***************************************************************************)
(* Run_Restore                                                             *)
(***************************************************************************)
restoreFrame == <<cancelVars, child, folderVars>>

\* The files may come from anywhere; stop_backup is not reset.
StartRestore ==
    /\ opc = "idle" /\ cpc = "idle" /\ runs < MaxRuns
    /\ op' = "restore" /\ opc' = "verify" /\ runs' = runs + 1
    /\ entry' = 1 /\ nth' = 0 /\ remain' = 0 /\ result' = "none"
    /\ archive' \in [Part -> {"good", "bad"}]
    /\ disk' = [p \in Part |-> "old"]
    /\ UNCHANGED <<restoreFrame, faulty>>

\* Mutant of Verified: no digest is checked.
Unverified(p, parent) == TRUE

\* The digest that is checked for a subpartition is its parent's.
Verified(p, parent) == UseDigest => archive[parent] = "good"

VerifyDigest ==
    /\ opc = "verify"
    /\ \/ entry > Len(List) /\ opc' = "restore" /\ entry' = 1
          /\ UNCHANGED <<nth, result>>
       \/ entry <= Len(List) /\ Verified(current, Listed)
          /\ Advance("verify", "verify") /\ UNCHANGED result
       \/ entry <= Len(List) /\ (~Verified(current, Listed) \/ faulty)
          /\ Return("false") /\ UNCHANGED <<entry, nth>>
    /\ UNCHANGED <<op, remain, restoreFrame, restoreVars, runVars>>

\* Restore_Tar wipes first, Raw_Read_Write discards first; the wipe, the mount
\* or the open that follows may fail.
BeginPartition ==
    /\ opc = "restore" /\ entry <= Len(List)
    /\ \/ /\ disk' = [disk EXCEPT ![current] = "damaged"]
          /\ \/ /\ Method[current] = "files"
                /\ opc' = "extract" /\ UNCHANGED <<remain, result>>
             \/ /\ Method[current] = "image"
                /\ opc' = "copy" /\ remain' = Blocks /\ UNCHANGED result
             \/ faulty /\ Return("false") /\ UNCHANGED remain
       \/ faulty /\ Return("false") /\ UNCHANGED <<disk, remain>>
    /\ UNCHANGED <<op, entry, nth, restoreFrame, archive, runVars>>

\* A digest that nobody checked may hide an archive that tar cannot extract.
FinishPartition ==
    /\ op = "restore"
    /\ \/ opc = "extract"
       \/ opc = "copy" /\ remain = 0
    /\ \/ /\ disk' = [disk EXCEPT ![current] =
                        IF archive[current] = "good" THEN "restored" ELSE "bad"]
          /\ Advance("restore", "restore")
          /\ UNCHANGED result
       \/ /\ opc = "extract"
          /\ faulty \/ archive[current] = "bad"
          /\ Return("false")
          /\ UNCHANGED <<disk, entry, nth>>
    /\ UNCHANGED <<op, remain, restoreFrame, archive, runVars>>

FinishRestore ==
    /\ opc = "restore" /\ entry > Len(List)
    /\ Return("true")
    /\ UNCHANGED <<opVars, restoreFrame, restoreVars, runVars>>

-----------------------------------------------------------------------------
BackupStep ==
    \/ ResetStop \/ MakeFolder \/ NextEntry \/ ForkTar \/ ReapTar
    \/ OpenImage \/ CopyBlock \/ FinishImage \/ MakeDigest
    \/ Clean_Backup_Folder

RestoreStep ==
    VerifyDigest \/ BeginPartition \/ FinishPartition \/ FinishRestore

ChildStep == ChildOpen \/ ChildExit

CancelGoesOn ==
    TestPid \/ KillTar \/ AwaitTar \/ RemoveFiles \/ RemoveFolder \/ ForgetPid

Next ==
    \/ StartBackup \/ StartRestore
    \/ BackupStep \/ RestoreStep
    \/ ChildStep
    \/ SetStop \/ CancelGoesOn

\* Every thread and the child are scheduled; nobody has to press a button.
Fairness ==
    /\ WF_vars(BackupStep \/ RestoreStep)
    /\ WF_vars(ChildStep)
    /\ WF_vars(CancelGoesOn)

Spec == Init /\ [][Next]_vars /\ Fairness
-----------------------------------------------------------------------------
(***************************************************************************)
(* Properties                                                              *)
(***************************************************************************)
\* The partitions an operation on the list is about.
Selected ==
    {List[i] : i \in 1..Len(List)} \cup
    UNION {{Sub[List[i]][k] : k \in 1..Len(Sub[List[i]])} : i \in 1..Len(List)}

\* Every variable has a value its thread can handle.
TypeOK ==
    /\ op \in {"backup", "restore"}
    /\ opc \in {"idle", "queued", "prepare", "entry", "part", "wait", "copy",
                "digest", "clean", "verify", "restore", "extract"}
    /\ entry \in 1..Len(List) + 1
    /\ opc \in {"part", "wait", "copy", "digest", "extract"} => entry <= Len(List)
    /\ entry <= Len(List) => nth \in 0..Len(Sub[Listed])
    /\ nth \in Nat
    /\ remain \in 0..Blocks
    /\ result \in {"none", "true", "false", "-1"}
    /\ cpc \in {"idle", "test", "kill", "await", "empty", "rmdir", "forget"}
    /\ stop_backup \in {0, 1} /\ {tar_fork_pid, hit, gone} \subseteq BOOLEAN
    /\ child \in {"none", "running", "writing", "succeeded", "failed"}
    /\ folder \in BOOLEAN
    /\ file \in [Part -> {"none", "partial", "whole"}]
    /\ sum \in [Part -> BOOLEAN]
    /\ unremoved \in BOOLEAN
    /\ archive \in [Part -> {"good", "bad"}]
    /\ disk \in [Part -> {"old", "damaged", "restored", "bad"}]
    /\ runs \in 0..MaxRuns
    /\ faulty \in BOOLEAN

\* A backup that returns true and was not cancelled left, for every partition
\* and subpartition of the list, a whole file and, if wanted, its digest;
\* cancels of earlier backups make no difference.
SuccessIsWhole ==
    /\ TypeOK
    /\ op = "backup" /\ result = "true" /\ ~hit =>
           \A p \in Selected : file[p] = "whole" /\ (UseDigest => sum[p])

\* A backup that returns false, and could remove what it meant to, left no image
\* and no digest in the folder, whatever the canceller was doing at the time
\* ("Cleaning Backup Folder"); of the archives only those in parts stay.
FailureIsClean ==
    op = "backup" /\ result = "false" /\ ~unremoved =>
        /\ sum = NoSums
        /\ \A p \in Part : file[p] # "none" => p \in Split

\* Every operation ends, and Cancel_Backup does not block the GUI thread for
\* ever: the pid it waits for is forgotten however the operation ends.
ThreadsEnd ==
    /\ (opc # "idle") ~> (opc = "idle")
    /\ (cpc # "idle") ~> (cpc = "idle")

\* The current archive is broken and its own digest was not checked: no digest
\* was, or it is a subpartition's.
BadUnchecked == archive[current] = "bad" /\ (UseDigest => nth # 0)

\* With storage that does not fail, a restore that stops half way, with a
\* partition destroyed, has one of two causes: an earlier backup was cancelled
\* and no other has been started since, or the archive it is at is broken and
\* its digest was not looked at.  A listed partition whose digest was checked is
\* never wiped in vain.
DamageHasCause ==
    (~faulty /\ op = "restore" /\ result = "false" /\ disk # [p \in Part |-> "old"])
        => (hit /\ stop_backup = 1) \/ BadUnchecked
=============================================================================
