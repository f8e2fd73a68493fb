------------------------------- MODULE Settings -------------------------------
(***************************************************************************)
(* DataManager (SourcePatches data.cpp): the recovery's variables, kept in *)
(* constants, persistent values and plain data behind one mutex, and the   *)
(* settings file of the persistent ones.  The GUI thread and the operation *)
(* thread call it.  A new storage path makes SetBackupFolder derive the    *)
(* backup folder and the zip folder from it, outside the mutex.  InfoManager *)
(* and the partitions are external; the device id and the values that the  *)
(* build fixes are constants without a story and left out.                 *)
(***************************************************************************)
EXTENDS Naturals, FiniteSets

CONSTANTS
    Thread,     \* threads that use DataManager
    Storage,    \* storages that the user may choose
    Internal,   \* the default one, Get_Default_Storage_Partition
    Known,      \* storages that have a partition
    Language,   \* values of a setting nothing depends on
    English,    \* its default
    NoValue,    \* no value, and no storage
    MaxCalls    \* bound: calls into DataManager

ASSUME SettingsAssumption ==
    /\ Internal \in Known /\ Known \subseteq Storage
    /\ English \in Language
    /\ NoValue \notin Storage \cup Language \cup Thread

VARIABLES
    mPersist,  \* persistent values: storage, zip and language
    backups,   \* tw_backups_folder in mData: the storage its path starts with
    lock,      \* holder of m_valuesLock between two steps
    doing,     \* what each thread does, its str, and for a save: cut, the storage was
               \* not there throughout, and real, its file is on the storage
    backing,   \* mBackingFile is set
    unlocked,  \* the settings storage can be mounted
    mounted,   \* it is
    disk,      \* the settings file on it, Name -> value, {} as domain: none
    stable,    \* what of it has reached the medium and outlives a power cut
    ram,       \* the settings file in the ramdisk below its mount point
    flushed,   \* history: what the last save to the storage left there, NoValue since one
               \* that failed half way or was lost with the power
    synced,    \* history: the storage was synced or unmounted since that save ended
    raced,     \* two threads changed the storage path at a time
    calls

settingsVars == <<mPersist, backups, lock, doing, backing, unlocked, mounted, disk, stable,
                 ram, flushed, synced, raced, calls>>
copies == <<disk, stable, ram, flushed, synced>>
place == <<backing, unlocked, mounted>>

Name == {"storage", "zip", "language"}
Empty == [n \in {} |-> NoValue]
Idle == [at |-> "idle", str |-> NoValue, cut |-> FALSE, real |-> FALSE]
At(t, place_) == doing[t].at = place_
Free == lock = NoValue
Goto(t, to) == doing' = [doing EXCEPT ![t].at = to]
Return(t) == doing' = [doing EXCEPT ![t] = Idle]

(* GetStrValue of a persistent value.                                      *)
Get(n) == mPersist[n]

-----------------------------------------------------------------------------
(* The values SetDefaultValues gives, under the mutex.                     *)
Defaults == [n \in Name |-> IF n = "language" THEN English ELSE Internal]

SettingsInit ==
    /\ mPersist = Defaults
    /\ backups = Internal
    /\ lock = NoValue
    /\ doing = [t \in Thread |-> Idle]
    /\ backing = FALSE
    /\ unlocked \in BOOLEAN
    /\ mounted = FALSE
    /\ disk = Empty /\ stable = Empty /\ ram = Empty
    /\ flushed = NoValue /\ synced = FALSE
    /\ raced = FALSE
    /\ calls = 0

Call(t) ==
    /\ At(t, "idle")
    /\ calls < MaxCalls
    /\ calls' = calls + 1

(* A change of the storage path while another thread's is under way.       *)
Race(t) == raced' = (raced \/ \E u \in Thread \ {t} : ~ At(u, "idle"))

(* SetValue: the value goes to the store that has its name; a new storage  *)
(* path has the folders follow.                                            *)
SetLanguage(t, v) ==
    /\ Call(t) /\ Free
    /\ mPersist' = [mPersist EXCEPT !["language"] = v]
    /\ UNCHANGED <<backups, lock, doing, place, copies, raced>>

SetStoragePath(t, s, to) ==
    /\ Free
    /\ mPersist' = [mPersist EXCEPT !["storage"] = s]
    /\ Goto(t, to)
    /\ Race(t)

ChooseStorage(t, s) ==
    /\ Call(t)
    /\ SetStoragePath(t, s, "folder")
    /\ UNCHANGED <<backups, lock, place, copies>>

(* SetBackupFolder: three calls, each with the mutex for itself.           *)
ReadStorage(t) ==
    /\ At(t, "folder") /\ Free
    /\ doing' = [doing EXCEPT ![t] = [@ EXCEPT !.at = "backups", !.str = Get("storage")]]
    /\ UNCHANGED <<mPersist, backups, lock, place, copies, raced, calls>>

SetBackups(t) ==
    /\ At(t, "backups") /\ Free
    /\ backups' = doing[t].str
    /\ IF doing[t].str \in Known THEN Goto(t, "zip") ELSE Return(t)
    /\ UNCHANGED <<mPersist, lock, place, copies, raced, calls>>

(* The folder of zip files moves to the storage when it is on another one. *)
SetZip(t) ==
    /\ At(t, "zip") /\ Free
    /\ mPersist' = [mPersist EXCEPT !["zip"] = doing[t].str]
    /\ Return(t)
    /\ UNCHANGED <<backups, lock, place, copies, raced, calls>>

-----------------------------------------------------------------------------
(* ResetDefaults clears the stores and gives up the mutex before           *)
(* SetDefaultValues takes it again.                                        *)
ResetDefaults(t) ==
    /\ Call(t) /\ Free
    /\ mPersist' = [n \in Name |-> NoValue]
    /\ backups' = NoValue
    /\ Goto(t, "defaults")
    /\ Race(t)
    /\ UNCHANGED <<lock, place, copies>>

SetDefaultValues(t) ==
    /\ At(t, "defaults") /\ Free
    /\ mPersist' = Defaults
    /\ backups' = Internal
    /\ Return(t)
    /\ UNCHANGED <<lock, place, copies, raced, calls>>

-----------------------------------------------------------------------------
(* The settings file: on the storage when that is mounted, otherwise in    *)
(* the ramdisk.                                                            *)
File == IF mounted THEN disk ELSE ram

(* A mount works exactly when the storage is decrypted.                    *)
MountSettings == mounted' = (mounted \/ unlocked)

(* ReadSettingsFile: mount, then LoadValues; a storage that cannot be      *)
(* mounted is reported and the file looked for all the same.               *)
ReadSettingsFile(t) ==
    /\ Call(t)
    /\ MountSettings
    /\ backing' = TRUE
    /\ Goto(t, "load")
    /\ UNCHANGED <<mPersist, backups, lock, unlocked, copies, raced>>

(* mPersist.LoadValues: what the file has replaces what is there.          *)
LoadValues(t) ==
    /\ At(t, "load") /\ Free
    /\ mPersist' = [n \in Name |-> IF n \in DOMAIN File THEN File[n] ELSE mPersist[n]]
    /\ Goto(t, "current")
    /\ Race(t)
    /\ UNCHANGED <<backups, lock, place, copies, calls>>

(* Mutant of CheckStorage: nothing is derived from the path of the file.   *)
CheckNothing(t) ==
    /\ At(t, "current") /\ Free
    /\ IF Get("storage") \notin Known THEN SetStoragePath(t, Internal, "folder")
       ELSE Return(t) /\ UNCHANGED <<mPersist, raced>>
    /\ UNCHANGED <<backups, lock, place, copies, calls>>

(* The end of LoadValues: a path without a partition is replaced by the    *)
(* default storage when that can be mounted, the folders follow.           *)
CheckStorage(t) ==
    /\ At(t, "current") /\ Free
    /\ IF Get("storage") \notin Known /\ unlocked THEN SetStoragePath(t, Internal, "folder")
       ELSE Goto(t, "folder") /\ UNCHANGED <<mPersist, raced>>
    /\ UNCHANGED <<backups, lock, place, copies, calls>>

(* Mutant of SaveValues: the storage is not mounted first.                 *)
SaveUnmounted(t) ==
    /\ Call(t) /\ backing
    /\ doing' = [doing EXCEPT ![t] = [@ EXCEPT !.at = "save", !.cut = ~ unlocked]]
    /\ UNCHANGED <<mPersist, backups, lock, place, copies, raced>>

(* SaveValues, which Flush calls: nothing without a backing file.          *)
SaveValues(t) ==
    /\ Call(t) /\ backing
    /\ MountSettings
    /\ doing' = [doing EXCEPT ![t] = [@ EXCEPT !.at = "save", !.cut = ~ unlocked]]
    /\ UNCHANGED <<mPersist, backups, lock, backing, unlocked, copies, raced>>

(* InfoManager cannot open the file: SaveValues does not look at its answer.*)
SaveFails(t) ==
    /\ At(t, "save") /\ Free
    /\ Return(t)
    /\ UNCHANGED <<mPersist, backups, lock, place, copies, raced, calls>>

(* InfoManager writes the file anew under the mutex: for a while it is a   *)
(* part of it.                                                             *)
WriteFile(t) ==
    /\ At(t, "save") /\ Free
    /\ lock' = t
    /\ \E part \in SUBSET Name :
          LET torn == [n \in part |-> mPersist[n]] IN
          IF mounted THEN disk' = torn /\ flushed' = NoValue /\ UNCHANGED ram
          ELSE ram' = torn /\ UNCHANGED <<disk, flushed>>
    /\ doing' = [doing EXCEPT ![t] = [@ EXCEPT !.at = "written", !.real = mounted]]
    /\ UNCHANGED <<mPersist, backups, place, stable, synced, raced, calls>>

(* The rest of it, or, when a write failed, no more of it; the thread takes*)
(* both for a save.  Nothing is synced.                                    *)
FinishFile(t, ok) ==
    /\ At(t, "written")
    /\ lock' = NoValue
    /\ IF ok THEN IF doing[t].real THEN disk' = mPersist /\ UNCHANGED ram
                                   ELSE ram' = mPersist /\ UNCHANGED disk
             ELSE UNCHANGED <<disk, ram>>
    /\ IF ok /\ ~ doing[t].cut THEN flushed' = mPersist /\ synced' = FALSE
                               ELSE UNCHANGED <<flushed, synced>>
    /\ Return(t)
    /\ UNCHANGED <<mPersist, backups, place, stable, raced, calls>>

(* The file system writes back what it holds: a sync somewhere, as that of *)
(* Output_Version, or of its own accord.                                   *)
WriteBack ==
    /\ mounted /\ stable # disk
    /\ stable' = disk /\ synced' = TRUE
    /\ UNCHANGED <<mPersist, backups, lock, doing, place, disk, ram, flushed, raced, calls>>

-----------------------------------------------------------------------------
(* Post_Decrypt: the storage is there from now on, LoadTWRPFolderInfo      *)
(* names the settings file, and the default storage is chosen.             *)
PostDecrypt(t) ==
    /\ Call(t) /\ ~ unlocked
    /\ unlocked' = TRUE /\ mounted' = TRUE
    /\ backing' = TRUE
    /\ SetStoragePath(t, Internal, "folder")
    /\ UNCHANGED <<backups, lock, copies>>

(* The storage is unmounted by an operation; not in the middle of a save,  *)
(* which holds an open file, but possibly between its mount and its write. *)
Unmount ==
    /\ mounted /\ Free
    /\ mounted' = FALSE
    /\ stable' = disk /\ synced' = TRUE
    /\ doing' = [t \in Thread |-> IF At(t, "save") THEN [doing[t] EXCEPT !.cut = TRUE] ELSE doing[t]]
    /\ UNCHANGED <<mPersist, backups, lock, backing, unlocked, disk, ram, flushed, raced, calls>>

(* Power off at any moment, with what was not written back; the device     *)
(* comes up locked or not.                                                 *)
Reboot ==
    /\ mPersist' = Defaults
    /\ backups' = Internal
    /\ lock' = NoValue
    /\ doing' = [t \in Thread |-> Idle]
    /\ backing' = FALSE
    /\ unlocked' \in BOOLEAN
    /\ mounted' = FALSE
    /\ disk' = stable /\ ram' = Empty
    /\ flushed' = IF synced THEN flushed ELSE NoValue
    /\ raced' = FALSE
    /\ UNCHANGED <<stable, synced, calls>>

SettingsStep(t) ==
    \/ ReadStorage(t) \/ SetBackups(t) \/ SetZip(t)
    \/ SetDefaultValues(t)
    \/ LoadValues(t) \/ CheckStorage(t)
    \/ SaveFails(t) \/ WriteFile(t)
    \/ \E ok \in BOOLEAN : FinishFile(t, ok)

SettingsNext ==
    \/ \E t \in Thread :
          \/ \E v \in Language : SetLanguage(t, v)
          \/ \E s \in Storage : ChooseStorage(t, s)
          \/ ResetDefaults(t) \/ ReadSettingsFile(t) \/ SaveValues(t) \/ PostDecrypt(t)
          \/ SettingsStep(t)
    \/ WriteBack \/ Unmount
    \/ Reboot

SettingsSpec == SettingsInit /\ [][SettingsNext]_settingsVars

-----------------------------------------------------------------------------
(* Properties.                                                             *)

(* Every variable keeps to its type, and only a save keeps the mutex.      *)
SettingsTypeOK ==
    /\ mPersist \in [Name -> Storage \cup Language \cup {NoValue}]
    /\ backups \in Storage \cup {NoValue}
    /\ lock \in Thread \cup {NoValue}
    /\ \A t \in Thread : lock = t <=> At(t, "written")
    /\ {backing, unlocked, mounted, synced, raced} \subseteq BOOLEAN
    /\ \A file \in {disk, stable, ram} : DOMAIN file \subseteq Name

(* When no call is under way the backup folder is on the chosen storage,   *)
(* whichever way that was chosen: by the user, by the file, by the         *)
(* defaults or after decryption; and so is the zip folder when the storage *)
(* exists.  Two overlapping changes of the path are excepted: their        *)
(* SetBackupFolder calls may write in either order.                        *)
FoldersFollow ==
    /\ SettingsTypeOK
    /\ ((\A t \in Thread : At(t, "idle")) /\ ~ raced)
           => /\ backups = Get("storage")
              /\ Get("storage") \in Known => Get("zip") = Get("storage")

(* What the last save that got through left on the storage is what the     *)
(* next reading of the settings from there brings back, however many       *)
(* reboots and unmounts come between, and whatever was saved to the ramdisk*)
(* or failed to open the file meanwhile.  SaveValues promises no more: a   *)
(* save may fail half way and be taken for one, and nothing syncs it, so   *)
(* that a power cut takes it back until the storage is synced or unmounted;*)
(* nor does a save count whose storage another thread unmounted.           *)
FlushedComesBack ==
    [][ \A t \in Thread : (LoadValues(t) /\ mounted /\ flushed # NoValue)
            => mPersist' = flushed ]_settingsVars

=============================================================================
