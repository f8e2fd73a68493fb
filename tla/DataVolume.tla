------------------------------ MODULE DataVolume ------------------------------
(***************************************************************************)
(* The data partition: start-up (Setup_Fstab_Partitions with               *)
(* Setup_Data_Partition and Decrypt_Data), Decrypt_Device, Mount, UnMount, *)
(* factory reset and Format Data.  What the flags of its TWPartition say   *)
(* is set against the disk, the metadata key, the mapped device of the     *)
(* metadata encryption and the fscrypt keys the kernel holds, which it     *)
(* drops with the mount.  Power may go off at any step; init starts a      *)
(* recovery that ended again, on top of its properties and its mapping.    *)
(* Both overlays are covered, branch says which one was built; block       *)
(* encryption (FDE), which only 12.1 has, is left out.                     *)
(***************************************************************************)
EXTENDS Naturals, Sequences, SequencesExt

CONSTANTS
    User_Ids,   \* the Android users of the device, a sequence in the order of their ids
    Attempts,   \* metadata_decrypt_attempts of a 14.1 build (25)
    MaxCalls    \* bound: operations after a start

Users == Range(User_Ids)

ASSUME DataVolumeAssumption ==
    /\ User_Ids \in Seq(Nat) /\ 0 \in Users
    /\ Attempts \in Nat \ {0}
    /\ MaxCalls \in Nat

VARIABLES
    branch,     \* the overlay: "12.1" or "14.1"
    metadata,   \* Key_Directory is not empty: metadata encryption
    disk,       \* "keyed" under the metadata key, "fbe" without one: Android's;
                \* "plain": formatted; "torn": a format did not end
    media,      \* the user's files below /data/media exist
    keydir,     \* the metadata key exists
    unencrypted,\* /data/unencrypted with the device keys exists
    dm,         \* the mapped device userdata exists
    prop,       \* ro.crypto.fs_crypto_blkdev is set
    mounted,    \* what is mounted on /data: "none", "raw" or "dm"
    de, ce,     \* fscrypt keys of the mount: device keys, users' keys
    decrypt,    \* property twrp.user.N.decrypt, "unset", "0" or "1"
    dat,        \* the TWPartition of /data
    vals,       \* DataManager: tw_is_encrypted, tw_is_fbe, pwtype, all_users
    Users_List,
    erased,     \* history: what this recovery wiped file by file and did not format since
    pc, attempt, asked, ret, calls

disk_vars == <<branch, metadata, disk, media, keydir, unencrypted>>
kernel_vars == <<dm, prop, mounted, de, ce, decrypt>>
recovery_vars == <<dat, vals, Users_List, erased>>
thread_vars == <<pc, attempt, asked, ret, calls>>
vars == <<disk_vars, kernel_vars, recovery_vars, thread_vars>>

Goto(step) == pc' = step
Return(op, ok) == pc' = "idle" /\ ret' = [op |-> op, ok |-> ok]

(* The block device Find_Actual_Block_Device picks.                        *)
Actual_Block_Device ==
    IF dat.Is_Decrypted /\ dat.Decrypted_Block_Device = "dm" THEN "dm" ELSE "raw"

Is_Present == Actual_Block_Device = "dm" => dm

(* mount(2) succeeds on a device with a file system that nothing holds.    *)
Mountable ==
    IF Actual_Block_Device = "dm" THEN dm /\ disk = "keyed"
                                  ELSE ~dm /\ disk \in {"fbe", "plain"}

(* /data/unencrypted/key/version of a mounted volume.                      *)
Encrypted == disk \in {"keyed", "fbe"} /\ unencrypted

-----------------------------------------------------------------------------
NewDat == [Is_Encrypted |-> FALSE, Is_Decrypted |-> FALSE,
           Decrypted_Block_Device |-> "", Is_FBE |-> FALSE,
           Has_Data_Media |-> FALSE, excluded |-> FALSE]
NewVals == [encrypted |-> 0, fbe |-> 0, pwtype |-> 0, all_users |-> 0]
NoCall == [op |-> "none", ok |-> FALSE]

NewProcess ==
    /\ dat' = NewDat /\ vals' = NewVals /\ Users_List' = <<>> /\ erased' = {}
    /\ pc' = "start" /\ attempt' = 0 /\ asked' = 0 /\ ret' = NoCall /\ calls' = 0

Init ==
    /\ branch \in {"12.1", "14.1"} /\ metadata \in BOOLEAN
    /\ disk = IF metadata THEN "keyed" ELSE "fbe"
    /\ media = TRUE /\ keydir = metadata /\ unencrypted = TRUE
    /\ dm = FALSE /\ prop = FALSE /\ mounted = "none"
    /\ de = FALSE /\ ce = {} /\ decrypt = [u \in Users |-> "unset"]
    /\ dat = NewDat /\ vals = NewVals /\ Users_List = <<>> /\ erased = {}
    /\ pc = "start" /\ attempt = 0 /\ asked = 0 /\ ret = NoCall /\ calls = 0

(* Power off, at any step, and the next start of the recovery.             *)
Reboot ==
    /\ dm' = FALSE /\ prop' = FALSE /\ mounted' = "none"
    /\ de' = FALSE /\ ce' = {} /\ decrypt' = [u \in Users |-> "unset"]
    /\ NewProcess
    /\ UNCHANGED disk_vars

(* init starts a recovery that ended: the kernel's state is still there.   *)
Restart ==
    /\ NewProcess
    /\ UNCHANGED <<disk_vars, kernel_vars>>

-----------------------------------------------------------------------------
(* umount drops the keys of the file system; it fails while files are open.*)
UnMounted ==
    mounted' = "none" /\ de' = FALSE /\ ce' = {}

UnMount(ok) ==
    IF ok THEN UnMounted ELSE mounted # "none" /\ UNCHANGED <<mounted, de, ce>>

(* TWPartition::Mount; the 12.1 overlay reloads the device keys after it.  *)
Mount(ok) ==
    IF mounted # "none" THEN ok /\ UNCHANGED <<mounted, de>>
    ELSE IF ok
    THEN /\ Mountable
         /\ mounted' = Actual_Block_Device
         /\ IF branch = "12.1" /\ Encrypted THEN de' \in BOOLEAN ELSE de' = FALSE
    ELSE UNCHANGED <<mounted, de>>

(* Setup_Data_Partition begins by unmounting /data.                        *)
Start ==
    /\ pc = "start"
    /\ \E ok \in BOOLEAN : UnMount(ok)
    /\ Goto("setup")
    /\ UNCHANGED <<disk_vars, dm, prop, decrypt, recovery_vars, attempt, asked, ret, calls>>

(* Set_FBE_Status, which tells by the key directory.                       *)
FBE_Status(d) == [d EXCEPT !.Is_Encrypted = TRUE, !.Is_Decrypted = TRUE, !.Is_FBE = metadata]
FBE_Value == IF metadata THEN 1 ELSE 0

(* Setup_Data_Partition, the device already mapped by an earlier recovery. *)
SetupMapped ==
    /\ pc = "setup" /\ prop
    /\ dat' = [FBE_Status(dat) EXCEPT !.Decrypted_Block_Device = "dm"]
    /\ vals' = [vals EXCEPT !.fbe = FBE_Value]
    /\ Goto("media")
    /\ UNCHANGED <<disk_vars, kernel_vars, Users_List, erased, attempt, asked, ret, calls>>

(* Setup_Data_Partition, the device not mapped: does it mount as it is?    *)
SetupPlain(ok) ==
    /\ pc = "setup" /\ ~prop
    /\ Mount(ok)
    /\ IF ok
       THEN /\ dat' = FBE_Status(dat)
            /\ vals' = [vals EXCEPT !.fbe = FBE_Value]
            /\ Goto("setup_de")
       ELSE /\ dat' = [dat EXCEPT !.Is_Encrypted = metadata, !.Is_Decrypted = FALSE]
            /\ Goto("media")
            /\ UNCHANGED vals
    /\ UNCHANGED <<disk_vars, dm, prop, ce, decrypt, Users_List, erased, attempt, asked, ret, calls>>

(* Check_Users_Decryption_Status over a list of users.                     *)
AllDecrypted(list) == \A i \in DOMAIN list : list[i].isDecrypted
Status(v, list) == [v EXCEPT !.all_users = IF AllDecrypted(list) THEN 1 ELSE 0]

(* Parse_Users appends a user for each property that is set.               *)
Parse_Users(props) ==
    Users_List \o [i \in DOMAIN User_Ids |->
        [userId |-> User_Ids[i], isDecrypted |-> props[User_Ids[i]] = "1"]]

(* Decrypt_FBE_DE on the mounted volume: it takes the keys' files out of   *)
(* every wipe and loads the device keys.  Decrypt_DE, which the keystore   *)
(* library does, sets the property of each user it finds.                  *)
Decrypt_FBE_DE(ok) ==
    IF ok
    THEN LET props == [u \in Users |-> IF decrypt[u] = "unset" THEN "0" ELSE decrypt[u]]
         IN  /\ Encrypted
             /\ de' = TRUE
             /\ decrypt' = props
             /\ Users_List' = Parse_Users(props)
             /\ dat' = [dat EXCEPT !.Is_FBE = TRUE, !.Is_Encrypted = TRUE,
                                   !.Is_Decrypted = FALSE, !.excluded = TRUE]
             /\ \E type \in {0, 1} :
                    vals' = Status([vals EXCEPT !.fbe = 1, !.encrypted = 1, !.pwtype = type],
                                   Users_List')
    ELSE /\ dat' = [dat EXCEPT !.Is_FBE = @ \/ Encrypted, !.excluded = @ \/ Encrypted]
         /\ vals' = [vals EXCEPT !.fbe = 0]
         /\ UNCHANGED <<de, decrypt, Users_List>>

SetupDE(ok) ==
    /\ pc = "setup_de"
    /\ Decrypt_FBE_DE(ok)
    /\ Goto("media")
    /\ UNCHANGED <<disk_vars, dm, prop, mounted, ce, erased, attempt, asked, ret, calls>>

(* Setup_Data_Media: /data is mounted for a look at media/0 and, when that *)
(* is there, unmounted again.                                              *)
SetupMedia(ok) ==
    /\ pc = "media"
    /\ \/ /\ ok /\ disk # "plain" /\ media
          /\ mounted # "none" \/ Mountable
          /\ UnMounted
       \/ ok /\ (disk = "plain" \/ ~media) /\ Mount(TRUE) /\ UNCHANGED ce
       \/ ~ok /\ UNCHANGED <<mounted, de, ce>>
    /\ dat' = [dat EXCEPT !.Has_Data_Media = TRUE]
    /\ Goto("decrypt")
    /\ UNCHANGED <<disk_vars, dm, prop, decrypt, vals, Users_List, erased, attempt, asked, ret, calls>>

-----------------------------------------------------------------------------
(* Setup_Fstab_Partitions goes on to Decrypt_Data: whatever was found, the *)
(* data are taken to be encrypted.                                         *)
Decrypt_Data ==
    /\ pc = "decrypt"
    /\ vals' = [vals EXCEPT !.encrypted = 1]
    /\ Goto(IF ~dat.Is_Encrypted \/ dat.Is_Decrypted THEN "idle"
            ELSE IF metadata THEN "metadata" ELSE "default")
    /\ attempt' = 1
    /\ UNCHANGED <<disk_vars, kernel_vars, dat, Users_List, erased, asked, ret, calls>>

(* Mutant of MetadataDecrypt: the attempts are not counted.                *)
MetadataForEver(ok) ==
    /\ pc = "metadata" /\ ~ok
    /\ Goto("metadata")
    /\ UNCHANGED <<disk_vars, kernel_vars, recovery_vars, attempt, asked, ret, calls>>

(* read_key: it creates the directory it then looks for, and a key is      *)
(* never generated here.                                                   *)
ReadKey == keydir

(* create_crypto_blk_dev: the mapper refuses a name that is taken.         *)
CreateDevice == ~dm

(* fscrypt_mount_metadata_encrypted.  Either step may fail for reasons of  *)
(* its own, as Trusty not having started.                                  *)
MetadataDecrypt(ok) ==
    /\ pc = "metadata"
    /\ IF ok
       THEN /\ ReadKey /\ CreateDevice
            /\ dm' = TRUE /\ prop' = TRUE
            /\ dat' = [dat EXCEPT !.Decrypted_Block_Device = "dm", !.Is_Decrypted = TRUE]
            /\ Goto("mapped")
            /\ UNCHANGED attempt
       ELSE /\ IF branch = "14.1" /\ attempt < Attempts
               THEN attempt' = attempt + 1 /\ Goto("metadata")
               ELSE Goto("default") /\ UNCHANGED attempt
            /\ UNCHANGED <<dm, prop, dat>>
    /\ UNCHANGED <<disk_vars, mounted, de, ce, decrypt, vals, Users_List, erased, asked, ret, calls>>

(* Decrypt_Data mounts the mapped device, with retries.                    *)
MountMapped(ok) ==
    /\ pc = "mapped"
    /\ Mount(ok)
    /\ Goto(IF ok THEN "mapped_de" ELSE "default")
    /\ UNCHANGED <<disk_vars, dm, prop, ce, decrypt, recovery_vars, attempt, asked, ret, calls>>

MappedDE(ok) ==
    /\ pc = "mapped_de"
    /\ Decrypt_FBE_DE(ok)
    /\ Goto("default")
    /\ UNCHANGED <<disk_vars, dm, prop, mounted, ce, erased, attempt, asked, ret, calls>>

(* Decrypt_Data tries the default password when there is no other.         *)
DefaultPassword ==
    /\ pc = "default"
    /\ IF dat.Is_FBE /\ vals.pwtype = 0 THEN pc' = "auto" ELSE pc' = "idle"
    /\ asked' = 0
    /\ UNCHANGED <<disk_vars, kernel_vars, recovery_vars, attempt, ret, calls>>

-----------------------------------------------------------------------------
(* An operation of the GUI, one at a time.                                 *)
Call ==
    /\ pc = "idle"
    /\ calls < MaxCalls
    /\ calls' = calls + 1

AskUser ==
    /\ Call
    /\ \E u \in Users : asked' = u
    /\ Goto("ask")
    /\ UNCHANGED <<disk_vars, kernel_vars, recovery_vars, attempt, ret>>

(* Mutant: Decrypt_Data clears tw_is_encrypted whatever comes back.        *)
ReturnsDecrypted(v, code) ==
    Return("decrypt", code) /\ vals' = [v EXCEPT !.encrypted = IF pc = "auto_user" THEN 0 ELSE @]

(* Decrypt_Device returns; Decrypt_Data clears tw_is_encrypted at success. *)
DecryptReturns(v, code) ==
    /\ Return("decrypt", code)
    /\ vals' = IF code /\ pc \in {"auto", "auto_user"} THEN [v EXCEPT !.encrypted = 0] ELSE v

(* Decrypt_Device: nothing to do without FBE, then /data must mount.       *)
Decrypt_Device(ok) ==
    /\ pc \in {"ask", "auto"}
    /\ IF vals.fbe = 0 THEN ~ok /\ UNCHANGED <<mounted, de>> ELSE Mount(ok)
    /\ IF ok THEN Goto(IF pc = "auto" THEN "auto_user" ELSE "user") /\ UNCHANGED <<vals, ret>>
             ELSE DecryptReturns(vals, FALSE)
    /\ UNCHANGED <<disk_vars, dm, prop, ce, decrypt, dat, Users_List, erased, attempt, asked, calls>>

Need(u) == \E i \in DOMAIN Users_List : Users_List[i].userId = u /\ ~Users_List[i].isDecrypted

(* Decrypt_Device finds no such user, or one that needs no decryption.     *)
NoNeed ==
    /\ pc \in {"user", "auto_user"}
    /\ ~Need(asked)
    /\ DecryptReturns(vals, TRUE)
    /\ UNCHANGED <<disk_vars, kernel_vars, dat, Users_List, erased, attempt, asked, calls>>

(* Mark_User_Decrypted marks the first entry of each user.                 *)
MarkAll(list, us) ==
    [i \in DOMAIN list |->
        IF list[i].userId \in us /\ \A k \in 1 .. i - 1 : list[k].userId # list[i].userId
        THEN [list[i] EXCEPT !.isDecrypted = TRUE] ELSE list[i]]

(* The users Decrypt_User opens with this password: the one asked for and, *)
(* after user 0, all others that the same or no password opens.  It reads  *)
(* their synthetic passwords, which are encrypted with the device keys.    *)
Opens(us) ==
    /\ de /\ Encrypted
    /\ asked \in us
    /\ us \subseteq IF asked = 0 THEN {u \in Users : Need(u)} ELSE {asked}

(* Mutant: it leaves the flag that Decrypt_FBE_DE cleared.                 *)
PostDecryptUnset(d) == d

(* Post_Decrypt, after user 0.                                             *)
Post_Decrypt(d) == [d EXCEPT !.Is_Decrypted = TRUE]

DecryptUser(us) ==
    /\ pc \in {"user", "auto_user"}
    /\ Need(asked)
    /\ Opens(us)
    /\ ce' = ce \cup us
    /\ Users_List' = MarkAll(Users_List, us)
    /\ decrypt' = [u \in Users |-> IF u \in us THEN "1" ELSE decrypt[u]]
    /\ dat' = IF asked = 0 THEN Post_Decrypt(dat) ELSE dat
    /\ DecryptReturns(Status(vals, Users_List'), TRUE)
    /\ UNCHANGED <<disk_vars, dm, prop, mounted, de, erased, attempt, asked, calls>>

WrongPassword ==
    /\ pc \in {"user", "auto_user"}
    /\ Need(asked)
    /\ DecryptReturns(vals, FALSE)
    /\ UNCHANGED <<disk_vars, kernel_vars, dat, Users_List, erased, attempt, asked, calls>>

(* Mount_By_Path and UnMount_By_Path for the mount page.                   *)
MountPage(ok) ==
    /\ Call
    /\ Mount(ok)
    /\ ret' = [op |-> "mount", ok |-> ok]
    /\ UNCHANGED <<disk_vars, dm, prop, ce, decrypt, recovery_vars, pc, attempt, asked>>

UnMountPage(ok) ==
    /\ Call
    /\ UnMount(ok)
    /\ ret' = [op |-> "unmount", ok |-> ok]
    /\ UNCHANGED <<disk_vars, dm, prop, decrypt, recovery_vars, pc, attempt, asked>>

(* Repair and Resize unmount the device and leave it unmounted.            *)
Repair(ok) ==
    /\ Call
    /\ Is_Present
    /\ UnMount(ok)
    /\ ret' = [op |-> "repair", ok |-> ok]
    /\ UNCHANGED <<disk_vars, dm, prop, decrypt, recovery_vars, pc, attempt, asked>>

-----------------------------------------------------------------------------
(* Wipe of a partition of the file system it has: around /data/media.      *)
KeepsMedia == dat.Has_Data_Media

(* Wipe_Data_Without_Wiping_Media erases file by file what is not excluded;*)
(* it may end early, and a file that cannot be unlinked is only logged.    *)
EraseAroundMedia(ok) ==
    /\ \E there \in BOOLEAN : (ok => there) /\ Mount(there)
    /\ unencrypted' \in {unencrypted} \cup
          IF mounted' # "none" /\ ~dat.excluded THEN {FALSE} ELSE {}
    /\ UNCHANGED <<media, disk, ce, erased>>

(* Wipe_RMRF, which a setting, a flag of the fstab or a missing tool asks  *)
(* for: whatever removeDir leaves, it has succeeded.                       *)
Wipe_RMRF ==
    /\ Mount(TRUE)
    /\ media' \in {media, FALSE} /\ unencrypted' \in {unencrypted, FALSE}
    /\ erased' = erased \cup {"data"}
    /\ UNCHANGED <<disk, ce>>

(* Factory_Reset: Wipe keeps the media, or makes a file system of its own, *)
(* or does with rm -rf.                                                    *)
Factory_Reset(ok) ==
    /\ Call
    /\ IF KeepsMedia
       THEN EraseAroundMedia(ok)
       ELSE \/ /\ ok /\ Is_Present
               /\ UnMounted
               /\ media' = FALSE /\ unencrypted' = FALSE
               /\ disk' = IF Actual_Block_Device = "dm" THEN disk ELSE "plain"
               /\ UNCHANGED erased
            \/ ok /\ Wipe_RMRF
    /\ Return("reset", ok)
    /\ UNCHANGED <<branch, metadata, keydir, dm, prop, decrypt, dat, vals, Users_List, attempt, asked>>

(* Format_Data enters Wipe_Encryption, which unmounts; the 12.1 overlay    *)
(* deletes the mapped device and goes on when it cannot.                   *)
Wipe_Encryption(ok) ==
    /\ Call
    /\ IF Is_Present THEN UnMount(ok) ELSE ~ok /\ UNCHANGED <<mounted, de, ce>>
    /\ IF ok
       THEN /\ IF branch = "12.1" /\ Actual_Block_Device = "dm" THEN dm' \in {dm, FALSE}
                                                              ELSE dm' = dm
            /\ dat' = [dat EXCEPT !.Has_Data_Media = FALSE, !.Decrypted_Block_Device = "",
                                  !.Is_Decrypted = FALSE, !.Is_Encrypted = FALSE]
            /\ Goto("mkfs")
            /\ UNCHANGED ret
       ELSE Return("format", FALSE) /\ UNCHANGED <<dm, dat>>
    /\ UNCHANGED <<disk_vars, prop, decrypt, vals, Users_List, erased, attempt, asked>>

(* Wipe makes a file system on the partition: the tool works on it, ...    *)
Mkfs ==
    /\ pc = "mkfs"
    /\ disk' = "torn" /\ media' = FALSE /\ unencrypted' = FALSE
    /\ erased' = erased \ {"data"}
    /\ Goto("mkfs_runs")
    /\ UNCHANGED <<branch, metadata, keydir, kernel_vars, dat, vals, Users_List, attempt, asked,
                   ret, calls>>

(* Mutant: the flag is put back only when the format succeeds.             *)
ForgetMedia(d) == IF pc = "mkfs_runs" THEN [d EXCEPT !.Has_Data_Media = TRUE] ELSE d

RestoreMedia(d) == [d EXCEPT !.Has_Data_Media = TRUE]

(* ... or fails, at once or half way.                                      *)
MkfsFails(ok) ==
    /\ pc \in {"mkfs", "mkfs_runs"}
    /\ dat' = RestoreMedia(dat)
    /\ Mount(ok)
    /\ Return("format", FALSE)
    /\ UNCHANGED <<disk_vars, dm, prop, ce, decrypt, vals, Users_List, erased, attempt, asked, calls>>

(* The file system is made, and mounted unless the mapping still holds it. *)
Formatted ==
    /\ dat' = RestoreMedia(dat)
    /\ vals' = [vals EXCEPT !.encrypted = 0]
    /\ IF metadata THEN Goto("wipekeys") /\ UNCHANGED ret ELSE Return("format", TRUE)
    /\ UNCHANGED <<branch, metadata, keydir, dm, prop, decrypt, Users_List, attempt, asked, calls>>

MkfsEnds ==
    /\ pc = "mkfs_runs"
    /\ disk' = "plain"
    /\ mounted' \in IF dm THEN {"none"} ELSE {"none", "raw"}
    /\ Formatted
    /\ UNCHANGED <<media, unencrypted, de, ce, erased>>

(* Wipe has no tool for the file system, or shall not use it.              *)
FormatByRemoving ==
    /\ pc = "mkfs"
    /\ Wipe_RMRF
    /\ Formatted

(* Mutant: the format has succeeded, whatever becomes of the key.          *)
WipeKeysAnyway(ok) ==
    /\ pc = "wipekeys"
    /\ keydir' = IF ok THEN FALSE ELSE keydir
    /\ erased' = erased \ {"metadata"}
    /\ Return("format", TRUE)
    /\ UNCHANGED <<branch, metadata, disk, media, unencrypted, kernel_vars, dat, vals, Users_List,
                   attempt, asked, calls>>

(* Wipe_Encryption wipes the key directory's partition, and answers that:  *)
(* a format may fail half way, and rm -rf may leave the key and succeed.   *)
WipeKeys(ok) ==
    /\ pc = "wipekeys"
    /\ \/ /\ keydir' \in IF ok THEN {FALSE} ELSE {keydir, FALSE}
          /\ erased' = erased \ {"metadata"}
       \/ /\ ok
          /\ keydir' \in {keydir, FALSE}
          /\ erased' = erased \cup {"metadata"}
    /\ Return("format", ok)
    /\ UNCHANGED <<branch, metadata, disk, media, unencrypted, kernel_vars, dat, vals, Users_List,
                   attempt, asked, calls>>

(* Wipe_Media_From_Data, which does not look at what removeDir left.       *)
WipeMedia(ok) ==
    /\ Call
    /\ dat.Has_Data_Media
    /\ Mount(ok)
    /\ media' \in IF ok THEN {media, FALSE} ELSE {media}
    /\ ret' = [op |-> "wipemedia", ok |-> ok]
    /\ UNCHANGED <<branch, metadata, disk, keydir, unencrypted, dm, prop, ce, decrypt, recovery_vars, pc,
                   attempt, asked>>

-----------------------------------------------------------------------------
StartUp ==
    \/ Start \/ SetupMapped \/ Decrypt_Data \/ DefaultPassword
    \/ \E ok \in BOOLEAN :
         SetupPlain(ok) \/ SetupDE(ok) \/ SetupMedia(ok) \/ MetadataDecrypt(ok)
         \/ MountMapped(ok) \/ MappedDE(ok)

InDecrypt ==
    \/ NoNeed \/ WrongPassword
    \/ \E ok \in BOOLEAN : Decrypt_Device(ok)
    \/ \E us \in SUBSET Users : DecryptUser(us)

InFormat ==
    \/ Mkfs \/ MkfsEnds \/ FormatByRemoving
    \/ \E ok \in BOOLEAN : MkfsFails(ok) \/ WipeKeys(ok)

Operation ==
    \/ AskUser
    \/ \E ok \in BOOLEAN :
         MountPage(ok) \/ UnMountPage(ok) \/ Repair(ok) \/ Factory_Reset(ok) \/ Wipe_Encryption(ok)
         \/ WipeMedia(ok)

Next == StartUp \/ InDecrypt \/ InFormat \/ Operation \/ Reboot \/ Restart

(* The recovery's thread goes on; nobody has to ask for anything.          *)
Fairness == WF_vars(StartUp) /\ WF_vars(InDecrypt) /\ WF_vars(InFormat)

Spec == Init /\ [][Next]_vars /\ Fairness

-----------------------------------------------------------------------------
Flag == {0, 1}
Step == {"start", "setup", "setup_de", "media", "decrypt", "metadata", "mapped", "mapped_de",
         "default", "auto", "auto_user", "idle", "ask", "user", "mkfs", "mkfs_runs", "wipekeys"}

Op == {"none", "decrypt", "mount", "unmount", "repair", "reset", "format", "wipemedia"}

(* The variables keep their types, and the keys of a mount go with it.     *)
TypeOK ==
    /\ branch \in {"12.1", "14.1"} /\ metadata \in BOOLEAN
    /\ disk \in {"keyed", "fbe", "plain", "torn"}
    /\ {media, keydir, unencrypted, dm, prop, de} \subseteq BOOLEAN
    /\ mounted \in {"none", "raw", "dm"}
    /\ ce \subseteq Users
    /\ decrypt \in [Users -> {"unset", "0", "1"}]
    /\ dat \in [Is_Encrypted : BOOLEAN, Is_Decrypted : BOOLEAN, Is_FBE : BOOLEAN,
                Decrypted_Block_Device : {"", "dm"}, Has_Data_Media : BOOLEAN,
                excluded : BOOLEAN]
    /\ vals \in [encrypted : Flag, fbe : Flag, pwtype : Flag, all_users : Flag]
    /\ Users_List \in Seq([userId : Users, isDecrypted : BOOLEAN])
    /\ erased \subseteq {"data", "metadata"}
    /\ pc \in Step /\ attempt \in 0 .. Attempts /\ asked \in Users
    /\ ret \in [op : Op, ok : BOOLEAN] /\ calls \in 0 .. MaxCalls
    /\ mounted = "none" => ~de /\ ce = {}

(* Format Data never reports success over a volume that is still encrypted *)
(* with the metadata key or that no file system was made on, and what it   *)
(* formatted is gone: the data, and the key of the metadata encryption     *)
(* (Wipe_Encryption, Wipe_By_Path).  Only where Wipe fell to Wipe_RMRF,    *)
(* which answers true whatever removeDir did, may the one or the other     *)
(* still be there.                                                         *)
FormattedIsKeyless ==
    pc = "idle" /\ ret = [op |-> "format", ok |-> TRUE] =>
        /\ disk \notin {"keyed", "torn"}
        /\ "data" \notin erased => disk = "plain"
        /\ "metadata" \notin erased => ~keydir

(* Only Format Data and the wipe of the internal storage cost the files    *)
(* below /data/media; a factory reset never does, not even after a format  *)
(* that failed (Wipe, Wipe_Encryption: Has_Data_Media).                    *)
MediaSurvives ==
    [][media /\ ~media' => pc = "mkfs" \/ ret'.op = "wipemedia"]_vars

(* Once user 0 is decrypted, the device that operations on /data find is   *)
(* the one that is mounted (Post_Decrypt, Find_Actual_Block_Device), until *)
(* it is formatted: no wipe or repair reaches below the metadata           *)
(* encryption.                                                             *)
ActualIsMounted ==
    /\ TypeOK
    /\ pc = "idle" /\ 0 \in ce => mounted = Actual_Block_Device

(* As long as user 0 of encrypted data was not decrypted, tw_is_encrypted  *)
(* makes the GUI ask for the password (Setup_Fstab_Partitions,             *)
(* Decrypt_Data), unless this recovery formatted the data with rm -rf,     *)
(* which clears it and may leave /data/unencrypted.                        *)
AsksForPassword ==
    pc = "idle" /\ Encrypted /\ decrypt[0] = "0" /\ "data" \notin erased => vals.encrypted = 1

(* Every call returns, and the start-up reaches the GUI, however often the *)
(* metadata key is not there yet, unless the recovery starts for ever.     *)
CallsReturn == []<>(pc = "idle") \/ []<><<Reboot \/ Restart>>_vars

=============================================================================
