------------------------------ MODULE UsbStorage ------------------------------
(***************************************************************************)
(* The partition manager's sharing of storage: what the recovery mounts,   *)
(* what the MTP server (a forked child, told through a pipe) serves, and   *)
(* what mass storage exports to the host by writing block devices into lun *)
(* files.  One operation runs at a time, step by step; uevents, the server *)
(* and another child of the recovery run beside it.                        *)
(*                                                                         *)
(* An operation is the sequence `todo' of the steps it has left.           *)
(***************************************************************************)
EXTENDS Naturals, FiniteSets, Sequences, SequencesExt

CONSTANTS
    Partitions,   \* the storage partitions, in fstab order
    DataMedia,    \* those with Has_Data_Media (/data)
    Removable,    \* those with a Sysfs_Entry
    FBE,          \* those with Is_FBE
    Faults,       \* sets of what may go wrong together, see Fault
    MaxOps        \* bound on the operations started

Storage == ToSet(Partitions)
None == "none"

\* Calls that may fail; "child" is a child of the recovery besides the server.
Fault == {"mount", "umount", "erase", "lun", "fork", "child"}

ASSUME PartitionsAssumption ==
    /\ Partitions \in Seq(Storage) /\ IsInjective(Partitions)
    /\ None \notin Storage
    /\ DataMedia \cup Removable \cup FBE \subseteq Storage
    /\ Faults \subseteq SUBSET Fault /\ MaxOps \in Nat

VARIABLES
    present,          \* Is_Present
    mounted,          \* what the kernel has mounted
    mtppid,           \* "mtp" or None
    mtp_write_fd,     \* the write end of the pipe is open
    pipe,             \* messages the server has not read
    served,           \* storages of the server
    zombies,          \* servers that were killed and not reaped
    other,            \* the other child: "none", "alive", "zombie"
    stolen,           \* history: other children reaped by Disable_MTP
    config,           \* sys.usb.config
    ums_enabled,      \* sys.storage.ums_enabled
    lun,              \* what the lun files hold
    luns,             \* whether lun file 1 exists
    fresh,            \* history: lun files written since usb_storage_enable
    tw_mtp_enabled, mtp_was_enabled,
    faulty,           \* what may go wrong
    todo, ops

usb == <<config, ums_enabled, lun, luns, fresh>>
mtp == <<mtppid, mtp_write_fd, zombies, other, stolen>>
table == <<pipe, served>>
flags == <<tw_mtp_enabled, mtp_was_enabled>>
bounds == <<faulty, ops>>
vars == <<present, mounted, mtp, table, usb, flags, todo, bounds>>

Init ==
    /\ present \in {Storage, Storage \ Removable}
    /\ mounted \in {{}, present}
    /\ mtppid = None /\ mtp_write_fd = FALSE /\ zombies = 0 /\ stolen = 0
    /\ faulty \in Faults
    /\ other = "none"
    /\ pipe = <<>> /\ served = {}
    /\ config = "adb" /\ ums_enabled = FALSE /\ lun = [l \in {0, 1} |-> None]
    /\ luns \in BOOLEAN /\ fresh = {}
    /\ tw_mtp_enabled = FALSE /\ mtp_was_enabled = FALSE
    /\ todo = <<>> /\ ops = 0

-----------------------------------------------------------------------------
(***************************************************************************)
(* Steps: what they do, for which storage, and for which lun file          *)
(***************************************************************************)
Step(what) == [do |-> what, s |-> None, l |-> 2]
On(what, s) == [do |-> what, s |-> s, l |-> 2]
For(what, s, l) == [do |-> what, s |-> s, l |-> l]

Disable_MTP == <<Step("kill"), Step("wait")>>
UnMount(s) == <<On("remove", s), On("umount", s)>>
Open_Lun_File(s, l) == <<For("remove", s, l), For("umount", s, l), For("lun", s, l)>>

\* Each storage is mounted and then added, in their order.
Add_All_MTP_Storage ==
    [k \in 1 .. 2 * Len(Partitions) |->
        IF k % 2 = 1 THEN On("mount all", Partitions[(k + 1) \div 2])
                     ELSE On("add all", Partitions[k \div 2])]

\* error_handle, and the end of usb_storage_disable.
Restart == IF mtp_was_enabled THEN <<For("start", None, 1)>> ELSE <<>>

Steps(what) == todo # <<>> /\ Head(todo).do = what
This == Head(todo)
Continue == todo' = Tail(todo)
Then(steps) == todo' = steps \o Tail(todo)

\* Open_Lun_File returned false: for lun 0 enabling fails, for lun 1 that is
\* ignored.  Any other operation ends.
Fail ==
    todo' = CASE This.l = 0 -> Restart
              [] This.l = 1 -> <<Step("export")>>
              [] OTHER      -> <<>>

\* Find_Next_Storage(Path, true).
Find_Next_Storage(s) ==
    LET from == IF s = None THEN 0
                ELSE CHOOSE i \in DOMAIN Partitions : Partitions[i] = s
        next == {i \in DOMAIN Partitions :
                    /\ i > from
                    /\ Partitions[i] \in present \ DataMedia}
    IN  IF next = {} THEN None
        ELSE Partitions[CHOOSE i \in next : \A j \in next : i <= j]

\* The storages usb_storage_enable opens, in the order of the lun files; with
\* two files the current storage may be opened a second time.
Exported(current) ==
    LET first == Find_Next_Storage(None)
        second == Find_Next_Storage(first)
        own == IF current \in DataMedia THEN <<>> ELSE <<current>>
    IN  IF ~luns THEN IF current \in DataMedia THEN <<first>> ELSE own
        ELSE IF first = None THEN own
        ELSE <<first>> \o IF second # None THEN <<second>> ELSE own

-----------------------------------------------------------------------------
(***************************************************************************)
(* Operations                                                              *)
(***************************************************************************)
\* While mass storage is on, the page shown offers only its end.
Starts(steps) ==
    /\ todo = <<>> /\ ops < MaxOps
    /\ ops' = ops + 1
    /\ todo' = steps
    /\ UNCHANGED <<present, mounted, mtp, table, usb, faulty>>

EnableMtp == ~ums_enabled /\ Starts(<<Step("start")>>) /\ UNCHANGED flags
DisableMtp == ~ums_enabled /\ Starts(Disable_MTP) /\ UNCHANGED flags

MountStorage(s) ==
    ~ums_enabled /\ Starts(<<On("mount", s), On("add", s)>>) /\ UNCHANGED flags
UnMountStorage(s) == ~ums_enabled /\ Starts(UnMount(s)) /\ UNCHANGED flags

\* Wipe: every way to format unmounts first; Wipe_RMRF and
\* Wipe_Data_Without_Wiping_Media, which keeps the storage, do not.
Added(s) == IF s \in FBE THEN <<On("mount", s)>> ELSE <<On("mount", s), On("add", s)>>
Wipe(s) ==
    /\ ~ums_enabled
    /\ \/ Starts(UnMount(s) \o <<On("erase", s)>> \o Added(s))
       \/ Starts(<<On("mount", s), On("remove", s), On("erase", s)>> \o Added(s))
       \/ s \in DataMedia /\ Starts(<<On("mount", s)>> \o Added(s))
    /\ UNCHANGED flags

\* Wipe_Media_From_Data.
WipeMedia(s) ==
    /\ ~ums_enabled /\ s \in DataMedia
    /\ Starts(<<On("mount", s), On("remove", s), On("erase", s), On("add", s)>>)
    /\ UNCHANGED flags

usb_storage_enable(current) ==
    /\ ~ums_enabled
    /\ mtp_was_enabled' = tw_mtp_enabled
    /\ UNCHANGED tw_mtp_enabled
    /\ Starts(Disable_MTP \o <<On("select", current)>>)

usb_storage_disable ==
    /\ ums_enabled
    /\ Starts(<<For("clear", None, 0)>>) /\ UNCHANGED flags

-----------------------------------------------------------------------------
(***************************************************************************)
(* The steps                                                               *)
(***************************************************************************)
\* Enable_MTP.  Those that restart MTP disable it again when it fails.
Start ==
    /\ Steps("start")
    /\ IF mtppid # None
       THEN Continue /\ UNCHANGED <<mtp, table, config, tw_mtp_enabled>>
       ELSE \/ /\ mtppid' = "mtp" /\ mtp_write_fd' = TRUE
               /\ pipe' = <<>> /\ served' = {}
               /\ config' = "mtp,adb" /\ tw_mtp_enabled' = TRUE
               /\ Then(Add_All_MTP_Storage)
               /\ UNCHANGED <<zombies, other, stolen>>
            \/ /\ "fork" \in faulty
               /\ config' = "mtp,adb"
               /\ Then(IF This.l = 1 THEN Disable_MTP ELSE <<>>)
               /\ UNCHANGED <<mtp, table, tw_mtp_enabled>>
    /\ UNCHANGED <<present, mounted, ums_enabled, lun, luns, fresh, mtp_was_enabled, bounds>>

\* Disable_MTP: kill(mtppid), mtppid = 0.
Kill ==
    /\ Steps("kill")
    /\ zombies' = IF mtppid # None THEN zombies + 1 ELSE zombies
    /\ mtppid' = None
    /\ served' = {} /\ pipe' = <<>>
    /\ config' = IF config = "adb" THEN "adb" ELSE "none"
    /\ todo' = IF mtppid # None THEN Tail(todo)
               ELSE <<Step("adb")>> \o Tail(Tail(todo))
    /\ UNCHANGED <<present, mounted, mtp_write_fd, other, stolen, ums_enabled, lun,
                   luns, fresh, flags, bounds>>

\* Mutant of Wait: it does not wait for the child.
WaitNot ==
    /\ Steps("wait")
    /\ mtp_write_fd' = FALSE
    /\ Then(<<Step("adb")>>)
    /\ UNCHANGED <<present, mounted, mtppid, zombies, other, stolen, table, usb, flags, bounds>>

\* waitpid(0, ...): any child of the process group that has ended is reaped.
Wait ==
    /\ Steps("wait")
    /\ \/ zombies > 0 /\ zombies' = zombies - 1 /\ UNCHANGED <<other, stolen>>
       \/ other = "zombie" /\ other' = "none" /\ stolen' = stolen + 1
          /\ UNCHANGED zombies
    /\ mtp_write_fd' = FALSE
    /\ Then(<<Step("adb")>>)
    /\ UNCHANGED <<present, mounted, mtppid, table, usb, flags, bounds>>

Adb ==
    /\ Steps("adb")
    /\ config' = "adb" /\ tw_mtp_enabled' = FALSE
    /\ Continue
    /\ UNCHANGED <<present, mounted, mtp, table, ums_enabled, lun, luns, fresh,
                   mtp_was_enabled, bounds>>

Send(what) ==
    /\ pipe' = Append(pipe, <<what, This.s>>)
    /\ Continue
    /\ UNCHANGED <<present, mounted, mtp, served, usb, flags, bounds>>

Silent ==
    Continue /\ UNCHANGED <<present, mounted, mtp, table, usb, flags, bounds>>

Connected == mtppid # None /\ mtp_write_fd

\* Mutant of AddStorage: a storage is added whether or not it is mounted.
AddStorageUnchecked ==
    /\ Steps("add") \/ Steps("add all")
    /\ IF Connected THEN Send("add") ELSE Silent

\* Add_Remove_MTP_Storage; Add_All_MTP_Storage looks at Is_Present as well.
AddStorage ==
    /\ Steps("add") \/ Steps("add all")
    /\ IF Connected /\ This.s \in mounted /\ (This.do = "add" \/ This.s \in present)
       THEN Send("add") ELSE Silent

\* UnMount tells the server before it unmounts.
RemoveStorage ==
    /\ Steps("remove")
    /\ IF Connected /\ This.s \in mounted THEN Send("remove") ELSE Silent

\* TWPartition::Mount; Mount_All_Storage and Add_All_MTP_Storage go on after a
\* failure, the others return.
Mount ==
    /\ Steps("mount") \/ Steps("mount all")
    /\ \/ /\ This.s \in mounted \cup present
          /\ mounted' = mounted \cup {This.s} /\ Continue
       \/ /\ This.s \notin mounted
          /\ This.s \notin present \/ "mount" \in faulty
          /\ UNCHANGED mounted
          /\ IF This.do = "mount all" THEN Continue ELSE Fail
    /\ UNCHANGED <<present, mtp, table, usb, flags, bounds>>

\* Mutant of Unmount: a busy storage is taken for unmounted.
UnmountBusy ==
    /\ Steps("umount")
    /\ \/ mounted' = mounted \ {This.s}
       \/ "umount" \in faulty /\ UNCHANGED mounted
    /\ Continue
    /\ UNCHANGED <<present, mtp, table, usb, flags, bounds>>

\* TWPartition::UnMount, which leaves a busy one mounted.
Unmount ==
    /\ Steps("umount")
    /\ \/ mounted' = mounted \ {This.s} /\ Continue
       \/ /\ This.s \in mounted /\ "umount" \in faulty
          /\ UNCHANGED mounted /\ Fail
    /\ UNCHANGED <<present, mtp, table, usb, flags, bounds>>

\* The storage is formatted, or everything in it is removed.
Erase ==
    /\ Steps("erase")
    /\ Continue \/ ("erase" \in faulty /\ Fail)
    /\ UNCHANGED <<present, mounted, mtp, table, usb, flags, bounds>>

\* usb_storage_enable after MTP is off.  No storage to open is an error, but
\* not with two lun files.
Select ==
    /\ Steps("select")
    /\ LET open == Exported(This.s) IN
       todo' = IF open # <<>> /\ open[1] = None THEN Restart
               ELSE IF open = <<>> THEN <<Step("export")>>
               ELSE Open_Lun_File(open[1], 0)
                    \o (IF Len(open) = 2 THEN Open_Lun_File(open[2], 1) ELSE <<>>)
                    \o <<Step("export")>>
    /\ fresh' = {}
    /\ UNCHANGED <<present, mounted, mtp, table, config, ums_enabled, lun, luns,
                   flags, bounds>>

\* Open_Lun_File: !Is_Present, or a file that cannot be opened, returns false.
\* write_to_file is external; a write that the kernel refuses when the file is
\* closed (a lun that is busy) may pass there for one that was made.
WriteLun ==
    /\ Steps("lun")
    /\ \/ /\ This.s \in present
          /\ lun' = [lun EXCEPT ![This.l] = This.s] /\ fresh' = fresh \cup {This.l}
          /\ Continue
       \/ /\ This.s \in present /\ "lun" \in faulty
          /\ UNCHANGED <<lun, fresh>> /\ Continue
       \/ /\ This.s \notin present \/ "lun" \in faulty
          /\ UNCHANGED <<lun, fresh>> /\ Fail
    /\ UNCHANGED <<present, mounted, mtp, table, config, ums_enabled, luns, flags, bounds>>

Export ==
    /\ Steps("export")
    /\ ums_enabled' = TRUE /\ config' = "mass_storage,adb"
    /\ Continue
    /\ UNCHANGED <<present, mounted, mtp, table, lun, luns, fresh, flags, bounds>>

\* The storage is mounted again, and "unexport" ends mass storage.
Reclaim ==
    Append([k \in 1 .. Len(Partitions) |-> On("mount all", Partitions[k])],
           Step("unexport"))

\* usb_storage_disable opens the lun files one after the other and leaves the
\* loop at one it cannot open ("ret = -1" is behind the break).  What it writes
\* is the string made of {0, 0}, which is empty: no byte is written, and every
\* lun file keeps what it holds.
ClearLun ==
    /\ Steps("clear")
    /\ \/ This.l = 0 /\ todo' = <<For("clear", None, 1)>>
       \/ (This.l = 1 \/ "lun" \in faulty) /\ todo' = Reclaim
    /\ UNCHANGED <<present, mounted, mtp, table, usb, flags, bounds>>

\* Mutant of Unexport: MTP is not started again.
UnexportOnly ==
    /\ Steps("unexport")
    /\ ums_enabled' = FALSE /\ config' = "adb"
    /\ Continue
    /\ UNCHANGED <<present, mounted, mtp, table, lun, luns, fresh, flags, bounds>>

Unexport ==
    /\ Steps("unexport")
    /\ ums_enabled' = FALSE /\ config' = "adb"
    /\ todo' = Restart
    /\ UNCHANGED <<present, mounted, mtp, table, lun, luns, fresh, flags, bounds>>

-----------------------------------------------------------------------------
(***************************************************************************)
(* What runs beside the operation                                          *)
(***************************************************************************)
\* The MTP server reads a message.
Serve ==
    /\ mtppid # None /\ pipe # <<>>
    /\ served' = IF Head(pipe)[1] = "add" THEN served \cup {Head(pipe)[2]}
                 ELSE served \ {Head(pipe)[2]}
    /\ pipe' = Tail(pipe)
    /\ UNCHANGED <<present, mounted, mtp, usb, flags, todo, bounds>>

\* The recovery forks other children all the time (for tar, commands, twrp's
\* scripts), one after the other here; their parent reaps them by their pid.
OtherForks ==
    /\ "child" \in faulty /\ other = "none" /\ other' = "alive"
    /\ UNCHANGED <<present, mounted, mtppid, mtp_write_fd, zombies, stolen, table, usb,
                   flags, todo, bounds>>

OtherExits ==
    /\ other = "alive" /\ other' = "zombie"
    /\ UNCHANGED <<present, mounted, mtppid, mtp_write_fd, zombies, stolen, table, usb,
                   flags, todo, bounds>>

ReapOther ==
    /\ other = "zombie" /\ other' = "none"
    /\ UNCHANGED <<present, mounted, mtppid, mtp_write_fd, zombies, stolen, table, usb,
                   flags, todo, bounds>>

\* Handle_Uevent of a removable disk: nothing is unmounted.
Handle_Uevent(s) ==
    /\ s \in Removable
    /\ present' = IF s \in present THEN present \ {s} ELSE present \cup {s}
    /\ UNCHANGED <<mounted, mtp, table, usb, flags, todo, bounds>>

Operation ==
    \/ EnableMtp \/ DisableMtp \/ usb_storage_disable
    \/ \E s \in Storage :
          \/ MountStorage(s) \/ UnMountStorage(s) \/ Wipe(s) \/ WipeMedia(s)
          \/ usb_storage_enable(s)

Proceed ==
    \/ Start \/ Kill \/ Wait \/ Adb \/ AddStorage \/ RemoveStorage \/ Mount \/ Unmount
    \/ Erase \/ Select \/ WriteLun \/ Export \/ ClearLun \/ Unexport

Next ==
    \/ Operation
    \/ Proceed
    \/ Serve \/ OtherForks \/ OtherExits \/ ReapOther
    \/ \E s \in Storage : Handle_Uevent(s)

Spec == Init /\ [][Next]_vars /\ WF_vars(Proceed) /\ WF_vars(Serve)
-----------------------------------------------------------------------------
(***************************************************************************)
(* Properties                                                              *)
(***************************************************************************)
Idle == todo = <<>>
Kind == {"kill", "wait", "adb", "start", "mount", "mount all", "add", "add all",
         "remove", "umount", "erase", "select", "lun", "export", "clear", "unexport"}

\* The pipe is only written to while there is a server to read it.
TypeOK ==
    /\ present \subseteq Storage /\ mounted \subseteq Storage /\ served \subseteq Storage
    /\ mtppid \in {"mtp", None} /\ mtp_write_fd \in BOOLEAN
    /\ (mtppid # None) => mtp_write_fd
    /\ pipe \in Seq({"add", "remove"} \X Storage)
    /\ (mtppid = None) => (pipe = <<>> /\ served = {})
    /\ zombies \in Nat /\ stolen \in Nat /\ other \in {"none", "alive", "zombie"}
    /\ config \in {"none", "adb", "mtp,adb", "mass_storage,adb"}
    /\ lun \in [{0, 1} -> Storage \cup {None}]
    /\ ums_enabled \in BOOLEAN /\ luns \in BOOLEAN /\ fresh \subseteq {0, 1}
    /\ tw_mtp_enabled \in BOOLEAN /\ mtp_was_enabled \in BOOLEAN
    /\ faulty \in Faults /\ ops \in 0..MaxOps
    /\ todo \in Seq([do : Kind, s : Storage \cup {None}, l : 0..2])

\* Whenever the server has read its messages, it serves no storage that is not
\* mounted: whatever failed on the way, and between two steps of an operation
\* too, the host does not write into the empty mount point.
ServedIsMounted == TypeOK /\ (pipe = <<>> => served \subseteq mounted)

\* The server will serve s once it has read the messages sent to it: no message
\* behind the k-th, that adds it, takes it away.
Stays(s, k) == \A j \in k + 1..Len(pipe) : pipe[j] # <<"remove", s>>
WillServe(s) ==
    \/ s \in served /\ Stays(s, 0)
    \/ \E k \in 1..Len(pipe) : pipe[k] = <<"add", s>> /\ Stays(s, k)

\* The recovery and the host do not write to a file system both.  While mass
\* storage is on, until usb_storage_disable mounts the storage again, nothing
\* that was written into a lun file when it was switched on is mounted,
\* whichever unmounts and writes failed and whatever storage was opened twice;
\* and what is being erased is what the server has been told to give up ("we
\* must manually remove the partition from MTP"), messages it has not read yet
\* included.
Exclusive ==
    /\ ums_enabled /\ (Idle \/ Steps("clear")) => \A l \in fresh : lun[l] \notin mounted
    /\ Steps("erase") => ~WillServe(This.s)

\* "this prevents a zombie process": between operations every killed MTP server
\* left as a zombie stands for another child that waitpid(0) reaped in its
\* place, over any number of such children; none is left for another reason.
ZombieForOther == Idle => zombies = stolen

\* Mass storage ends with MTP running again if it was before, unless the
\* server cannot be started.
MtpComesBack ==
    (Steps("unexport") /\ mtp_was_enabled /\ "fork" \notin faulty) ~> (mtppid # None)

===============================================================================
