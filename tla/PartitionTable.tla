---------------------------- MODULE PartitionTable ----------------------------
(***************************************************************************)
(* The partition manager's table, from the fstab files to the hot-plug of  *)
(* disks: Process_Fstab reads recovery.fstab, the rest of twrp.flags and   *)
(* then the vendor's fstab, whose /data and /metadata replace those of the *)
(* recovery; Setup_Fstab_Partitions chooses the settings storage; uevents  *)
(* add and remove the partitions of a disk behind a /devices/ entry, while *)
(* ueventd makes the nodes of a disk one by one.                           *)
(*                                                                         *)
(* A mount point is a name, the number of an "auto" entry and the number   *)
(* of a partition that was found on a disk, which has the rest of its      *)
(* entry's.  The loops of the code are an action per turn.  Names, sizes,  *)
(* mount flags and what only a page of the GUI shows are left out, as are  *)
(* adopted storage, slots and logical partitions.                          *)
(***************************************************************************)
EXTENDS Naturals, Sequences, FiniteSets, SequencesExt

CONSTANTS
    Boots,     \* what a start may find: the lines of the fstab, of twrp.flags (in
               \* the order of the map) and of the vendor's fstab, whether that is
               \* found, RECOVERY_SDCARD_ON_DATA, nodes that exist, disks plugged in
    Disk,      \* disks that come and go; in a line: the wildcard "<disk>*"
    PartsOf,   \* the partitions of each
    BusOf,     \* the sysfs path of each
    MaxPlugs,  \* bound: disks plugged in or out
    Text       \* the strings that name mount points, devices and flags

Path(name) == [name |-> name, auto |-> 0, part |-> 0]
AutoPath(k) == [name |-> "auto", auto |-> k, part |-> 0]
Numbered(path, k) == [path EXCEPT !.part = k]

None == ""
NoPath == Path("")
Data == Path("data")
Metadata == Path("metadata")
Root == Path("system_root")
External == {Path("sdcard"), Path("external_sd"), Path("external_sdcard")}
InternalSd == {Path("emmc"), Path("internal_sd"), Path("internal_sdcard")}

Nodes(d) == {d} \cup PartsOf[d]
Parts == UNION {PartsOf[d] : d \in Disk}

ASSUME TextAssumption == {"", "auto", "data", "system_root", "sdcard"} \subseteq Text

ASSUME DiskAssumption ==
    /\ PartsOf \in [Disk -> SUBSET Text] /\ BusOf \in [Disk -> Text \ {None}]
    /\ Disk \subseteq Text \ {None} /\ IsFiniteSet(Disk) /\ MaxPlugs \in Nat
    /\ None \notin Parts /\ Disk \cap Parts = {}
    /\ \A d, e \in Disk : d # e => PartsOf[d] \cap PartsOf[e] = {}
    /\ \A d \in Disk : IsFiniteSet(PartsOf[d])

-----------------------------------------------------------------------------
(***************************************************************************)
(* What a start may find                                                   *)
(***************************************************************************)
Paths == [name : Text, auto : Nat, part : Nat]
Lines == [mount : Text \ {""}, dev : Text, fs : Text, v2 : BOOLEAN,
          flags : SUBSET Text, sub : Paths, sysfs : BOOLEAN]
Starts == [fstab : Seq(Lines), flags : Seq(Lines), vendor : Seq(Lines), found : BOOLEAN,
           media : BOOLEAN, there : SUBSET (Text \ {None}), plugged : SUBSET Disk]

LinesOf(file) == {file[k] : k \in DOMAIN file}

\* The mount point of a line's entry.
PathOf(l) == IF l.mount = "system" THEN Root ELSE Path(l.mount)

\* Lines are told by the text "/data", which "/datadata" has as well.
About(l) == CASE l.mount \in {"data", "datadata"} -> Data
              [] l.mount = "metadata" -> Metadata
              [] OTHER -> NoPath

\* The files are those of a device: /system is not an image, a mount point has
\* one line of version 1; a /devices/ line is of version 2, for a bus of its own
\* that no wildcard finds, and no line or twrp.flags adds to its entry; what is
\* found on disks has no line.
WellWritten(s) ==
    LET all == LinesOf(s.fstab) \cup LinesOf(s.flags) \cup LinesOf(s.vendor)
        buses == {l \in LinesOf(s.fstab) : l.sysfs}
    IN  /\ \A l \in all : /\ l.mount = "system" => l.fs # "image"
                          /\ l.dev \notin Parts
                          /\ l.sub = Path(l.sub.name) /\ l.sub.name # "auto"
                          /\ \A b \in buses : l.sub # PathOf(b)
                          /\ l.dev \in Disk => \A b \in buses : b.dev # BusOf[l.dev]
        /\ \A k \in DOMAIN s.fstab : s.fstab[k].v2 \/ s.fstab[k].mount = "auto"
              \/ \A m \in 1 .. k - 1 : PathOf(s.fstab[m]) # PathOf(s.fstab[k])
        /\ \A l \in buses : l.v2 /\ l.mount # "data" /\ l.dev # None
        /\ \A k, m \in DOMAIN s.fstab :
              s.fstab[k].sysfs /\ s.fstab[m].sysfs /\ k # m => s.fstab[k].dev # s.fstab[m].dev
        /\ \A l \in LinesOf(s.flags) :
              ~l.v2 /\ ~l.sysfs /\ \A b \in buses : PathOf(l) # PathOf(b)
        /\ \A l \in LinesOf(s.vendor) : About(l) # NoPath => l.v2 /\ ~l.sysfs

ASSUME BootsAssumption == \A s \in Boots : s \in Starts /\ WellWritten(s)

VARIABLES
    start, phase,
    pos,         \* entries or lines the loop of this phase has done
    Partitions,
    data_entry,  \* Process_Fstab's data is set: it is the last entry for /data
    meta_entry,  \* the same of meta and /metadata
    auto_index,
    storageid,
    settings,    \* mount point of settings_partition
    nodes,       \* block devices in /dev/block
    plugged, events, plugs,
    mounts,      \* what is mounted of the disks, mount point -> node
    stuck,       \* a mount that was in use outlived its disk
    shared,      \* two disks were plugged in behind one entry
    late         \* an event was handled before its disk had its nodes

pointers == <<data_entry, meta_entry, auto_index>>
storages == <<storageid, settings>>
world == <<nodes, plugged, events, plugs>>
seen == <<mounts, stuck, shared, late>>
tableVars == <<start, phase, pos, Partitions, pointers, storages, world, seen>>

\* The constructor of TWPartition.
Blank == [mount |-> NoPath, link |-> NoPath, dev |-> None, actual |-> None,
          sysfs |-> None, wild |-> FALSE, present |-> FALSE, canmount |-> FALSE,
          method |-> "none", storage |-> FALSE, settings |-> FALSE, id |-> 0,
          sub |-> NoPath, hassub |-> FALSE]

TableInit ==
    /\ start \in Boots
    /\ phase = "fstab" /\ pos = 0
    /\ Partitions = <<>>
    /\ data_entry = FALSE /\ meta_entry = FALSE /\ auto_index = 0
    /\ storageid = 0 /\ settings = NoPath
    /\ plugged = start.plugged
    /\ nodes = start.there \cup UNION {Nodes(d) : d \in plugged}
    /\ events = <<>> /\ plugs = 0
    /\ mounts = [m \in {} |-> None] /\ stuck = FALSE /\ late = FALSE
    /\ shared = \E d, e \in plugged : d # e /\ BusOf[d] = BusOf[e]

-----------------------------------------------------------------------------
(***************************************************************************)
(* Looking up and finding devices                                          *)
(***************************************************************************)
\* Find_Partition_By_Path, 0 for NULL.
Find_Partition_By_Path(T, path) ==
    LET local == IF path = Path("system") THEN Root ELSE path
    IN  SelectInSeq(T, LAMBDA p : local \in {p.mount, p.link})

Find_Partition_By_Block_Device(T, node) == \E i \in DOMAIN T : node \in {T[i].dev, T[i].actual}

\* A partition found behind a wildcard: its line is made up, and not processed
\* when its mount point is in the table already.
Child(p, T, node, k) ==
    [Blank EXCEPT
        !.mount = Numbered(p.mount, k), !.sub = p.mount, !.dev = node, !.actual = node,
        !.present = TRUE, !.canmount = TRUE, !.storage = p.storage,
        !.method = IF Find_Partition_By_Path(T, Numbered(p.mount, k)) = 0 THEN "files"
                   ELSE "none"]

\* The nodes of a wildcard that no entry has yet.
Unlisted(p, T) ==
    {node \in PartsOf[p.dev] \cap nodes : ~Find_Partition_By_Block_Device(T, node)}

\* Find_Wildcard_Block_Devices of an entry: what it may find, in any order of
\* readdir.
Find_Wildcard_Block_Devices(p, T) ==
    IF p.wild /\ p.dev # None THEN SetToSeqs(Unlisted(p, T)) ELSE {<<>>}

\* The partitions found, numbered anew.
Children(p, T, found) == [k \in DOMAIN found |-> Child(p, T, found[k], k)]

\* Find_Actual_Block_Device of an entry.
Find_Actual_Block_Device(p, found) ==
    LET there == p.dev \in nodes
        whole == found = <<>> /\ there
    IN  IF p.sysfs # None /\ p.dev = None THEN [p EXCEPT !.present = FALSE]
        ELSE IF p.wild
        THEN [p EXCEPT !.present = whole, !.canmount = whole,
                       !.actual = IF whole THEN p.dev ELSE None,
                       !.hassub = @ \/ found # <<>>]
        ELSE [p EXCEPT !.present = there, !.actual = IF there THEN p.dev ELSE @]

\* The table with that done for entry i.
Located(T, i, found) ==
    [T EXCEPT ![i] = Find_Actual_Block_Device(T[i], found)] \o Children(T[i], T, found)

-----------------------------------------------------------------------------
(***************************************************************************)
(* Process_Fstab                                                           *)
(***************************************************************************)
\* The line of twrp.flags for a mount point, 0 if there is none.
Given(flags, path) == SelectInSeq(flags, LAMBDA g : Path(g.mount) = path)

\* Process_Fstab_Line returns false: a second line of version 2 for a mount
\* point only leaves its mount flags in the entry, a file system is unknown.
Refused(l, T) ==
    \/ l.v2 /\ Find_Partition_By_Path(T, Path(l.mount)) # 0
    \/ l.mount # "auto" /\ l.fs \notin {"files", "image"}

\* The entry before its device is searched: the device comes from twrp.flags
\* when its mount point is there.
Entered(l, flags) ==
    LET given == IF l.v2 THEN Given(flags, Path(l.mount)) ELSE 0
        dev == IF given = 0 THEN l.dev ELSE flags[given].dev
    IN  [Blank EXCEPT
            !.mount = IF l.mount = "auto" THEN AutoPath(auto_index + 1)
                      ELSE IF l.fs = "files" THEN PathOf(l) ELSE Path(l.mount),
            !.storage = l.sysfs, !.wild = l.sysfs \/ dev \in Disk,
            !.sysfs = IF l.sysfs THEN dev ELSE None,
            !.dev = IF l.sysfs THEN None ELSE dev]

\* What the mount point of a file system says of its entry.
OfMountPoint(p) ==
    [p EXCEPT !.settings = p.mount \in InternalSd,
              !.storage = @ \/ p.mount \in InternalSd \cup External,
              !.sub = IF p.mount = Path("datadata") THEN Data ELSE @]

Apply_TW_Flag(p, flags) ==
    [p EXCEPT !.settings = @ \/ "settingsstorage" \in flags,
              !.storage = @ \/ flags \cap {"settingsstorage", "storage"} # {}]

\* Process_TW_Flags of a line, of the fstab or of twrp.flags.
Process_TW_Flags(p, l) ==
    [Apply_TW_Flag(p, l.flags) EXCEPT !.sub = IF l.sub = NoPath THEN @ ELSE l.sub]

\* What the line says of the entry after that search, and its mount point; more
\* flags are looked up by the name the entry has by then.
Described(p, l, flags) ==
    LET files == l.fs = "files" /\ l.mount # "auto"
        kind == [p EXCEPT !.canmount = @ \/ files \/ l.mount = "auto",
                          !.storage = @ \/ l.mount = "auto",
                          !.method = IF files \/ l.mount = "auto" THEN "files" ELSE "image"]
        own == Process_TW_Flags(IF files THEN OfMountPoint(kind) ELSE kind, l)
        given == IF l.v2 THEN Given(flags, p.mount) ELSE 0
    IN  IF given = 0 THEN own ELSE Process_TW_Flags(own, flags[given])

Added(l, T) == ~Refused(l, T)

\* Process_Fstab_Line: what is found behind a wildcard is in the table before
\* the line's entry; the device of an "auto" is not searched for here.
Process_Fstab_Line(l, T, flags) ==
    LET line == Entered(l, flags)
        auto == l.mount = "auto"
    IN  IF Refused(l, T) THEN Partitions' = T /\ UNCHANGED auto_index
        ELSE /\ auto_index' = IF auto THEN auto_index + 1 ELSE auto_index
             /\ \E found \in IF auto THEN {<<>>} ELSE Find_Wildcard_Block_Devices(line, T) :
                   LET p == IF auto THEN line ELSE Find_Actual_Block_Device(line, found)
                   IN  Partitions' = Append(T \o Children(line, T, found), Described(p, l, flags))

\* A turn of the loop over a file.
Reading(name, file) == phase = name /\ pos < Len(file) /\ pos' = pos + 1

ReadFstab ==
    /\ Reading("fstab", start.fstab)
    /\ LET l == start.fstab[pos + 1]
           new == Added(l, Partitions)
       IN  /\ Process_Fstab_Line(l, Partitions, start.flags)
           /\ data_entry' = (data_entry \/ (new /\ l.mount = "data"))
           /\ meta_entry' = (meta_entry \/ (new /\ l.mount = "metadata"))
    /\ UNCHANGED <<start, phase, storages, world, seen>>

\* What twrp.flags says of mount points that the fstab has not.
ReadFlags ==
    /\ Reading("flags", start.flags)
    /\ LET l == start.flags[pos + 1] IN
       IF Find_Partition_By_Path(Partitions, Path(l.mount)) = 0
       THEN Process_Fstab_Line(l, Partitions, <<>>)
       ELSE UNCHANGED <<Partitions, auto_index>>
    /\ UNCHANGED <<start, phase, data_entry, meta_entry, storages, world, seen>>

\* Mutant of Erase: the entry of the recovery's fstab stays.
EraseNothing(T, path) == T

\* Partitions.erase of the entry that data or meta points to.
Erase(T, path) == RemoveAt(T, SelectLastInSeq(T, LAMBDA p : p.mount = path))

\* The vendor's line takes the place of the entry there is, at the end.
ReadVendor ==
    /\ Reading("vendor", start.vendor)
    /\ LET l == start.vendor[pos + 1]
           old == \/ About(l) = Data /\ data_entry
                  \/ About(l) = Metadata /\ meta_entry
           T == IF old THEN Erase(Partitions, About(l)) ELSE Partitions
           new == About(l) # NoPath /\ Added(l, T)
       IN  /\ IF About(l) = NoPath THEN UNCHANGED <<Partitions, auto_index>>
              ELSE Process_Fstab_Line(l, T, <<>>)
           /\ data_entry' = IF new /\ l.mount = "data" THEN TRUE
                            ELSE data_entry /\ About(l) # Data
           /\ meta_entry' = IF new /\ l.mount = "metadata" THEN TRUE
                            ELSE meta_entry /\ About(l) # Metadata
    /\ UNCHANGED <<start, phase, storages, world, seen>>

EndOfFile ==
    /\ \/ phase = "fstab" /\ pos = Len(start.fstab) /\ phase' = "flags"
       \/ /\ phase = "flags" /\ pos = Len(start.flags)
          /\ phase' = IF start.found THEN "vendor" ELSE "setup"
       \/ phase = "vendor" /\ pos = Len(start.vendor) /\ phase' = "setup"
    /\ pos' = 0
    /\ UNCHANGED <<start, Partitions, pointers, storages, world, seen>>

-----------------------------------------------------------------------------
(***************************************************************************)
(* Setup_Fstab_Partitions                                                  *)
(***************************************************************************)
\* Setup_Data_Media of /data.
Setup_Data_Media(p) ==
    [p EXCEPT !.storage = TRUE, !.settings = TRUE, !.link = Path("sdcard")]

\* One turn of the loop: a storage gets an id, and of the settings storages
\* that are there the first one remains.
SetupOne ==
    /\ phase = "setup" /\ pos < Len(Partitions) /\ pos' = pos + 1
    /\ LET p == Partitions[pos + 1]
           q == IF start.media /\ p.mount = Data THEN Setup_Data_Media(p) ELSE p
           chosen == settings = NoPath /\ q.settings /\ q.present
       IN  /\ storageid' = IF q.storage THEN storageid + 1 ELSE storageid
           /\ settings' = IF chosen THEN q.mount ELSE settings
           /\ Partitions' = [Partitions EXCEPT ![pos + 1] =
                                [q EXCEPT !.id = IF q.storage THEN storageid' ELSE 0,
                                          !.settings = chosen]]
    /\ UNCHANGED <<start, phase, pointers, world, seen>>

\* Write_Fstab keeps track of subpartitions.
Write_Fstab(T) ==
    [i \in DOMAIN T |->
        [T[i] EXCEPT !.hassub =
            @ \/ \E j \in DOMAIN T : /\ T[j].sub # NoPath
                                     /\ Find_Partition_By_Path(T, T[j].sub) = i]]

\* /data becomes the storage when nothing else is; failing that, it is the
\* first storage.
Setup_Fstab_Partitions ==
    /\ phase = "setup" /\ pos = Len(Partitions)
    /\ LET dat == Find_Partition_By_Path(Partitions, Data)
           automatic ==
               /\ ~start.media /\ settings = NoPath /\ dat # 0
               /\ \A path \in InternalSd \cup {Path("sdcard")} :
                     Find_Partition_By_Path(Partitions, path) = 0
           first == SelectInSeq(Partitions, LAMBDA p : p.storage)
       IN  /\ Partitions' = Write_Fstab(
                 IF automatic
                 THEN [Partitions EXCEPT ![dat] = [Setup_Data_Media(@) EXCEPT !.id = storageid + 1]]
                 ELSE Partitions)
           /\ storageid' = IF automatic THEN storageid + 1 ELSE storageid
           /\ settings' = CASE settings # NoPath -> settings
                            [] settings = NoPath /\ automatic -> Data
                            [] OTHER -> IF first = 0 THEN NoPath ELSE Partitions[first].mount
    /\ phase' = "update" /\ pos' = 0
    /\ UNCHANGED <<start, pointers, world, seen>>

\* Find_Actual_Block_Device, as Update_Size calls it for entry i.
Update_Size(i) ==
    \E found \in Find_Wildcard_Block_Devices(Partitions[i], Partitions) :
        Partitions' = Located(Partitions, i, found)

\* A turn of the loop of Update_System_Details, and what comes after the loop;
\* it is called here and, by Refresh, after an operation.
UpdateOne ==
    /\ phase \in {"update", "refresh"} /\ pos < Len(Partitions) /\ pos' = pos + 1
    /\ Update_Size(pos + 1)
    /\ UNCHANGED <<start, phase, pointers, storages, world, seen>>

Update_System_Details ==
    /\ phase \in {"update", "refresh"} /\ pos = Len(Partitions) /\ pos' = 0
    /\ Partitions' = Write_Fstab(Partitions)
    /\ phase' = IF phase = "update" THEN "bind" ELSE "ready"
    /\ UNCHANGED <<start, pointers, storages, world, seen>>

Refresh ==
    /\ phase = "ready" /\ phase' = "refresh"
    /\ UNCHANGED <<start, pos, Partitions, pointers, storages, world, seen>>

\* setup_uevent binds its socket: what happens from here on is heard of.
setup_uevent ==
    /\ phase = "bind" /\ phase' = "coldboot"
    /\ UNCHANGED <<start, pos, Partitions, pointers, storages, world, seen>>

Watched(d) == \E i \in DOMAIN Partitions : Partitions[i].sysfs = BusOf[d]
Uevent(action, d) == [action |-> action, disk |-> d]

\* Coldboot: the kernel is asked for an event of each disk there is.
Coldboot ==
    /\ phase = "coldboot" /\ phase' = "ready"
    /\ \E disks \in SetToSeqs({d \in plugged : Watched(d)}) :
          events' = events \o [k \in DOMAIN disks |-> Uevent("add", disks[k])]
    /\ UNCHANGED <<start, pos, Partitions, pointers, storages, nodes, plugged, plugs, seen>>

-----------------------------------------------------------------------------
(***************************************************************************)
(* Hot-plug                                                                *)
(***************************************************************************)
Listening == phase \in {"coldboot", "ready", "remove", "refresh"}

Plug(d) ==
    /\ Listening /\ Watched(d) /\ plugs < MaxPlugs
    /\ d \notin plugged
    /\ plugged' = plugged \cup {d}
    /\ events' = Append(events, Uevent("add", d))
    /\ plugs' = plugs + 1
    /\ shared' = (shared \/ \E e \in plugged : BusOf[d] = BusOf[e])
    /\ UNCHANGED <<start, phase, pos, Partitions, pointers, storages, nodes, mounts, stuck, late>>

\* ueventd makes the node of the disk, and then those of its partitions.
MakeNode(d) ==
    /\ d \in plugged
    /\ \E node \in Nodes(d) \ nodes :
          /\ node = d \/ d \in nodes
          /\ nodes' = nodes \cup {node}
    /\ UNCHANGED <<start, phase, pos, Partitions, pointers, storages, plugged, events, plugs,
                   seen>>

Unplug(d) ==
    /\ Listening /\ Watched(d) /\ plugs < MaxPlugs
    /\ d \in plugged
    /\ plugged' = plugged \ {d} /\ nodes' = nodes \ Nodes(d)
    /\ events' = Append(events, Uevent("remove", d))
    /\ plugs' = plugs + 1
    /\ UNCHANGED <<start, phase, pos, Partitions, pointers, storages, seen>>

\* The entry whose sysfs path the event has.
Entry(e) == SelectInSeq(Partitions, LAMBDA p : p.sysfs = BusOf[e.disk])
Event(action) == phase = "ready" /\ events # <<>> /\ Head(events).action = action

\* Handle_Uevent of "add"; there is no adopted storage.
HandleAdd ==
    /\ Event("add")
    /\ LET e == Head(events)
           i == Entry(e)
           T == [Partitions EXCEPT ![i].dev = e.disk, ![i].present = TRUE]
       IN  /\ \E found \in Find_Wildcard_Block_Devices(T[i], T) : Partitions' = Located(T, i, found)
           /\ late' = (late \/ (e.disk \in plugged /\ ~(Nodes(e.disk) \subseteq nodes)))
    /\ events' = Tail(events)
    /\ UNCHANGED <<start, phase, pos, pointers, storages, nodes, plugged, plugs, mounts, stuck,
                   shared>>

\* Mutant of Emptied: the device stays.
EmptiedButDevice(p) == [p EXCEPT !.present = FALSE, !.actual = None]

Emptied(p) == [p EXCEPT !.present = FALSE, !.dev = None, !.actual = None]

\* Handle_Uevent of "remove", up to the call of Remove_Uevent_Devices.
HandleRemove ==
    /\ Event("remove")
    /\ LET i == Entry(Head(events)) IN Partitions' = [Partitions EXCEPT ![i] = Emptied(@)]
    /\ phase' = "remove"
    /\ UNCHANGED <<start, pos, pointers, storages, world, seen>>

Without(f, S) == [m \in DOMAIN f \ S |-> f[m]]

\* The first entry that Remove_Uevent_Devices has still to erase.
Leftover == LET mount == Partitions[Entry(Head(events))].mount
            IN  SelectInSeq(Partitions, LAMBDA p : p.sub = mount)

\* A turn of its loop: the entry is unmounted and erased, even if it is in use
\* and stays mounted.
EraseOne ==
    /\ phase = "remove" /\ Leftover # 0
    /\ LET m == Partitions[Leftover].mount IN
       \/ mounts' = Without(mounts, {m}) /\ UNCHANGED stuck
       \/ m \in DOMAIN mounts /\ stuck' = TRUE /\ UNCHANGED mounts
    /\ Partitions' = RemoveAt(Partitions, Leftover)
    /\ UNCHANGED <<start, phase, pos, pointers, storages, world, shared, late>>

Remove_Uevent_Devices ==
    /\ phase = "remove" /\ Leftover = 0
    /\ phase' = "ready" /\ events' = Tail(events)
    /\ UNCHANGED <<start, pos, Partitions, pointers, storages, nodes, plugged, plugs, seen>>

\* TWPartition::Mount of an entry for a disk, or of what is on it; the disk
\* itself has a file system when it has no partitions.
OnDisk(p) == \E i \in DOMAIN Partitions :
    Partitions[i].sysfs # None /\ Partitions[i].mount \in {p.mount, p.sub}
Mountable(p) == p.actual \in nodes /\ (p.actual \in Disk => PartsOf[p.actual] = {})
Mount(i) ==
    /\ phase = "ready"
    /\ OnDisk(Partitions[i])
    /\ Partitions[i].canmount /\ Partitions[i].mount \notin DOMAIN mounts
    /\ Update_Size(i)
    /\ LET p == Partitions'[i] IN
       mounts' = IF Mountable(p)
                 THEN [m \in DOMAIN mounts \cup {p.mount} |->
                          IF m = p.mount THEN p.actual ELSE mounts[m]]
                 ELSE mounts
    /\ UNCHANGED <<start, phase, pos, pointers, storages, world, stuck, shared, late>>

\* TWPartition::UnMount of it, when it is not in use.
UnMount(m) ==
    /\ phase = "ready" /\ m \in DOMAIN mounts
    /\ mounts' = Without(mounts, {m})
    /\ UNCHANGED <<start, phase, pos, Partitions, pointers, storages, world, stuck, shared, late>>

TableNext ==
    \/ ReadFstab \/ ReadFlags \/ ReadVendor \/ EndOfFile
    \/ SetupOne \/ Setup_Fstab_Partitions \/ setup_uevent \/ Coldboot
    \/ UpdateOne \/ Update_System_Details \/ Refresh
    \/ HandleAdd \/ HandleRemove \/ EraseOne \/ Remove_Uevent_Devices
    \/ \E d \in Disk : Plug(d) \/ MakeNode(d) \/ Unplug(d)
    \/ \E i \in DOMAIN Partitions : Mount(i)
    \/ \E m \in DOMAIN mounts : UnMount(m)

TableSpec == TableInit /\ [][TableNext]_tableVars

-----------------------------------------------------------------------------
(***************************************************************************)
(* Properties                                                              *)
(***************************************************************************)
Entries == [mount : Paths, link : Paths, dev : Text, actual : Text, sysfs : Text,
            wild : BOOLEAN, present : BOOLEAN, canmount : BOOLEAN,
            method : {"none", "files", "image"}, storage : BOOLEAN, settings : BOOLEAN,
            id : Nat, sub : Paths, hassub : BOOLEAN]

\* The entries, and what is there of the disks.
TableTypeOK ==
    /\ start \in Boots
    /\ phase \in {"fstab", "flags", "vendor", "setup", "update", "bind", "coldboot", "ready",
                  "remove", "refresh"}
    /\ pos \in Nat /\ auto_index \in Nat /\ storageid \in Nat /\ plugs \in 0 .. MaxPlugs
    /\ Partitions \in Seq(Entries) /\ settings \in Paths
    /\ {data_entry, meta_entry, stuck, shared, late} \subseteq BOOLEAN
    /\ plugged \subseteq Disk
    /\ nodes \subseteq start.there \cup UNION {Nodes(d) : d \in plugged}
    /\ events \in Seq([action : {"add", "remove"}, disk : Disk])
    /\ DOMAIN mounts \subseteq Paths /\ mounts = [m \in DOMAIN mounts |-> mounts[m]]

IsChild(p) == p.mount.part # 0

\* Get_Default_Storage_Partition.
Get_Default_Storage_Partition ==
    LET flagged == SelectInSeq(Partitions, LAMBDA p : p.storage /\ p.settings)
        first == SelectInSeq(Partitions, LAMBDA p : p.storage)
        res == IF flagged # 0 THEN flagged ELSE first
    IN  IF res = 0 THEN NoPath ELSE Partitions[res].mount

\* A file has a line for /data that makes an entry.
DataIn(file) == \E k \in DOMAIN file : file[k].mount = "data" /\ file[k].fs \in {"files", "image"}

\* The last line of the vendor's fstab about /data is line k.
LastAboutData(k) ==
    /\ start.found /\ k \in DOMAIN start.vendor /\ About(start.vendor[k]) = Data
    /\ \A m \in k + 1 .. Len(start.vendor) : About(start.vendor[m]) # Data

\* However the files, the devices that are missing and the disks that come and
\* go combine: a mount point is one entry's, /data is what the vendor's last
\* line for it says, unless twrp.flags alone described it before or that line
\* is overtaken by one for /datadata; a storage of the files has an id of its
\* own for MTP; and the default storage is the one the settings were put on.
TableSound ==
    LET files == {i \in DOMAIN Partitions : ~IsChild(Partitions[i])}
    IN  TableTypeOK /\ (phase \in {"bind", "coldboot", "ready", "remove", "refresh"} =>
        /\ \A i, j \in files : i # j => Partitions[i].mount # Partitions[j].mount
        /\ \A k \in DOMAIN start.vendor :
              LET l == start.vendor[k] IN
              (/\ LastAboutData(k) /\ l.mount = "data" /\ l.fs = "files"
               /\ DataIn(start.fstab) \/ ~DataIn(start.flags))
                 => \E i \in files : Partitions[i].mount = Data /\ Partitions[i].dev = l.dev
        /\ \A i, j \in files : Partitions[i].storage =>
              Partitions[i].id # 0 /\ (i # j => Partitions[i].id # Partitions[j].id)
        /\ Get_Default_Storage_Partition = settings)

\* When all events are handled: what is left of a disk that was pulled out is
\* at most a mount that was in use; what is plugged in is listed, each partition
\* once, under a mount point of its own, and what is mounted there is it.
\* Excepted are two disks behind one entry, and a disk that was searched before
\* its nodes were there: the partitions found next are numbered from 1 again.
PlugAgrees ==
    LET E == DOMAIN Partitions
        children(i) == {j \in E : Partitions[j].sub = Partitions[i].mount}
        there(i) == {d \in plugged : BusOf[d] = Partitions[i].sysfs}
    IN  (phase \in {"ready", "refresh"} /\ events = <<>>) =>
        /\ \A i \in E : (Partitions[i].sysfs # None /\ there(i) = {}) =>
              /\ ~Partitions[i].present /\ children(i) = {}
              /\ \A m \in DOMAIN mounts :
                    m.part # 0 /\ Numbered(m, 0) = Partitions[i].mount => stuck
        /\ \A i, j \in E : (i # j /\ IsChild(Partitions[i])) =>
              Partitions[i].actual # Partitions[j].actual
        /\ (~shared /\ ~late) => \A i \in E : Partitions[i].sysfs # None =>
              /\ UNION {PartsOf[d] : d \in there(i)} = {Partitions[j].actual : j \in children(i)}
              /\ \A j, k \in children(i) : j # k => Partitions[j].mount # Partitions[k].mount
              /\ ~stuck => \A j \in children(i) : Partitions[j].mount \in DOMAIN mounts =>
                              mounts[Partitions[j].mount] = Partitions[j].actual

=============================================================================
