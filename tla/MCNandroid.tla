------------------------------ MODULE MCNandroid ------------------------------
(***************************************************************************)
(* A listed file system with one subpartition, then a listed image:        *)
(* the tar child, the block copy and the parent's digest all occur, with a *)
(* tar_fork_pid that is stale while the images are copied.  They run on    *)
(* the table of one start; the others are about the table: two disks, one  *)
(* of them with two partitions, behind one sysfs entry, lines of the       *)
(* vendor's fstab that replace others, and devices that are missing.       *)
(***************************************************************************)
EXTENDS Recovery, TLC

CONSTANTS data, datadata, boot

MCSub == (data :> <<datadata>>) @@ (datadata :> <<>>) @@ (boot :> <<>>)

MCMethod == (data :> "files") @@ (datadata :> "files") @@ (boot :> "image")

MCMountOf == (data :> Path("data")) @@ (datadata :> Path("datadata")) @@ (boot :> Path("boot"))

DataThenBoot == <<data, boot>>

-----------------------------------------------------------------------------
\* Lines of version 1 and 2, with flags, and a /devices/ line.
Line(mount, dev, fs, v2) ==
    [mount |-> mount, dev |-> dev, fs |-> fs, v2 |-> v2, flags |-> {}, sub |-> NoPath,
     sysfs |-> FALSE]
V1(mount, dev, fs) == Line(mount, dev, fs, FALSE)
V2(mount, dev, fs) == Line(mount, dev, fs, TRUE)
Flagged(line, flag) == [line EXCEPT !.flags = {flag}]
Auto == [V2("auto", "usb", "files") EXCEPT !.sysfs = TRUE]

Start(fstab, flags, vendor, disks) ==
    [fstab |-> fstab, flags |-> flags, vendor |-> vendor, found |-> vendor # <<>>,
     media |-> FALSE, there |-> {"mapper", "userdata", "userdata2", "boot_a", "card"},
     plugged |-> disks]

\* Nandroid's.
Old == Start(<<V1("data", "userdata", "files"), V1("datadata", "mapper", "files"),
               V1("boot", "boot_a", "image")>>, <<>>, <<>>, {})

\* twrp.flags gives /data another device and a flag; the vendor has two lines
\* for it, the second for another file system.
Usual ==
    Start(<<V2("system", "mapper", "files"), V2("data", "userdata", "files"),
            V2("data", "userdata", "files"), V2("boot", "boot_a", "image"), Auto,
            V2("metadata", "mapper", "files")>>,
          <<V1("boot", "boot_a", "image"), Flagged(V1("data", "card", "files"), "storage"),
            V1("misc", "card", "image")>>,
          <<V2("system", "mapper", "files"), V2("metadata", "userdata2", "files"),
            V2("data", "userdata", "files"), V2("data", "userdata2", "files")>>,
          {})

\* The settings storage is missing, another one is there; the vendor's line for
\* /datadata comes after that for /data.
Missing ==
    Start(<<V2("emmc", "gone", "files"), Auto,
            Flagged(V2("sdcard", "card", "files"), "settingsstorage"),
            V2("data", "userdata", "files")>>,
          <<>>,
          <<V2("data", "userdata2", "files"), V2("datadata", "mapper", "files"),
            V2("cache", "mapper", "unknown")>>,
          {"sda"})

\* /data only in twrp.flags, and a storage.
FlagsOnly ==
    Start(<<Auto, V2("boot", "boot_a", "image")>>,
          <<V1("data", "userdata", "files"), Flagged(V1("sdcard", "card", "files"), "storage")>>,
          <<V2("data", "userdata2", "files")>>,
          {"sda"})

\* RECOVERY_SDCARD_ON_DATA, and a wildcard whose disk is there from the start.
OnData ==
    [Start(<<V1("external_sd", "sda", "files"), V2("data", "userdata", "files"),
             V2("cache", "mapper", "unknown")>>, <<>>, <<>>, {"sda"})
        EXCEPT !.media = TRUE]

MCText == STRING
MCBoots == {Old, Usual, Missing, FlagsOnly, OnData}
MCPartsOf == ("sda" :> {"sda1", "sda2"}) @@ ("sdb" :> {})
MCBusOf == ("sda" :> "usb") @@ ("sdb" :> "usb")
=============================================================================
