# Verification of twrpdtgen-sprd

TLA+ models of this repository, the TLC runs that check them and the TLAPS
proofs about them. The repository is a device tree generator (`src/twrpdtgen`,
Python and two shell script templates) and the source overlay its device trees
carry: replacements for files of the TWRP recovery (`src/SourcePatches` for
TWRP 12.1, `src/SourcePatches14` for 14.1, `src/HimaxPatches` for one touch
controller), in C and C++.

Contents: 1 inventory, 2 the modules, 3 the runs, 4 bounds, 5 fairness,
6 proofs, 7 what is only model-checked, 8 what is not modelled, 9 what the models
found, 10 what could come next.

## 1. Inventory

Every component is a row of `components` in `PROJECT.json`; every hazard, at its
line, is a row of `hazards`, with the properties that watch it.

**Source overlay scripts** (`sprd_patch.sh.jinja2`, `sprd_recovery.sh.jinja2`).
State: the TWRP checkout, and for each device tree `prebuilt/sourcecode/files`
(the overlay), `original` (the saved originals) and `source-files.txt`.
Operations: `patch.sh [--force|--check]`, `recovery.sh`. Several trees may share a
checkout; the generator deletes a tree with its saved originals when it runs again;
the developer edits the checkout. Hard: every `cp -p` may be interrupted, loops
stop half way, what one run left is the input of the next. Correct when success
means the whole manifest, and when no content is lost that the scripts promise to keep.

**Device tree generator** (`device_tree.py`, `source_patches.py`, `main.py`) and **image
parsers** (`vendor_boot.py`, `legacy_boot.py`, `sprd.py`). State: the output folder,
which survives from run to run; the parsers have none. Operation: `dump_to_folder`,
a dozen steps over three layouts, and a selection of overlay files that depends on
branch and board. Hard: interruptions, leftovers that `rmtree(ignore_errors=True)`
did not delete, sizes and offsets that come from the image, nested and repeated
device tree nodes. Correct when a finished tree is of one image and one run, when a
folder that has `patch.sh` has all it copies, when the overlay fits its branch,
and when an image that is accepted is understood as its header says.

**Nandroid backup and restore** (`partitionmanager.cpp`, `partition.cpp`). State:
the backup folder with its archives, images and digests, `stop_backup`,
`tar_fork_pid`, the partitions. Operations: `Run_Backup`, `Run_Restore`,
`Cancel_Backup`. The operation thread, the tar child it forks, and the GUI thread
that cancels share all of it without a lock. Correct when true means a whole
backup, false a folder without what can be cleaned from it, when a restore that stops half
way has a known cause, and when all threads come to an end.

**Partition table and hot-plug** (`partitionmanager.cpp`, `partition.cpp`). State: the list
`Partitions`, each entry with its devices, flags and parent; the settings storage. Operations:
`Process_Fstab` over recovery.fstab, `twrp.flags` and the vendor's fstab,
`Setup_Fstab_Partitions`, `Update_System_Details`, `Handle_Uevent`, which adds and removes the
partitions of a disk. Hard: entries that replace others through a pointer kept from an earlier
file, searches that add entries and are repeated, events that come before a disk's nodes or after
the next disk. Correct when a mount point is one entry's, `/data` is what the vendor says, and the
list agrees with the disks that are there.

**libtar** (`libtar/append.c`, `block.c`, `extract.c`). State: the archive, the cache of
hard links, the header buffer. Operations: `tar_append_file`, `tar_append_eof`,
`th_read`, `tar_extract_file`. Hard: files that change while they are read, torn
writes, attributes that must be split into blocks and found again. Correct when
what is extracted is what was archived.

**Mount, wipe and format**, **decryption**, **metadata encryption** (`partition.cpp`,
`partitionmanager.cpp` of both branches, `MetadataCrypt.cpp`). State: the flags of
`/data`'s `TWPartition`, `Users_List`, values of the data manager, properties;
and what they speak of: the file system, the metadata key, the dm device, the
fscrypt keys of the mount. Operations: start-up, `Decrypt_Device`, `Mount`, `UnMount`,
`Factory_Reset`, `Wipe_Encryption`, `Wipe_Media_From_Data`, `Repair`. Hard: each
may fail half way and leave flags and device apart; init restarts a recovery that ended
on top of a mapped device. Correct when operations reach the device that is
mounted, a format leaves no data and no key, a factory reset leaves the media, and the password is asked for.

**Key storage** (`SourcePatches14/system/vold/KeyStorage.cpp`). State: key
directories (synced or not), Keystore's keys, the storage binding state of the boot.
Operations: `storeKeyAtomically`, `retrieveKey`, `destroyKey`,
`setKeyStorageBindingSeed`. Hard: crashes between any two system calls. Correct
when a key is there whole or not at all, stays once it was reported, and is gone
once its destruction was reported.

**USB storage and MTP** (`partitionmanager.cpp`, `partition.cpp`). State: the MTP
server's pid and pipe, what it serves, what is mounted, the lun files, the USB
configuration. The server is a forked child that reads messages at its own pace.
Hard: each call may fail, the card may go at any moment, other children come and end.
Correct when what is handed to the host is not mounted, what is erased is not served, and MTP comes back.

**Data manager** (`data.cpp`). State: values in three maps behind one mutex, the settings
file, on the storage or, when that is not mounted, in the ramdisk below it.
Operations: `SetValue`, `SetBackupFolder`, `ResetDefaults`, `LoadValues`, `Flush`, called
by the GUI and the operation thread. Hard: folders derived outside the mutex, a file that
is rewritten in place, is not synced, and whose failing writes go unnoticed. Correct when folders follow the
chosen storage and what a save left on the storage comes back.

**Haptics** (`minuitwrp/events.cpp`, the SC27XX part). State: a mutex, a condition
variable, the pending timeout, the input device. Hard: lost and spurious wakeups,
failures with the lock held. Correct when the latest request is played, the
device is quiet between requests and no caller waits for the motor.

**Input events** (`minuitwrp/events.cpp`). State: the devices, in the order of readdir,
their last axes, and the static variables of `vk_modify`, shared by all devices.
Operations: `ev_init`, `ev_get` with its reload, `vk_modify`. Hard: events of several
devices, devices that come and go during a touch, drivers that report a lift in
five ways. Correct when the GUI sees whole gestures of the first finger.

**DRM graphics** (`minuitwrp/graphics_drm.cpp`). State: two buffers, the current one, the
blank state; the kernel's pipeline, which may show the bootloader's splash. Operations: `drm_init`, `drm_flip`, `drm_blank`,
`drm_exit`. Hard: commits that fail and are only printed. Correct when what is shown
is at most one frame behind and blanking is what the recovery thinks it is.

Not modelled: **dynamic partitions, slots and snapshots**, **Apex loader**, **fastboot
device**, **build files**, **makefile templates**; section 8 says why.

How they interact: `Recovery` composes `PartitionTable` with `Nandroid`, whose operations look
partitions up in the table; the generator writes the tree whose scripts `SourceOverlay`
models; `DeviceTree` applies `BootImage`'s parsers to its images. `Nandroid` takes the
archive of a partition as one file, whose inside is `Archive`. `DataVolume` has the keys
of the metadata encryption as one bit, which is what `KeySlot` promises of a slot.
`UsbStorage` takes `/data` as something that is mounted or not, which is `DataVolume`'s subject.

## 2. The modules

Actions are named after the functions they model where a function is one step; the
`map` of `PROJECT.json` gives the lines of each definition. A definition that starts
with "Mutant of" is a plausible bug in the definition below it. No specification uses it:
it is put in its place to see that the property fails.

**`SourceOverlay`.** `source` is the content of each file of the checkout, `backup`
and `overlay` those of each tree's `original` and `files`. A running script is
`phase`, `tree`, `force` and the manifest line `pos`. A loop of the script is an
action per file (`ValidateTarget`, `SaveOriginal`, `CompareTarget`, `CheckBackup`,
`RestoreFile`); a `cp` is two steps with a torn file between them, and `Interrupt` stops
a script anywhere. `Edit` is the developer, with an editor or with git and repo, `Regenerate` the generator's removal of the
tree. `--check` changes nothing and is the operator `Report`. `allowed` is the set of
disturbances of a behaviour, so that properties can say what they need.

**`BootImage`, `DeviceTree`.** `BootImage` has no state: sections, fragments and their
checks as predicates of a header, and the device tree parser as a fold over the tokens
of a flattened device tree; next to it stands a definition by depths of the same
result, without a stack. `DeviceTree` applies them to its images. A file of the output is the run
that wrote it and its form (stock, without AVB, rendered, hooked); a step of
`dump_to_folder` is an action; `RemoveOldTree` may leave any set of files, and
`MakeFolders` fails over what is left. The overlay's lists are sets of paths;
`source_patch_path` picks a directory for each and fails when the file is not bundled.

**`Nandroid`.** `opc`, `entry`, `nth`, `remain` are the operation thread; `child` is
tar; `cpc` is `Cancel_Backup`, one action per access to shared state, since nothing
locks them. `file` and `sum` are the backup folder, `archive` and `disk` what a
restore reads and writes. Steps that can fail do so when `faulty`; `unremoved` remembers a removal that
did. `Split` are the file systems whose archive tar writes in parts, `.win000` and on, which `Clean_Backup_Folder` does
not find. An archive may be broken: tar then fails after the wipe, unless the digest was looked at before.

**`PartitionTable`, `Recovery`.** The table is a sequence of records, in the order of `Partitions`; a
mount point is a name with the number of an `auto` line or of a partition found on a disk. Each loop of
the code is a loop here: `ReadFstab`, `ReadFlags` and `ReadVendor` take one line, `SetupOne` and `UpdateOne` one entry,
`EraseOne` erases one; `pos` is how far the loop is. `data_entry` and `meta_entry` are the pointers
`data` and `meta`, of which only whether they are set matters, since they stand at the last entry
for their mount point. `Find_Wildcard_Block_Devices` finds the nodes of a disk in any
order `readdir` may give. A disk is plugged in (`Plug`), its nodes are made one by one (`MakeNode`), and its event
waits in `events` until `HandleAdd` or `HandleRemove` takes it. `stuck`, `shared` and `late` remember that a mount
was in use when its disk went, that two disks were behind one entry, and that an event was handled
before its disk had all nodes. In `Recovery` an operation of `Nandroid` begins only on a table
that `Describes` its partitions, their methods and subpartitions; from there on the two go on beside each other.
`WellWritten` says what the files of a start may contain; section 8 says what it leaves out.

**`Archive`.** An archive is the sequence of its blocks; a block is a record of what is in
it, so that data, attributes and headers can be taken for each other as in the code. The
writer appends a member block by block while a file may be resized (`Resize`) and may be
torn anywhere; the reader reads headers, long names and attribute blocks into `th`, as
`th_read` does, and extracts each kind of member over what a wipe left (`kept`). An attribute that
cannot be read or set is passed over (`unset` remembers the path), any other failing call ends the extraction (`refused`).

**`DataVolume`.** `disk`, `media`, `keydir`, `unencrypted` survive a reboot; `dm`, `prop`, `mounted`,
`de`, `ce`, `decrypt` survive a restart of the recovery; `dat`, `vals`, `Users_List` are its
memory. `branch` says which overlay was built. Start-up is a chain of actions
(`SetupMapped`, `SetupPlain`, `SetupMedia`, `Decrypt_Data`, `MetadataDecrypt` with its
attempts, `MountMapped`, `DefaultPassword`); then come the pages' operations, each with
failing alternatives, the format in steps so that power may go between them. Where `Wipe` has no tool for
a file system, or is told not to use it, it removes the files (`Wipe_RMRF`), and succeeds whatever is left; `erased`
remembers which partitions that was last done to. `Reboot` and
`Restart` may happen anywhere. Facts the model brings out: `tw_is_encrypted` is
set at each start; after a restart `Decrypt_Device` may return 0 over an empty
`Users_List`; 14.1's `Wipe_Encryption` leaves the dm device; `Users_List` is never cleared.

**`KeySlot`, `KeyStorage`.** `KeySlot` is what callers rely on: a key reported as stored
stays until it is given up, a key reported as destroyed never comes back.
`KeyStorage` has one action per system call or Keystore call. `fs` is what a running
vold sees; `older` are the earlier directory trees a crash may bring back because no
fsync covered the change; a directory that was not synced may lose any entry.
The refinement maps a slot's value to the key `retrieveKey` would return.

**`UsbStorage`.** An operation is the sequence `todo` of steps it has left; each step is
an action, so that uevents, the server (`Serve` reads one message of `pipe`) and
other children of the recovery come in between. The GUI is external: while mass storage is
on only its end is offered, as TWRP's own page does. `ClearLun` writes nothing, since the string it is given is empty.
`fresh` are the lun files written since mass storage was switched on, `stolen` counts the children `waitpid(0)` reaped.

**`Settings`.** Each call of a thread is the sequence of its accesses to shared state (`doing`);
the mutex is held within a step, except for a save, which is two steps. `disk` and `ram` are
the two files the same path may be; the one on the storage hides the other while mounted. `stable` is
what of `disk` a power cut leaves: nothing syncs a save, so it gets there by `WriteBack` or an unmount. A save may
fail to open the file (`SaveFails`) or to write all of it (`FinishFile`), and its thread does not notice; `flushed` is
what the last save that got through left on the storage, `synced` whether that is in `stable`.
`Unmount` and `Reboot` come in between.

**`Vibration`, `Haptics`.** `Vibration` is a mailbox of one request that a newer one
replaces, and a motor. In `Haptics` the mutex is `lock`; a critical section is split at
each call that may fail; `pthread_cond_wait` releases the lock and is left by a signal
(`Post`) or without one (`SpuriousWakeup`). `effects` counts what is in the device.

**`Touch`.** A driver reports a change of the fingers as a frame of events (`MoveFinger`), with only
the axes that changed, as the input core sends them. `Poll` marks the devices with
events, `Read` reads one event of one device and is `ev_get` with `vk_modify`, whose
static variables are `st`; `evs` is kept by index. `Replug` changes `/dev/input`, which
`Reload` finds at the next poll: it closes, forgets what is queued, and lists the devices in any order.

**`Display`.** Kernel objects are what they show: the buffer of each plane, whether the pipeline is
on. A buffer's content is its age in flips. The choice of connector, CRTC and planes follows
the code; each kernel call fails or not; modesets are legacy or atomic. The main screen may be lit from the
start, with the bootloader's `Splash`; `modeset` remembers that a modeset of the recovery got through.

**MC modules** (`MCSourceOverlay`, `MCDeviceTree`, `MCNandroid`, `MCKeyStorage`, `MCUsbStorage`,
`MCHaptics`, `MCTouch`, `MCSettings`, `MCDataVolume`, `MCArchive`, `MCDisplay`) give TLC's
instances. **Proof modules**: `SourceOverlayProofs`, `DataVolumeProofs`, `UsbStorageProofs`,
`DeviceTreeProofs` and `PartitionTableProofs` are about the modules they are named after; `MinuiProofs` is
about the three parts of minuitwrp, `Haptics`, `Display` and `Touch`; `PersistenceProofs` about what outlives a power cut, `KeyStorage` and `Settings`;
`RecoveryProofs` about `Nandroid`, the hot-plug of `PartitionTable`, and `Recovery`, which composes them.

## 3. The runs

| Run | Checks | Shows |
| --- | --- | --- |
| `SourceOverlay_all` | SuccessIsComplete, KeepsBase, KeepsEverything | success is complete under every disturbance; what ends a file's safety, and that nothing else does |
| `Nandroid_all` | SuccessIsWhole, FailureIsClean, DamageHasCause, ThreadsEnd, TableSound, PlugAgrees | `Recovery`: the table from five starts, two disks that come and go, and two operations on it with a cancel at any moment, on good and failing storage, with split and broken archives |
| `KeyStorage_all` | NoTornKey, OneBindingPerBoot, KeepsAndDestroys | atomic storing, and `KeyStorage` implements `KeySlot` |
| `DeviceTree_all` | SuccessIsFresh, ScriptMeansWholeTree, OverlayFits, RecoveryRootFits, SectionsApart, ImageUnderstood | two runs over each other's leftovers; images of many shapes |
| `UsbStorage_all` | ServedIsMounted, Exclusive, ZombieForOther, MtpComesBack | three operations, each kind of fault, children that come and go |
| `Haptics_all` | LockDiscipline, QuietAtRest, PlaysLatest | `Haptics` implements `Vibration`, liveness included |
| `Touch_all` | GuiAgrees, GestureOrder, FirstFinger, TouchEnds | gestures, with events of several devices interleaved and reloads |
| `Settings_all` | FoldersFollow, FlushedComesBack | two threads, failing and unsynced writes, power cuts, unmounts, both places of the file |
| `DataVolume_all` | FormattedIsKeyless, ActualIsMounted, AsksForPassword, MediaSurvives, CallsReturn | both branches, every start-up, three operations, formats by rm -rf, restarts anywhere |
| `Archive_all` | ContentComesBack, AttributesComeBack | archives of three members, torn and resized, attributes lost on the way |
| `Archive_policy` | PoliciesComeBack, violated | section 9 |
| `Display_all` | AtMostOneBehind, BlankAgrees | several screens, dark or with a splash, each kernel call failing or not |

What some properties except, because the code does it (the hazards name the lines):

- `KeepsBase`: the pristine content of a file is safe when some tree saved it, or when it is in the
  checkout and every tree would save it before it overwrites. The property says that only three steps end that: an interruption of
  the `cp` that saves it, the generator's removal of a tree that held a saved copy, and the developer's change
  of a file no tree had saved. It does not say that a synced file is safe again: edited, then saved by
  patch.sh as the original, then synced, it is overwritten by `--force` without a copy.
- `FailureIsClean`: parts of split archives, and what could not be removed.
- `DamageHasCause`: on good storage a restore stops half way only at the flag of a cancelled backup, or at a
  broken archive whose own digest nobody looked at (none, with digests off, or a subpartition's). So a partition
  whose digest was checked is never wiped in vain for its archive's sake.
- `Exclusive`: it watches the storages written into lun files since mass storage was switched on, until line 2361 of
  `partitionmanager.cpp` mounts all storages; from there to 2365 the host still has them, because nothing cleared
  the lun files. For MTP it says that the server was told, not that it has read the message.
- `FormattedIsKeyless`: data or keys that `rm -rf` was to remove. `AsksForPassword` excepts data formatted that way.
- `FlushedComesBack`: what was not synced when power went, a save that failed half way, or one whose storage was
  unmounted in its middle.
- `AttributesComeBack`: the paths for which a call for an attribute failed.
- `BlankAgrees`: a screen taken for blank may show the splash until a modeset got through.

The type invariant of a module is a conjunct of one of its run's invariants.
Deadlock is not checked where the system may stop: `SourceOverlay` and `KeyStorage` can always go
on, `Archive` and `Display` have an explicit end; `Archive_policy` and the others stop when a
bound on runs, operations or calls is reached and everybody is idle.

## 4. Bounds

- `SourceOverlay`: two files, two trees, two packaged contents, one local content. A
  loop has a first and a last line and an earlier tree can have changed a shared file (507,304 states);
  the proofs lift the bound for what they cover. Nothing else is bounded.
- `DeviceTree`: two runs (`MaxDumps`), enough for leftovers. The images vary together the
  features that meet in one function. Headers are a sound one with any two fields changed to values
  at and beside each limit; device trees have up to four pieces (a node's begin or end, a
  broken token, a panel, a size, coordinates), and several follow each other in an image.
- `Nandroid`: a list of two entries, one with a subpartition, one an image of two blocks
  (`Blocks`: one to stop before and one to stop after), two operations (`MaxRuns`): a
  cancelled backup and the operation that comes after it. One of the file systems is `Split`. With the table, 523,593 states.
- `PartitionTable`: five starts, in which the cases of the code meet (a line twice, overrides and flags of `twrp.flags`,
  `/data` replaced, replaced twice, overtaken by `/datadata` or only in `twrp.flags`, a settings storage that is missing,
  a wildcard, `RECOVERY_SDCARD_ON_DATA`); a disk with two partitions and one with none behind the same entry; two
  disks plugged in or out (`MaxPlugs`): one that goes and comes again, or two at once. The table alone has
  113,026 states; with three plugs its invariants hold as well (711,112). The proofs lift all of these bounds.
- `Archive`: three paths, two of which may be one inode, two with long names; sizes 0, 1, one
  block and one byte more; a torn write lacks up to three of the blocks
  before it (`MaxTorn`); what a wipe leaves is nothing, the
  directory or the last member. One path may have an attribute that fails unnoticed (`MaxUnset`), in an
  archive of files that do not change; 2,682,694 states.
- `DataVolume`: the owner and another user, three attempts of the metadata decryption (the
  code has 25), three operations after a start: one that fails, one over what it left,
  one that must cope. Starts are not bounded.
- `KeyStorage`: one key path and the temporary one, two storing attempts (`MaxKey`). Two
  key paths do not finish in reasonable time; the proofs cover any number. Keystore
  keys are used (`UsesKeystore`), the other authentication takes fewer steps.
- `UsbStorage`: a card and `/data`, three operations (`MaxOps`): MTP, mass
  storage and its end. `Faults` are tried one at a time and four together. One other child at a time, forked
  again as often as it ends.
- `Settings`: two threads, the default storage, a card and one that has no partition, five
  calls, so that both threads set, save and load (4,665,767 states).
- `Haptics`: two callers, four calls (`MaxCalls`), so that a request comes while the
  worker is in every place; a short, a longer, an unlimited and a refused timeout.
- `Touch`: three changes of the fingers (down, move or second finger, up), two events of other
  devices, a frame is added when at most one event waits (`MaxQueue`), five drivers, two
  orders of the devices, three positions of which one is a virtual key.
- `Display`: six layouts of connectors, two sets of planes, one, two or four layer mixers, each with a plane; ages up to
  three, where the properties tell 0, 1 and more apart.

## 5. Fairness

Weak fairness only, on what a running thread does: the script's next command
(`SourceOverlay`), the operation thread, the tar child and a canceller that was started
(`Nandroid`), the operation and the MTP server (`UsbStorage`), the callers inside `vibrate`
and the worker (`Haptics`), the GUI loop's reload, poll and read (`Touch`), the start-up, a
decryption and a format under way (`DataVolume`). Nothing makes a user start an operation,
a call fail, a card go, a finger move or a crash happen. `CallsReturn` allows that the
recovery is rebooted or restarted for ever. `DeviceTree`, `KeyStorage`, `Settings`,
`Archive` and `Display` are checked for safety only.
`Haptics` also assumes that spurious wakeups do not go on for ever: the mutex is not a
queue, and a worker that wakes again and again could take it before a caller does.
With unbounded calls the worker would need more than weak fairness for the
mutex; `MaxCalls` hides that, as does the GUI, which does not call without a pause.

## 6. Proofs

Eight modules hold theorems. tlapm proves them for every value of the constants, under the
assumptions named in the modules. Each is laid out as: the invariant holds initially,
each action keeps it (a lemma per action), every step keeps it, and the temporal
step follows with PTL. No property is inductive as it stands; what is added is named.

`SourceOverlayProofs`, from `ContentAssumption`, `ManifestAssumption`,
`OverlayAssumption` and `ScenarioAssumption`:

- `TypeCorrect` and `Complete`: `SuccessIsComplete` speaks of the end of a script, and what
  makes it true is what the loops have done so far: `Validated` (targets exist up to
  `pos`), `Patched` (up to `pos` the file is the packaged one and its backup exists), `Checked`
  (backups exist), `Restored` (up to `pos` the file is its backup), `Original` (no tree saved its own overlay), `Pending` (a
  running script has no outcome). Distinct lines name distinct files
  (`LinesDiffer`), so that a later line does not undo an earlier one.
- `BaseIsKept` is the action property `KeepsBase`, which allows every disturbance. `StaysSafe` goes through the
  steps; `CopyIsTorn` says what is on disk while a save is under way.
- `PlainPatchKeepsEverything` is `KeepsEverything`: without `--force` patch.sh
  overwrites only what is equal to its backup. `PlainPatch` says that no forced or
  restoring run ever begins in such a behaviour.

`PartitionTableProofs`, from `TextAssumption` (some strings the code compares with are strings), `DiskAssumption` (disks
share no partition and are not each other's; sysfs paths are not empty) and `BootsAssumption` (every start is `WellWritten`):
`TableIsSound`, for any lines in any number, any disks and any number of events. The inductive invariant is `TableInv`:

- `TableOK` is about any two entries, wherever the program is: an entry of a line is no partition of a disk
  (`EntryOK`); two entries of lines have mount points of their own, two buses have sysfs paths of their own, two entries
  found on disks have nodes of their own, and one found on a disk belongs to the entry of its disk's bus, where there is one (`Apart`). This is needed
  because lines, searches and erasures go through the table by mount point, parent and node.
- `Parsing` says what a table that is being read has (`Read`, and for the first file `OfFstab`: entry by entry what its lines
  gave), `Pointer` that `data` is set exactly as long as there is something to erase, `Vendor` that the vendor's last word
  on `/data` stands. `TableSound` speaks of the end of the parse and says nothing of these.
- `Setting` is the invariant of the loop of `Setup_Fstab_Partitions` (`Chosen`: ids given so far, the settings storage found so
  far), `Storages` what it has established, which later searches do not undo (`Grew`: a table that grows keeps ids and
  the default storage).
- `Queue` says that events are for entries of the table, and that while nobody listens nothing of a disk is there.

What a search or an erasure does to a sequence is stated once, by index (`LocatedIs`, `CutIs`, `CutIndex`), and
everything else goes through that: `Permutes` (a sequence without repetitions as long as its set has all of it)
is how any order of `readdir` finds every partition.

`RecoveryProofs` has three parts.

- The operations, from `PartAssumption`: `TrueIsWhole`, `FalseIsClean`, `DamageIsExplained`. `Threads` says who
  may run beside whom (a child only while it is waited for, a canceller only of a backup
  that knows it was hit); `Listing` that the list is gone through in order; `Cleaned` when the
  folder is clean but for split archives and failed removals; `Written` that what the operation went past (`Visited`) is whole and digested, the
  current file excepted while it is being written; `Undamaged` that a
  restore on good storage fails before it touches a partition, at the flag of a cancelled backup, or at an
  archive that is broken and unchecked.
  `Advancing` and `AtEnd` say what `Visited` becomes when the operation goes on, and that at the end it is all
  there was to back up.
- The hot-plug: `TableAgrees`. `PlugAgrees` speaks of an empty queue, so its invariant `PlugInv`, beside `TableInv`, says
  what the events that wait will make of the table: `Gone` (when no disk of a bus is plugged in, a removal that no addition
  follows is still to come, or the entry has no device), `Told` (an addition is of the disk that the entry has or will
  get, and one that no removal follows is of the disk that is there), `Known` (after `Coldboot` the
  disk that is there is the entry's, or announced). `Childless`, `MountsListed` and `DisksFound` say what the table has of a disk
  once no removal of it waits: nothing without a device, no mount that is not listed, and of a disk all
  its partitions, each once and mounted as such. Two disks behind one entry and late nodes are excepted, as in the property.
- The composition: `HoldsOnAnyTable` carries the first part over to `Recovery`, whatever a table is made of and
  whatever disks come and go; its lemma `RecoveryIsNandroid` is so by the way `Recovery` is composed.
  `TableHoldsBesideAny` is the other direction: whatever operations run, fail or are cancelled, the table keeps
  `TableSound` and `PlugAgrees`.

`PersistenceProofs`, from `KeyStorageAssumption` and `NoDirAssumption` (`KeyStorage`): `NoTorn`, `OneBinding` and
`Implements`. A crash may
bring back any image in `older`, so the invariant is about every image a crash can leave, not
about `fs`: `SlotsWhole` (a key path has a whole key, unless given up), `TmpApart` (no image has
the temporary path's key at a key path, so that removing it harms none), `KeysBounded`, and
`Storing` and `Destroying`, what the call under way has done so far. `BindingInv` is
independent of them. `Implements` is `Spec => KeepsAndDestroys`, the whole refinement, since
`KeySlot` has no fairness. Added for it are `Distinct` (no two key paths have one key), `Kept` (a key
reported as stored is in every image), `Gone` and `Dead` (a key reported as destroyed has lost its
`encrypted_key` in every image), `Fresh` (an attempt is for a path that has no key, with a key
that nobody gave up).

`DataVolumeProofs`, from `DataVolumeAssumption`: `NoKeyIsLeft`, `OneDevice`, `Asked` and the action property
`MediaIsKept`. `DiskSound` says what the disk allows (what is mounted is of its kind, mapped devices
have a property), `StepsSound` how far a call has come, `FlagsSound` what the flags of the
partition are good for (once set up, a mapped mount has its device recorded, and media are known of),
`FormatSound` that a reported format stays one, but for what rm -rf was left to do, `Listed` that users to be decrypted are in the list,
`AskingSound` that the password is asked for. `MediaIsKept` needs `FlagsSound`: a factory reset
spares the media because `Has_Data_Media` is set whenever one can be asked for.

`PersistenceProofs`, from `SettingsAssumption` (`Settings`): `FoldersAreRight` and `SavedComesBack`. `OneAtATime` says
that, unless changes overlapped, at
most one thread is on its way from a new path to the folders, and what it has still to do
is exactly what the folders lack. `SavedComesBack` is about a promise whose file may lie on the
storage, synced or not, or in the ramdisk below it: `Promise` says that whichever of the two a later load will find has
the promised value, or is being replaced by a save that has it, and `SaveSound` what the thread
that holds the mutex has in its hands between emptying the file and writing it.

`UsbStorageProofs`, from `PartitionsAssumption`: `ServedStaysMounted`, `NeverBothWrite` and
`ZombiesAreCounted`. `End` says what may be left of an operation: which steps follow which
(`Follows`), and with which it may not end. `Served` is `ServedIsMounted` with the messages that are still
in the pipe: what the server will serve once it has read them is mounted. `Ready` says that an
unmount comes after the message that takes the storage away, and a lun file after the unmount; `LunsApart`
that what was written into a lun file is not mounted, and that nothing but the end of mass storage mounts anything meanwhile;
`UmsEnds` what is still to come while mass storage is on; `Zombies` that a killed server is waited for next, and
that those left are as many as the children reaped in their place (`stolen`).

`DeviceTreeProofs`, from `ImageAssumption`:

- `DoneIsFresh`, `ScriptIsLast`, `OverlayFitsBranch`, `RecoveryRootBoots` come from one invariant over
  the steps of `dump_to_folder`: `OfThisRun` (a file that this run has come past is of this run,
  a leftover can only be one that is still to be written), `MakefilesWritten`, `Growing` (what of the
  overlay has been copied so far), `Packed` (`patch.sh` is rendered after the overlay is whole),
  `RootGrows` (the recovery root has what its layout needs up to here).
- `SectionsNeverMeet` is `SectionsApart`, for images of any size with sections of any size: the sections of an
  accepted `vendor_boot` image and the fragments of its ramdisk lie one after the other, inside the
  file, as the header says. `InfoIsRead` says that what a run knows of the image is what the parser
  reads of it; the rest is arithmetic of pages (`AlignUp`, `NextPage`: rounding up
  ends at most one page later, on a page, and never before where it started) and of the checks the parser makes
  (`FragmentsTyped`, `SectionsFollow`).

`MinuiProofs`, from `ThreadAssumption` and `AskedAssumption` (`Haptics`), `DisplayAssumption`
(`Display`) and `InputAssumption` (`Touch`):

- `HapticsTypes`, `LockIsKept`, `LeftQuiet` come from one invariant. `QuietAtRest` is
  strengthened to what the device holds at each place of the worker (`Uploaded`,
  `Playing`, `OpenWhilePlaying`); `Created` says that the worker exists when it is marked as
  started; `Posts` that a caller on its way has a good timeout; `HasRequest` that the
  worker has a request exactly while it plays. `HapticsRefines`: each step of `Haptics` is
  a step of `Vibration` or a stutter, from the same invariant. This is the safety part of `PlaysLatest`.
- `BlankIsKnown` and `OneBehind`: `NotUp` (nothing of the recovery is shown before `drm_init` ends),
  `Together` (all planes show one buffer), `Turns` (the buffer drawn last is not the current
  one), `Flipped` (after a flip that succeeded the shown one is it).
- `GuiAgreesAlways` and the action property `Gestures`: what the GUI was told last is what the static
  variables of `vk_modify` remember of it, whichever device's event comes next and whatever a reload
  leaves of them. The invariant is `Gesture` (a discarded touch began on a key); `Outcome` says, for
  each of the four protocols that end a touch, what one call may do to the statics and to the GUI.
- `FirstFingerLeads` is the action property `FirstFinger`, for all six drivers, queues of any length
  and every interleaving of the devices. It is about events that are sent long before they are read, so its
  invariant `FingerIInv` looks ahead: from the present statics and axes, reading all that waits of the screen
  reports no place but the first finger's and ends at rest (`ScreenLeads`), where rest means
  that no axis waits for its SYN_REPORT, no lift is under way, and what `vk_modify` knows of slot and axes
  is what the input core will compare the next frame with (`AtRest`). This is no induction over
  the queue: `Follows` says it by a function of the states in between, which `FollowsOn` extends by the
  frame that `MoveFinger` adds and `FollowsHead` shortens by the event that `Read` takes. The rest is
  what each kind of event does to statics at rest, and where the frame of each driver leads (`FrameCarries`). Another
  device (`ReadAside`) has no axes of its own, since every device has one index (`OneIndex`: the three are
  different and readdir lists each), and its SYN_REPORT finds nothing of the screen waiting
  unless it cuts the touch, which sets `mixed`; `KernelAgrees` relates the fingers to the input core.

## 7. Only model-checked

- Liveness (`ThreadsEnd`, `MtpComesBack`, `TouchEnds`, `CallsReturn`, and the fairness of `Vibration`
  in `PlaysLatest`): the prover does not handle ENABLED, hence not fairness.
- `ImageUnderstood`, `ContentComesBack`, `AttributesComeBack`: they say what folds and
  recursive functions over an image's tokens or an archive's blocks compute, which takes induction
  over data; that is out of its reach too. They are checked on bounded inputs.

## 8. Not modelled

Components:

- Dynamic partitions, slots and snapshots: sequences of calls of liblp, libsnapshot and the boot
  control, whose state is outside this repository; a model of the code alone would have none.
- Apex loader: system calls on external images, once at start. fastboot device: a loop
  whose handlers are elsewhere. Build files and makefile templates: text.
- `KeyUtil.cpp` and `Keymaster.cpp` (12.1): the callers are not in the repository, and Keymaster
  forwards to a service.

In `PartitionTable`: adopted storage, slots, logical partitions, lost netlink messages, the mounts of `/vendor` and `/odm`
while files are read. `Update_System_Details` handles no event between two entries, though the operation thread walks the
list while an event of the GUI thread may change it. `WellWritten` leaves out files that the code accepts and no device
of this generator has: a second line of version 1 for a mount point (which makes two entries), an image at `/system`
(whose entry is not found by that name), a `/devices/` line of version 1, for `/data`, for a sysfs path that has another
line, or changed by `twrp.flags`, a line that names a partition found on a disk, and a subpartition of a removable storage.

Parts of modelled components: block encryption (FDE, 12.1 only) with the child that checks its
password; `Change_Filesystem`, `Resize`, wipes of other partitions, `mount_to_decrypt`; the space
arithmetic of `Run_Backup`, ADB streams, `Set_Restore_Files`; adopted storage; POSIX ACLs,
checksums and sparse files in libtar; the transformation of coordinates, the mouse and key
repeat; pixel formats and timings; header fields, bootconfig lines and build properties
that are passed on as they are; the texts of makefiles and of the fstab, and `--git`.

External, and modelled only by what the code relies on: the tar child's process, Keystore, the
MTP server's protocol, the kernel's file systems, input core, DRM and force feedback, the
synthetic password, the GUI's pages.

Differences between code and texts, or plain oddities, that no run shows:

- A backup torn by an interrupted `cp` counts as the saved original in the next run of
  `patch.sh` (without
  `--force` it refuses the file then, so that `KeepsEverything` holds; with it, it
  overwrites the only whole copy).
- When `patch.sh` refuses a file, those before it are replaced, and `recovery.sh` refuses the
  tree because later ones have no backup.
- Two trees that share a checkout save each other's files as originals; a regenerated
  tree has no originals to restore.
- A backup whose last archive had just been written when it was cancelled returns true while
  its folder is removed. The digests of subpartitions are not checked before a restore;
  the parent's is checked in their place.
- A vendor_boot image of Android 14 with a stock policy gives no tree: the template
  `sprd_recovery.te.jinja2` does not exist. The legacy recovery path copies the stock
  fstab, AVB keys included, over the stripped one. `cpio -idm` keeps the older of two files
  of the same age when fragments overlap. The device tree parser aligns its cursor to the file,
  not to the blob.
- `Disable_MTP` calls `waitpid(0)`: it may reap another child and leave the server a zombie
  (`ZombieForOther` says that nothing else does, and counts them). `usb_storage_disable` never reports a lun
  file it could not open, because `break` comes before `ret = -1`, and what it writes is the string
  made of `{0, 0}` (line 2351), which is empty, so that it clears none. The result of `Open_Lun_File` is not looked at
  for the second lun when another is found (2328, 2331), which may keep what it held in an earlier session.
- `ev_init` never clears `ignored`: after a reload in another order the touchscreen may stay
  ignored. `disable_non_main_crtcs` gives up at the first CRTC.
- `Find_Wildcard_Block_Devices` says (`partition.cpp:3150`) that each partition found gets a separate mount point, but counts
  from 1 in each search: partitions of a second disk, or of nodes that came after the event, share the mount points of
  those found before. `PlugAgrees` excepts both (`shared`, `late`).
- A second search that finds nothing new makes the entry of the disk itself present and mountable, beside
  those of its partitions. Removing one of two disks behind an entry removes the partitions of both.
- `Partitions` grows while `Update_System_Details`, `Mount_All_Storage` and others walk it with iterators.
- Flags of `twrp.flags` for `/data` are lost when the vendor's fstab replaces its entry, and those for `/system` because
  the entry is called `/system_root` when they are looked up. A vendor's line for `/datadata` removes the entry of `/data`.
- `isFsKeyringSupported` (`KeyUtil.cpp:98`) asks the kernel once: if `/data` cannot be opened then, each legacy key fails to
  install until the recovery restarts.
- `Clean_Backup_Folder` compares the last extension only and leaves the parts of a split archive. `SaveValues` is neither
  checked nor synced. `tar_append_file` and `tar_extract_file` go on without an attribute they cannot read or set.
- `tar_append_file` opens each member read-only, a fifo too, and would wait there for a writer (`append.c:309`); the model goes
  on. `drm_init` compares the number of planes before legacy mode sets `number_of_lms` to 1 (`graphics_drm.cpp:853`); the
  model allows more screens there, not fewer.
- `Wipe_RMRF` answers true whatever `removeDir` left. Its comment calls it the only wipe that leaves the partition mounted, though
  `Wipe_Data_Without_Wiping_Media` does too.

## 9. Findings

`Archive_policy`: `th_read` compares the size of a stored encryption policy with `strlen` of the
buffer (`libtar/block.c:363`). The reserved bytes of the structure are zero, so no stored
policy ever has that length: each is refused, and the tags that follow it in the same
block are lost with it. `libtar.h:127` says that the option stores the policy. In the
counterexample a directory is archived with a policy, the archive is whole, and the
directory that is created anew comes back without it.

## 10. What could come next

`KeyUtil`'s installation of keys would be a
module next to `KeyStorage` once its callers are part of the repository; block encryption
and the reading of its child's answer a variant of `DataVolume`'s start-up.
