------------------------------ MODULE DeviceTree ------------------------------
(***************************************************************************)
(* DeviceTree.dump_to_folder: an image is read, then a device tree is      *)
(* written step by step into the folder of its codename, over whatever an  *)
(* earlier run left there.  A run may be interrupted, or stopped by an I/O *)
(* error, between any two steps; rmtree ignores errors, so files of an     *)
(* earlier tree may survive it.                                            *)
(*                                                                         *)
(* An image is what decides the control flow: its layout, the fields of    *)
(* its header, what the properties say, which files the ramdisk has, and   *)
(* the device trees it carries.  A file of the generated tree is the run   *)
(* that wrote it and the form it has.                                      *)
(***************************************************************************)
EXTENDS BootImage

CONSTANTS
    Image,      \* the images the generator is run on
    Bundled,    \* <<directory, path>> of every file the overlays package
    MaxDumps    \* bound on the runs

Layout == {"vendor_boot", "traditional", "boot"}

\* Ramdisk files and detections the code branches on.  "hook": the board's
\* init rc already imports /init.custom.rc; "board": the board name is fit
\* for a file name; "avb": the fstabs carry AVB keys.
Feature == {"etc fstab", "system fstab", "vendor fstab", "first stage",
            "sepolicy", "common rc", "board rc", "hook", "board", "avb",
            "sprd", "ums", "ab", "haptics", "himax", "vendor"}

\* A table that fits has its entries; a v3 image has a ramdisk, if an empty one.
ASSUME ImageAssumption ==
    /\ Image \subseteq [layout : Layout, header : Header, releases : Seq(Nat),
                       has : SUBSET Feature, dtb : Seq(Blob), dtbo : Seq(Blob)]
    /\ \A i \in Image :
          /\ "ums" \in i.has => "sprd" \in i.has
          /\ i.layout = "traditional" => is_legacy_boot(i.header)
          /\ i.layout = "vendor_boot" =>
                /\ i.dtbo = <<>>
                /\ i.header.entries # <<>>
                /\ TableFits(i.header) => i.header.entry_count <= Len(i.header.entries)
    /\ MaxDumps \in Nat

Makefiles == {"makefiles", "twrp product", "omni product", "top fstab"}
Prebuilt == {"kernel", "dtb.img", "sepolicy.stock", "source-files.txt", "patch.sh"}
Root == {"first stage", "system fstab", "sepolicy", "board rc", "common rc",
         "custom rc", "vendor", "twrp.fstab", "init scripts"}
Helper == {"patch_stock_sepolicy", "recovery.te"}
Artefact == Makefiles \cup Prebuilt \cup Root \cup Helper

\* The templates directory has no sprd_recovery.te.jinja2.
Template == (Artefact \ {"recovery.te"})

VARIABLES
    image,     \* the image of the current or last run
    info,      \* what was read of it
    dump,      \* number of runs
    pc,        \* its next step, "idle" between runs
    outcome,   \* "done", "failed" (an exception) or "killed"
    survived,  \* rmtree could not remove something
    tree,      \* [dump, form] of every file of the device tree folder
    overlay    \* <<directory, path>> of the packaged source files

vars == <<image, info, dump, pc, outcome, survived, tree, overlay>>

NoImage == [layout |-> "boot", releases |-> <<>>, has |-> {}]
NoInfo == [sections |-> <<>>, compression |-> "none", screen |-> NoSize]
NoFile == [dump |-> 0, form |-> "none"]
Present(a) == tree[a] # NoFile
Has(f) == f \in image.has
IsVendorBoot == image.layout = "vendor_boot"
is_sprd_legacy_recovery == Has("sprd") /\ image.layout = "traditional" /\ ~Has("ab")

(***************************************************************************)
(* The source overlay (source_patches.py)                                  *)
(***************************************************************************)
\* _first_prop of the system's, the build's and the vendor's version; 0: none.
Release(i) ==
    LET known == SelectSeq(i.releases, LAMBDA r : r # 0)
    IN  IF known = <<>> THEN 0 ELSE known[1]

recovery_branch == IF Release(image) >= 14 THEN "twrp-14.1" ELSE "twrp-12.1"

TWRP_12_PATCHES == {
    "recovery/Android.mk", "recovery/data.cpp", "recovery/etc/init.rc",
    "recovery/partition.cpp", "recovery/partitionmanager.cpp",
    "fastboot/fastboot_device.cpp", "vold/KeyUtil.cpp", "vold/Keymaster.cpp",
    "vold/MetadataCrypt.cpp"}

TWRP_14_PATCHES == {
    "recovery/Android.mk", "libtar/Android.mk", "libtar/append.c",
    "libtar/block.c", "libtar/extract.c", "libtar/libtar.h", "libtar/output.c",
    "recovery/partition.cpp", "recovery/partitionmanager.cpp",
    "prebuilt/Android.mk", "recovery/twrpApex.cpp", "vold/KeyStorage.cpp",
    "platform_releases.txt"}

TWRP_14_LEGACY_DRM_PATCHES ==
    {"minuitwrp/libminuitwrp_defaults.go", "config/BoardConfigSoong.mk"}
LEGACY_DRM_PATCHES ==
    {"minuitwrp/graphics_drm.cpp"} \cup TWRP_14_LEGACY_DRM_PATCHES
HIMAX_TOUCH_PATCHES == {"minuitwrp/events.cpp"}
SC27XX_HAPTICS_PATCHES == HIMAX_TOUCH_PATCHES \cup TWRP_14_LEGACY_DRM_PATCHES

If(condition, patches) == IF condition THEN patches ELSE {}

\* A set: tuple(dict.fromkeys(patches)) leaves one of equal entries.
selected_source_patches ==
    (IF recovery_branch = "twrp-14.1"
     THEN TWRP_14_PATCHES \cup If(Has("ums"), TWRP_14_LEGACY_DRM_PATCHES)
     ELSE TWRP_12_PATCHES \cup If(Has("ums"), LEGACY_DRM_PATCHES))
        \cup If(Has("haptics"), SC27XX_HAPTICS_PATCHES)
        \cup If(Has("himax"), HIMAX_TOUCH_PATCHES)

\* Mutant of source_patch_path: the branch's file is used for Himax as well.
source_patch_path_BranchOnly(p) ==
    <<IF recovery_branch = "twrp-14.1" THEN "SourcePatches14" ELSE "SourcePatches", p>>

source_patch_path(p) ==
    IF Has("himax") /\ p \in HIMAX_TOUCH_PATCHES
    THEN <<"HimaxPatches", p>>
    ELSE <<IF recovery_branch = "twrp-14.1" THEN "SourcePatches14"
           ELSE "SourcePatches", p>>

-----------------------------------------------------------------------------
NoTree == [a \in Artefact |-> NoFile]

Init ==
    /\ image = NoImage /\ info = NoInfo
    /\ dump = 0 /\ pc = "idle" /\ outcome = "none" /\ survived = FALSE
    /\ tree = NoTree /\ overlay = {}

(***************************************************************************)
(* What a step is made of                                                  *)
(***************************************************************************)
At(step) == pc = step
Goto(step) == pc' = step /\ UNCHANGED <<image, info, dump, outcome, survived>>

End(o) ==
    /\ pc' = "idle" /\ outcome' = o
    /\ UNCHANGED <<image, info, dump, survived>>

Wrote(form) == [dump |-> dump, form |-> form]

\* The files of w appear in the tree with the forms w gives them.
Write(w) ==
    /\ tree' = [a \in Artefact |-> IF a \in DOMAIN w THEN Wrote(w[a]) ELSE tree[a]]
    /\ UNCHANGED overlay

All(artefacts, form) == [a \in artefacts |-> form]
Nothing == UNCHANGED <<tree, overlay>>

(***************************************************************************)
(* DeviceTree.__init__: nothing is written before the image is understood  *)
(***************************************************************************)
\* An image that cannot be unpacked raises, as its reader says.
Unpacked(i) ==
    /\ i.layout = "vendor_boot" => Unpacks(i.header)
    /\ i.layout = "traditional" => ReadsHeader(i.header)

\* What there is to know of it; the screen's size is asked of SPRD images only.
Read(i) ==
    [sections |-> IF i.layout = "vendor_boot" THEN Sections(i.header) ELSE <<>>,
     compression |-> IF i.layout = "vendor_boot"
                     THEN ramdisk_compression(i.header) ELSE "none",
     screen |-> IF "sprd" \in i.has /\ Release(i) # 0
                THEN screen_size(i.dtb, i.dtbo) ELSE NoSize]

Known == [i \in Image |-> IF Unpacked(i) THEN Read(i) ELSE NoInfo]

\* An SPRD platform without a release, or no fstab at all, raises.
Readable(i) ==
    /\ Unpacked(i)
    /\ "sprd" \in i.has => Release(i) # 0
    /\ \E f \in {"etc fstab", "system fstab", "vendor fstab"} : f \in i.has

Run(i) ==
    /\ pc = "idle" /\ dump < MaxDumps
    /\ image' = i
    /\ info' = Known[i]
    /\ dump' = dump + 1
    /\ IF Readable(i) THEN pc' = "remove" /\ outcome' = "none"
                      ELSE pc' = "idle" /\ outcome' = "failed"
    /\ UNCHANGED <<survived, tree, overlay>>

(***************************************************************************)
(* dump_to_folder and _dump_sprd_vendor_boot                               *)
(***************************************************************************)
\* rmtree(device_tree_folder, ignore_errors=True).
RemoveOldTree ==
    /\ At("remove")
    /\ \E L \in {{}} \cup {{a} : a \in {b \in Artefact : Present(b)}} \cup {Artefact} :
          /\ tree' = [a \in Artefact |-> IF a \in L THEN tree[a] ELSE NoFile]
          /\ survived' = (tree' # NoTree)
          /\ overlay' = IF "source-files.txt" \in L THEN overlay ELSE {}
    /\ pc' = "mkdir"
    /\ UNCHANGED <<image, info, dump, outcome>>

\* Mutant of MakeFolders: mkdir(parents=True, exist_ok=True).
MakeFoldersExistOk ==
    /\ At("mkdir")
    /\ Goto("makefiles")
    /\ Nothing

\* mkdir(parents=True) raises FileExistsError.  A traditional tree creates the
\* folder itself, a vendor_boot tree only prebuilt and recovery/root.
MakeFolders ==
    /\ At("mkdir")
    /\ IF \E a \in IF IsVendorBoot THEN Prebuilt \cup Root ELSE Artefact : Present(a)
       THEN End("failed") ELSE Goto("makefiles")
    /\ Nothing

WriteMakefiles ==
    /\ At("makefiles")
    /\ Write(All({"makefiles",
                  IF Has("sprd") \/ IsVendorBoot THEN "twrp product"
                  ELSE "omni product"}, "rendered"))
    /\ Goto("prebuilts")

\* The kernel and DTB; a traditional tree's fstab and init scripts too.
CopyPrebuilts ==
    /\ At("prebuilts")
    /\ IF IsVendorBoot
       THEN Write(All({"dtb.img"}, "stock")) /\ Goto("fstabs")
       ELSE /\ Write(All({"kernel", "dtb.img", "top fstab", "init scripts"}, "stock"))
            /\ IF Has("sprd") THEN Goto("fstabs") ELSE End("done")

\* _copy_fstab_without_avb.
WithoutAvb == IF Has("avb") THEN "without avb" ELSE "stock"

\* Mutant of CopyFstabs: the stock fstabs are copied as they are.
CopyFstabsRaw ==
    /\ At("fstabs")
    /\ Write(All({"first stage", "system fstab"} \cap image.has, "stock"))
    /\ Goto("root files")

CopyFstabs ==
    /\ At("fstabs")
    /\ Write(All({"first stage", "system fstab"} \cap image.has, WithoutAvb))
    /\ Goto("root files")

\* is_required_vendor_ramdisk_root_file, then the vendor runtime.
CopyRootFiles ==
    /\ At("root files")
    /\ Write([a \in {"sepolicy", "common rc", "board rc", "vendor"} \cap image.has |->
                IF a = "board rc" /\ Has("hook") THEN "hooked" ELSE "stock"])
    /\ Goto(CASE IsVendorBoot            -> "init"
              [] is_sprd_legacy_recovery -> "legacy fstab"
              [] OTHER                   -> "overlay")

\* _write_sprd_recovery_init: the board's entry point imports init.custom.rc,
\* appended to the stock one unless it does so already.
WriteRecoveryInit ==
    /\ At("init")
    /\ Goto("policy")
    /\ IF ~Has("board") \/ ~Present("common rc") THEN Nothing
       ELSE Write([a \in {"custom rc", "board rc"} |->
                     IF a = "board rc" /\ Present(a) THEN "hooked" ELSE "rendered"])

\* _write_sprd_sepolicy_helper; rendering a missing template raises.  A
\* vendor_boot image of no SPRD platform has no profile to ask: it raises too.
WritePolicyHelper ==
    /\ At("policy")
    /\ IF ~Present("sepolicy") THEN Nothing /\ Goto("twrp fstab")
       ELSE /\ Write(All({"sepolicy.stock", "patch_stock_sepolicy"}, "stock"))
            /\ IF \/ ~Has("sprd")
                  \/ recovery_branch = "twrp-14.1" /\ "recovery.te" \notin Template
               THEN End("failed") ELSE Goto("twrp fstab")

WriteTwrpFstab ==
    /\ At("twrp fstab")
    /\ Write(All({"twrp.fstab"}, "rendered"))
    /\ Goto("overlay")

\* _write_sprd_legacy_recovery_fstab: the stock fstab as it is, over the one
\* that was copied without AVB keys.
WriteLegacyFstab ==
    /\ At("legacy fstab")
    /\ Write(All({"system fstab"}, "stock"))
    /\ Goto("overlay")

\* Mutant of PackageOverlay: the scripts are written before the overlay.
PackageOverlayScriptsFirst ==
    /\ At("overlay")
    /\ Write(All({"source-files.txt", "patch.sh"}, "rendered"))
    /\ Goto("manifest")

\* The overlay is packaged file by file; a missing one raises.
PackageOverlay ==
    /\ At("overlay")
    /\ IF ~Has("sprd") THEN Nothing /\ End("failed")
       ELSE LET wanted == {source_patch_path(p) : p \in selected_source_patches} IN
            /\ overlay' = wanted \cap Bundled
            /\ UNCHANGED tree
            /\ IF wanted \subseteq Bundled THEN Goto("manifest") ELSE End("failed")

WriteScripts ==
    /\ At("manifest")
    /\ Write(All({"source-files.txt", "patch.sh"}, "rendered"))
    /\ End("done")

Interrupt == pc # "idle" /\ End("killed") /\ Nothing

Step ==
    \/ RemoveOldTree \/ MakeFolders \/ WriteMakefiles \/ CopyPrebuilts
    \/ CopyFstabs \/ CopyRootFiles \/ WriteRecoveryInit \/ WritePolicyHelper
    \/ WriteTwrpFstab \/ WriteLegacyFstab \/ PackageOverlay \/ WriteScripts

Next ==
    \/ \E i \in Image : Run(i)
    \/ Step
    \/ Interrupt

Spec == Init /\ [][Next]_vars
-----------------------------------------------------------------------------
(***************************************************************************)
(* Properties                                                              *)
(***************************************************************************)
Done == pc = "idle" /\ outcome = "done"
Sources == {source[2] : source \in overlay}

\* Every file of the tree has a form its writer gave it.
TypeOK ==
    /\ dump \in 0..MaxDumps
    /\ pc \in {"idle", "remove", "mkdir", "makefiles", "prebuilts", "fstabs",
               "root files", "init", "policy", "twrp fstab", "legacy fstab",
               "overlay", "manifest"}
    /\ outcome \in {"none", "done", "failed", "killed"}
    /\ survived \in BOOLEAN
    /\ tree \in [Artefact -> [dump : 0..dump,
          form : {"none", "stock", "without avb", "rendered", "hooked"}]]
    /\ overlay \subseteq Bundled

\* A tree that is reported as generated builds an image of this run only: no
\* file under prebuilt or recovery/root is of an earlier image, although
\* rmtree ignores its errors; a traditional tree has no older file at all.
SuccessIsFresh ==
    /\ TypeOK
    /\ Done =>
        /\ \A a \in IF IsVendorBoot THEN Prebuilt \cup Root ELSE Artefact :
               Present(a) => tree[a].dump = dump
        /\ tree["makefiles"].dump = dump

\* patch.sh is the last file a run writes: a folder that has it, and of which
\* nothing older survived, holds a whole tree of one run, however many runs
\* were interrupted or failed before or after.
ScriptMeansWholeTree ==
    (Present("patch.sh") /\ ~survived) =>
        /\ \A a \in Artefact : Present(a) => tree[a].dump = tree["patch.sh"].dump
        /\ \A a \in {"makefiles", "twrp product", "source-files.txt"} : Present(a)
        /\ overlay # {}

\* The packaged overlay fits the branch: each path has one version, of this
\* branch ("must not be applied to TWRP 14.1") or the Himax one when the
\* module is there, and the Soong hooks come with what they configure.
OverlayFits ==
    (Done /\ Has("sprd")) =>
        /\ Cardinality(Sources) = Cardinality(overlay)
        /\ \A source \in overlay : source[1] \in
              {IF Release(image) >= 14 THEN "SourcePatches14" ELSE "SourcePatches",
               "HimaxPatches"}
        /\ Has("himax") <=> <<"HimaxPatches", "minuitwrp/events.cpp">> \in overlay
        /\ Has("haptics") => "minuitwrp/events.cpp" \in Sources
        /\ Has("haptics") \/ Has("ums") => TWRP_14_LEGACY_DRM_PATCHES \subseteq Sources

\* A finished vendor_boot tree with the common recovery rc boots through the
\* board's entry point, which imports the hook "exactly once", though the stock
\* file may have it already; and no fstab of it carries AVB keys, which TWRP
\* could not mount the dynamic partitions with.
RecoveryRootFits ==
    (Done /\ IsVendorBoot) =>
        /\ Has("board") /\ Has("common rc") =>
               Present("custom rc") /\ tree["board rc"].form \in {"hooked", "rendered"}
        /\ Has("avb") =>
               \A a \in {"first stage", "system fstab"} : tree[a].form # "stock"

\* The screen the definition by depths gives an image.
ScreenOf ==
    [i \in Image |->
        LET blobs == i.dtb \o i.dtbo
            sizes == SelectSeq([k \in DOMAIN blobs |-> SizeInBlob(blobs[k])],
                               LAMBDA s : s # NoSize)
        IN  IF sizes = <<>> THEN NoSize ELSE sizes[1]]

\* The sections of an image that is accepted follow each other behind the
\* header, inside the file, on pages and without a byte in common, and so does
\* no fragment reach into the DTB: what is unpacked as ramdisk, DTB and
\* bootconfig is what the header says, for any sizes.
SectionsApart ==
    LET header == image.header
        sections == info.sections
    IN
    sections # <<>> =>
        /\ header.header_size <= sections[1].at
        /\ \A k \in DOMAIN sections :
              /\ sections[k].at + sections[k].size
                    <= IF k = Len(sections) THEN header.length
                       ELSE sections[k + 1].at
              /\ sections[k].at % header.page_size = 0
        /\ \A f \in ToSet(Fragments(header)) :
              f.size # 0 => sections[1].at + f.offset + f.size <= sections[2].at

\* The screen's size is that of the first panel node of the first device tree
\* that has one, however nodes are nested, broken or repeated.
ImageUnderstood ==
    (info # NoInfo /\ Has("sprd") /\ Release(image) # 0) => info.screen = ScreenOf[image]
===============================================================================
