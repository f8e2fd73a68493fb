----------------------------- MODULE MCDeviceTree -----------------------------
(***************************************************************************)
(* The instance of DeviceTree: the features that interact are varied       *)
(* together, the overlay's on one layout and the ramdisk's on another.     *)
(***************************************************************************)
EXTENDS DeviceTree

(***************************************************************************)
(* Headers: a sound one, and that one with any two fields changed.         *)
(***************************************************************************)
Frag(size, offset, compression, unpacks) ==
    [size |-> size, offset |-> offset, compression |-> compression, unpacks |-> unpacks]

\* An uncompressed fragment before the compressed one of the recovery.
SoundHeader ==
    [length |-> 20480, version |-> 4, page_size |-> 4096, ramdisk_size |-> 4100,
     header_size |-> 2128, dtb_size |-> 10, table_size |-> 216, entry_count |-> 2,
     entry_size |-> 108, bootconfig_size |-> 0,
     entries |-> <<Frag(100, 0, "none", TRUE), Frag(4000, 100, "lz4", TRUE)>>]

FieldChanges == {
    <<"length", 2111>>, <<"length", 2120>>, <<"length", 20479>>, <<"length", 24577>>,
    <<"version", 2>>, <<"version", 3>>, <<"page_size", 0>>, <<"page_size", 2048>>,
    <<"page_size", 3000>>, <<"page_size", 8192>>, <<"ramdisk_size", 0>>,
    <<"ramdisk_size", 4099>>, <<"ramdisk_size", 4096>>, <<"header_size", 2112>>,
    <<"header_size", 4097>>, <<"dtb_size", 0>>, <<"dtb_size", 4097>>,
    <<"table_size", 215>>, <<"entry_count", 0>>, <<"entry_count", 1>>,
    <<"entry_size", 107>>, <<"bootconfig_size", 1>>, <<"bootconfig_size", 4096>>}

Headers ==
    LET Changed(h, c) == [h EXCEPT ![c[1]] = c[2]] IN
    {SoundHeader}
      \cup {Changed(Changed(SoundHeader, c), d) : c \in FieldChanges, d \in FieldChanges}
      \cup {[SoundHeader EXCEPT !.entries = e] : e \in {
             <<Frag(0, 9000, "none", TRUE), Frag(4100, 0, "none", TRUE)>>,
             <<Frag(4097, 0, "gzip", TRUE), Frag(4100, 1, "xz", TRUE)>>,
             <<Frag(10, 0, "xz", FALSE), Frag(10, 10, "gzip", TRUE)>>,
             <<Frag(10, 0, "none", TRUE), Frag(10, 10, "unknown", TRUE)>>}}

(***************************************************************************)
(* Device trees: a node's begin and up to four more pieces.                *)
(***************************************************************************)
Pieces == {
    <<BeginNode>>, <<EndNode>>, <<Broken>>,
    <<Prop("compatible", Panel)>>,
    <<Prop("width", <<720>>), Prop("height", <<1600>>)>>,
    <<Prop("coords", <<0, 0, 719, 1439>>)>>}

FDT(tokens) == [fits |-> TRUE, tokens |-> tokens]
Nested == {FDT(<<BeginNode>> \o FlattenSeq(start \o p)) :
              start \in {<<>>, <<<<Prop("compatible", Panel)>>>>},
              p \in UNION {[1..n -> Pieces] : n \in 1..3}}

PanelNode == <<BeginNode, Prop("compatible", Panel), Prop("width", <<720>>),
               Nop, Prop("height", <<1600>>), EndNode>>
TouchNode(c) == <<BeginNode, Prop("focaltech coords", c),
                  Prop("coords", <<0, 0, 99, 199>>), EndNode>>
NoPanel == FDT(<<BeginNode, Prop("compatible", <<2>>), EndNode, End9>>)

Several == {
    <<FDT(<<BeginNode>> \o TouchNode(c) \o p \o <<EndNode, End9>>)>> :
        c \in {<<>>, <<5, 5, 4, 9>>, <<0, 0, 9, 9>>, <<1, 2>>}, p \in {<<>>, PanelNode}}
    \cup {<<NoPanel, FDT(PanelNode)>>, <<[fits |-> FALSE, tokens |-> PanelNode], NoPanel>>,
          <<FDT(<<Prop("width", <<1>>)>>), FDT(TouchNode(<<>>)), FDT(PanelNode)>>}

Versions(r) == <<0, r>>
Img(l, r, h) ==
    [layout |-> l, releases |-> Versions(r), has |-> h, dtb |-> <<>>, dtbo |-> <<>>,
     header |-> IF l = "traditional" THEN [SoundHeader EXCEPT !.version = 2]
                ELSE SoundHeader]

\* Images that end the run before anything is written: they have no fstab.
HeaderImages ==
    {[Img("vendor_boot", 13, {}) EXCEPT !.header = h] : h \in Headers}
        \cup {[Img("traditional", 13, {"sprd"}) EXCEPT
                 !.header = [SoundHeader EXCEPT !.version = 1, !.length = l, !.page_size = p]] :
                   l \in {44, 1659, 1660}, p \in {0, 2048, 3000}}

PanelImages ==
    {[Img("boot", 13, {"sprd"}) EXCEPT !.dtb = <<blob>>] : blob \in Nested}
        \cup {[Img("boot", 13, {"sprd"}) EXCEPT !.dtb = d, !.dtbo = o] :
                  d \in Several \cup {<<>>, <<NoPanel>>}, o \in Several \cup {<<>>}}

Unisoc == {"sprd", "ums", "system fstab", "board", "vendor"}

VendorBootImages ==
    {Img("vendor_boot", r, Unisoc \cup x) :
        r \in {13, 14}, x \in SUBSET {"sepolicy", "common rc", "board rc"}}

OverlayImages ==
    {Img("traditional", r, {"sprd", "etc fstab"} \cup x) :
        r \in {13, 14}, x \in SUBSET {"ums", "haptics", "himax"}}

OtherImages == {
    Img("vendor_boot", 13, Unisoc \cup {"common rc", "board rc", "hook", "avb", "first stage"}),
    Img("vendor_boot", 13, {"vendor fstab", "sepolicy"}),   \* not SPRD
    Img("vendor_boot", 13, {"system fstab"}),
    Img("vendor_boot", 0, Unisoc),                          \* no release
    [Img("traditional", 0, {"sprd", "etc fstab", "himax"}) EXCEPT !.releases = <<14, 13, 12>>],
    [Img("traditional", 0, {"sprd", "etc fstab", "ums"}) EXCEPT !.releases = <<0, 0, 14>>],
    Img("boot", 14, {"sprd", "ums"}),                       \* no fstab
    Img("boot", 14, Unisoc \cup {"ab", "sepolicy", "avb"}),
    Img("traditional", 11, Unisoc \cup {"avb", "sepolicy"}),
    Img("boot", 12, {"etc fstab"})}

MCImage ==
    VendorBootImages \cup OverlayImages \cup OtherImages \cup HeaderImages \cup PanelImages

\* What the repository bundles.
Paths12 == TWRP_12_PATCHES \cup SC27XX_HAPTICS_PATCHES \cup LEGACY_DRM_PATCHES
Paths14 == TWRP_14_PATCHES \cup SC27XX_HAPTICS_PATCHES

MCBundled ==
    ({"SourcePatches"} \X Paths12) \cup ({"SourcePatches14"} \X Paths14)
        \cup {<<"HimaxPatches", "minuitwrp/events.cpp">>}
===============================================================================
