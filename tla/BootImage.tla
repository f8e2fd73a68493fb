------------------------------- MODULE BootImage -------------------------------
(***************************************************************************)
(* What the generator reads from an image before it writes anything: the   *)
(* sections of a vendor_boot image (vendor_boot.py), the header of a       *)
(* traditional one (legacy_boot.py), and the screen size in its flattened  *)
(* device trees (sprd.py).  Python's integers do not overflow.             *)
(*                                                                         *)
(* A header is its fields as they are stored; an FDT is the tokens of its  *)
(* structure block.  A value of a property is the sequence of its words.   *)
(***************************************************************************)
EXTENDS Naturals, Sequences, FiniteSets, FiniteSetsExt, SequencesExt

VENDOR_BOOT_HEADER_V3_SIZE == 2112
VENDOR_BOOT_HEADER_V4_SIZE == 2128
VENDOR_RAMDISK_TABLE_ENTRY_V4_SIZE == 108
LEGACY_HEADER_MIN_SIZE == 1660

\* "unpacks": neither its decompression nor cpio fails, on a host that has them.
Fragment == [size : Nat, offset : Nat, unpacks : BOOLEAN,
             compression : {"none", "gzip", "xz", "lz4", "unknown"}]

\* "length" is that of the file; the fields after dtb_size are read from a v4
\* header only, and of the others a traditional header has version and page_size.
Header == [length : Nat, version : Nat, page_size : Nat, ramdisk_size : Nat,
           header_size : Nat, dtb_size : Nat, table_size : Nat, entry_count : Nat,
           entry_size : Nat, bootconfig_size : Nat, entries : Seq(Fragment)]

(***************************************************************************)
(* VendorBootImage                                                         *)
(***************************************************************************)
\* Mutant of Align: the remainder is dropped.
AlignDown(size, alignment) == (size \div alignment) * alignment

Align(size, alignment) == ((size + alignment - 1) \div alignment) * alignment

\* A page is smaller than 2 GB.
IsPowerOfTwo(n) == \E k \in 0..30 : n = 2^k

MinimumHeader(h) ==
    IF h.version = 4 THEN VENDOR_BOOT_HEADER_V4_SIZE ELSE VENDOR_BOOT_HEADER_V3_SIZE

\* The sections in the order of the file: each starts on the page after the
\* one before it.
Sections(h) ==
    LET After(s) == s.at + Align(s.size, h.page_size)
        ramdisk == [at |-> h.page_size, size |-> h.ramdisk_size]
        dtb == [at |-> After(ramdisk), size |-> h.dtb_size]
        table == [at |-> After(dtb), size |-> h.table_size]
        bootconfig == [at |-> After(table), size |-> h.bootconfig_size]
    IN  IF h.version = 4 THEN <<ramdisk, dtb, table, bootconfig>> ELSE <<ramdisk, dtb>>

\* _require_range.
InFile(section, h) == section.at + section.size <= h.length

\* _parse_v4_fragments: what is refused of the table.
TableFits(h) ==
    /\ h.entry_count > 0 => h.entry_size >= VENDOR_RAMDISK_TABLE_ENTRY_V4_SIZE
    /\ h.entry_count * h.entry_size <= h.table_size
    /\ h.entry_count = 0 => h.ramdisk_size = 0

\* A v3 image has one fragment, the ramdisk.
Fragments(h) ==
    IF h.version = 4 THEN SubSeq(h.entries, 1, h.entry_count)
    ELSE <<[h.entries[1] EXCEPT !.size = h.ramdisk_size, !.offset = 0]>>

\* _extract_fragment and _decompress.
Extracts(f) == f.unpacks /\ f.compression # "unknown"

\* _unpack raises for any other image; it skips empty fragments.
Unpacks(h) ==
    /\ h.length >= VENDOR_BOOT_HEADER_V3_SIZE
    /\ h.version \in {3, 4}
    /\ h.length >= MinimumHeader(h)
    /\ IsPowerOfTwo(h.page_size)
    /\ h.header_size \in MinimumHeader(h)..h.page_size
    /\ \A s \in ToSet(Sections(h)) : InFile(s, h)
    /\ h.version = 4 => TableFits(h)
    /\ \A f \in ToSet(Fragments(h)) :
          f.size # 0 => f.offset + f.size <= h.ramdisk_size /\ Extracts(f)

\* The compression of the first fragment that has one.
ramdisk_compression(h) ==
    LET compressed == SelectSeq(Fragments(h),
                                LAMBDA f : f.size # 0 /\ f.compression # "none")
    IN  IF compressed = <<>> THEN "none" ELSE compressed[1].compression

(***************************************************************************)
(* LegacyBootImage: the header alone, whose ranges nothing checks.  A      *)
(* longer version is no traditional image, and goes to the image kitchen.  *)
(***************************************************************************)
is_legacy_boot(h) == h.length >= 44 /\ h.version <= 2

ReadsHeader(h) == h.length >= LEGACY_HEADER_MIN_SIZE /\ IsPowerOfTwo(h.page_size)

(***************************************************************************)
(* _parse_sprd_panel_fdt: one pass over the tokens with a stack of the     *)
(* nodes that are open, each the properties read of it so far.             *)
(***************************************************************************)
PropName == {"compatible", "width", "height", "focaltech coords", "coords"}
\* The value of "compatible" that names sprd,generic-mipi-panel.
Panel == <<1>>
NoSize == <<>>

BeginNode == [tag |-> "begin"]
EndNode == [tag |-> "end"]
Nop == [tag |-> "nop"]
End9 == [tag |-> "fdt end"]
\* An unknown tag, or a name or value that runs past the blob.
Broken == [tag |-> "broken"]
Prop(name, value) == [tag |-> "prop", name |-> name, value |-> value]

Token == {BeginNode, EndNode, Nop, End9, Broken}
            \cup [tag : {"prop"}, name : PropName, value : Seq(Nat)]

\* "fits": the header's offsets lie in the blob, and the blob in the file.
Blob == [fits : BOOLEAN, tokens : Seq(Token)]

EmptyNode == [p \in PropName |-> <<>>]

Stop(st, size) == [st EXCEPT !.done = TRUE, !.size = size]

\* The value that is not empty, the panel driver's own first.
display_coords(node) ==
    IF node["focaltech coords"] # <<>> THEN node["focaltech coords"] ELSE node["coords"]

SizeOfCoords(c) ==
    IF Len(c) = 4 /\ c[3] >= c[1] /\ c[4] >= c[2]
    THEN <<c[3] - c[1] + 1, c[4] - c[2] + 1>> ELSE NoSize

\* A panel's size ends the search; coordinates are kept until one is found.
CloseNode(st) ==
    LET node == Last(st.stack)
        open == [st EXCEPT !.stack = Front(@)]
        found == SizeOfCoords(display_coords(node))
    IN  IF node["compatible"] = Panel
        THEN IF Len(node["width"]) = 1 /\ Len(node["height"]) = 1
             THEN Stop(open, node["width"] \o node["height"]) ELSE open
        ELSE IF found # NoSize THEN [open EXCEPT !.size = found] ELSE open

\* Mutant of OpenNode: a child starts with what its parent has.
OpenNodeInherits(st) ==
    [st EXCEPT !.stack = Append(@, IF @ = <<>> THEN EmptyNode ELSE Last(@))]

OpenNode(st) == [st EXCEPT !.stack = Append(@, EmptyNode)]

ReadTag(st, t) ==
    CASE st.done -> st
      [] ~st.done /\ t.tag = "begin" -> OpenNode(st)
      [] ~st.done /\ t.tag = "end" ->
            IF st.stack = <<>> THEN Stop(st, st.size) ELSE CloseNode(st)
      [] ~st.done /\ t.tag = "prop" ->
            IF st.stack = <<>> THEN Stop(st, NoSize)
            ELSE [st EXCEPT !.stack[Len(st.stack)][t.name] = t.value]
      [] ~st.done /\ t.tag = "nop" -> st
      [] ~st.done /\ t.tag = "fdt end" -> Stop(st, st.size)
      [] OTHER -> Stop(st, NoSize)

parse_sprd_panel_fdt(blob) ==
    LET read[k \in 0..Len(blob.tokens)] ==
            IF k = 0 THEN [stack |-> <<>>, size |-> NoSize, done |-> FALSE]
            ELSE ReadTag(read[k - 1], blob.tokens[k])
    IN  IF blob.fits THEN read[Len(blob.tokens)].size ELSE NoSize

\* The first blob, of the places where the magic stands, that has a size.
sprd_panel_screen_size(blobs) ==
    LET sizes == SelectSeq([k \in DOMAIN blobs |-> parse_sprd_panel_fdt(blobs[k])],
                           LAMBDA s : s # NoSize)
    IN  IF sizes = <<>> THEN NoSize ELSE sizes[1]

\* from_build_prop: the DTB's size, else the DTBO's.
screen_size(dtb, dtbo) ==
    IF sprd_panel_screen_size(dtb) # NoSize THEN sprd_panel_screen_size(dtb)
    ELSE sprd_panel_screen_size(dtbo)
-----------------------------------------------------------------------------
(***************************************************************************)
(* The same without a pass or a stack: which tokens belong to which node   *)
(* follows from how many nodes are open before each.                       *)
(***************************************************************************)
Depth(s, k) ==
    Cardinality({j \in 1..(k - 1) : s[j] = BeginNode})
        - Cardinality({j \in 1..(k - 1) : s[j] = EndNode})

StopsAt(s, k) ==
    \/ s[k] \in {Broken, End9}
    \/ Depth(s, k) = 0 /\ s[k].tag \in {"prop", "end"}

\* The last value a node that ends at k has for a property of its own.
ValueOf(s, k, name) ==
    LET begin == Max({j \in 1..(k - 1) : s[j] = BeginNode /\ Depth(s, j) = Depth(s, k) - 1})
        own == {j \in begin..k : /\ s[j].tag = "prop" /\ s[j].name = name
                                 /\ Depth(s, j) = Depth(s, k)}
    IN  IF own = {} THEN <<>> ELSE s[Max(own)].value

\* The first panel node that has a size; without one, if the device tree is
\* sound, the coordinates of the last node that has some.
SizeInBlob(blob) ==
    LET s == blob.tokens
        stops == {k \in DOMAIN s : StopsAt(s, k)}
        read == 1..(IF stops = {} THEN Len(s) ELSE Min(stops) - 1)
        closed == {k \in read : s[k] = EndNode}
        panels == {k \in closed : ValueOf(s, k, "compatible") = Panel}
        sized == {k \in panels : /\ Len(ValueOf(s, k, "width")) = 1
                                 /\ Len(ValueOf(s, k, "height")) = 1}
        CoordsAt(k) == SizeOfCoords(display_coords(
                           [p \in PropName |-> ValueOf(s, k, p)]))
        touch == {k \in closed \ panels : CoordsAt(k) # NoSize}
        sound == stops # {} => s[Min(stops)] \in {EndNode, End9}
    IN  CASE ~blob.fits -> NoSize
          [] blob.fits /\ sized # {} ->
                ValueOf(s, Min(sized), "width") \o ValueOf(s, Min(sized), "height")
          [] blob.fits /\ sized = {} /\ sound /\ touch # {} -> CoordsAt(Max(touch))
          [] OTHER -> NoSize
===============================================================================
