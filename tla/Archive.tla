------------------------------- MODULE Archive -------------------------------
(***************************************************************************)
(* libtar as the backup uses it: tar_append_file over a list of paths,     *)
(* tar_append_eof, and, later, th_read with tar_extract_file until the end *)
(* of the archive.  The archive is the sequence of its 512-byte blocks; a  *)
(* block is a record of what is in it.  Sizes are bytes.  Files may change *)
(* their size while they are archived, and writing may stop anywhere.      *)
(***************************************************************************)
EXTENDS Naturals, Sequences, FiniteSets, SequencesExt

CONSTANTS
    Count,      \* paths of the backup, 1 to Count in their order
    Long,       \* those too long for the header's name (100 bytes)
    Trees,      \* what there is to archive: [file : the inode of each path,
                \* node : kind, size, tags and key of each inode]
    Kept        \* sets of paths that a wipe before the restore leaves

T_BLOCKSIZE == 512

Position == 1 .. Count

(* Extended attributes, in the order of th_write: a context, a policy of   *)
(* fscrypt, capabilities (without and with the effective bit), and the     *)
(* attributes of application data.                                         *)
Tags == <<"selinux", "longselinux", "fscrypt", "cap", "capeff", "user">>
TagSet == ToSet(Tags)
TagSize == [selinux |-> 60, longselinux |-> 470, fscrypt |-> 51, cap |-> 57, capeff |-> 57,
            user |-> 24]

(* The first zero byte after a tag's name: the reserved bytes of struct    *)
(* fscrypt_policy_v2, and the low byte, or the one after it, of magic_etc. *)
None == T_BLOCKSIZE
Zero == [t \in TagSet |-> CASE t = "fscrypt" -> 5 [] t = "cap" -> 0 [] t = "capeff" -> 1
                            [] OTHER -> None]

VARIABLES
    tree,       \* what is archived
    resized,    \* inodes whose size changed
    blocks,     \* the archive
    hash,       \* inode cache of hard links: set of <<inode, path>>
    wpc, next, left,    \* the writer, its next path and the bytes left of its file
    pos, rpc, th,       \* the reader, its next block and its header buffer
    target,     \* what is restored
    kept,       \* the paths that were there
    unset,      \* history: paths with a tag that could not be read or set
    refused     \* history: a call of the extraction failed

writer_vars == <<tree, resized, blocks, hash, wpc, next, left>>
reader_vars == <<pos, rpc, th, target>>
vars == <<writer_vars, reader_vars, kept, unset, refused>>

Node(p) == tree.node[tree.file[p]]
NoBuf == [path |-> 0, kind |-> "none", size |-> 0, link |-> 0, tags |-> {}]
Absent == [kind |-> "none", of |-> 0, size |-> 0, data |-> <<>>, tags |-> {}]

Init ==
    /\ tree \in Trees /\ resized = {}
    /\ blocks = <<>> /\ hash = {} /\ unset = {} /\ refused = FALSE
    /\ wpc = "file" /\ next = 1 /\ left = 0
    /\ pos = 1 /\ rpc = "wait" /\ th = NoBuf
    /\ kept \in Kept
    /\ target = [p \in Position |->
                    IF p \in kept THEN [Absent EXCEPT !.kind = Node(p).kind] ELSE Absent]

-----------------------------------------------------------------------------
(* Another process truncates or extends a file.                            *)
Resize(i, n) ==
    /\ wpc \in {"file", "data"}
    /\ resized = {} /\ unset = {} /\ tree.node[i].kind = "file" /\ n # tree.node[i].size
    /\ tree' = [tree EXCEPT !.node[i].size = n]
    /\ resized' = {i}
    /\ UNCHANGED <<blocks, hash, wpc, next, left, reader_vars, kept, unset, refused>>

(* th_write collects the tags in a block and starts another before the one *)
(* that would fill it.                                                     *)
BlockSize(ts) == FoldLeft(LAMBDA n, t : n + TagSize[t], 0, ts)

Pack(tags) ==
    LET Add(packed, t) ==
            IF packed # <<>> /\ BlockSize(Last(packed)) + TagSize[t] < T_BLOCKSIZE
            THEN [packed EXCEPT ![Len(packed)] = Append(@, t)]
            ELSE Append(packed, <<t>>)
    IN  FoldLeft(Add, <<>>, SelectSeq(Tags, LAMBDA t : t \in tags))

Header(type, h) == [type |-> type, h |-> h]
Text(type, content) == [type |-> type, content |-> content]

(* th_write_extended: a header of type x, and the block.                   *)
Extended(h) ==
    LET packed == Pack(h.tags)
    IN  FlattenSeq([k \in DOMAIN packed |->
            <<Header("x", [h EXCEPT !.size = BlockSize(packed[k])]), Text("tags", packed[k])>>])

LongLink(h) == IF h.link \in Long THEN <<Header("K", h), Text("long", h.link)>> ELSE <<>>
LongName(h) == IF h.path \in Long THEN <<Header("L", h), Text("long", h.path)>> ELSE <<>>

th_write(h) == LongLink(h) \o LongName(h) \o Extended(h) \o <<Header("file", h)>>

Contexts == {"selinux", "longselinux"}
Caps == {"cap", "capeff"}

(* What tar_append_file takes from the attributes it can read: policies    *)
(* and user attributes of directories, capabilities of files.              *)
Stored(n) ==
    n.tags \ IF n.kind = "dir" THEN Caps
             ELSE {"fscrypt", "user"} \cup IF n.kind = "file" THEN {} ELSE Caps

FirstOf(i) == {p \in Position : <<i, p>> \in hash}

(* Bounds: how many paths have a call for an attribute that fails unnoticed,*)
(* in an archive of files that do not change.                              *)
MaxUnset == 1
Loses(tags, p) == tags = {} \/ (resized = {} /\ Cardinality(unset \cup {p}) <= MaxUnset)
Losing(tags, p) == unset' = IF tags = {} THEN unset ELSE unset \cup {p}

(* tar_append_file up to the header: an inode seen before becomes a hard   *)
(* link, what needs a key that is not there is skipped, and so is an       *)
(* attribute that cannot be read.                                          *)
AppendFile ==
    LET n == Node(next)
        i == tree.file[next]
        links == FirstOf(i)
        HeaderWith(tags) ==
            [path |-> next, size |-> n.size, tags |-> tags,
             kind |-> IF links # {} THEN "link" ELSE n.kind,
             link |-> IF links # {} THEN CHOOSE p \in links : TRUE ELSE 0]
    IN  /\ wpc = "file" /\ next <= Count
        /\ hash' = IF links = {} THEN hash \cup {<<i, next>>} ELSE hash
        /\ \E unread \in {{}, Stored(n) \cap Contexts, Stored(n) \ Contexts} :
              LET h == HeaderWith(Stored(n) \ unread)
              IN  /\ Loses(unread, next) /\ Losing(unread, next)
                  /\ IF n.key
                     THEN /\ blocks' = blocks \o th_write(h)
                          /\ IF h.kind = "file" /\ n.size > 0
                             THEN wpc' = "data" /\ left' = n.size /\ UNCHANGED next
                             ELSE next' = next + 1 /\ UNCHANGED <<wpc, left>>
                     ELSE next' = next + 1 /\ UNCHANGED <<blocks, wpc, left>>
        /\ UNCHANGED <<tree, resized, reader_vars, kept, refused>>

Smaller(a, b) == IF a < b THEN a ELSE b

(* The size in the header of the file that is being read.                  *)
HeaderSize == Last(SelectSeq(blocks, LAMBDA b : b.type = "file")).h.size

(* Mutant of AppendBlock: one block more follows the last.                 *)
AppendBlockOneMore ==
    LET got == Smaller(T_BLOCKSIZE, left)
        at == HeaderSize - left
    IN  /\ wpc = "data"
        /\ blocks' = Append(blocks, Text("data", [of |-> tree.file[next], at |-> at, got |-> got,
                                                  want |-> got]))
        /\ left' = left - got
        /\ IF got < T_BLOCKSIZE THEN wpc' = "file" /\ next' = next + 1 ELSE UNCHANGED <<wpc, next>>
        /\ UNCHANGED <<tree, resized, hash, reader_vars, kept, unset, refused>>

(* tar_append_regfile: all blocks but the last must be read whole.         *)
AppendBlock ==
    LET want == Smaller(T_BLOCKSIZE, left)
        at == HeaderSize - left
        size == tree.node[tree.file[next]].size
        got == IF at < size THEN Smaller(want, size - at) ELSE 0
    IN  /\ wpc = "data"
        /\ IF left > T_BLOCKSIZE /\ got < want
           THEN wpc' = "failed" /\ UNCHANGED <<blocks, left, next>>
           ELSE /\ blocks' = Append(blocks, Text("data", [of |-> tree.file[next], at |-> at,
                                                          got |-> got, want |-> want]))
                /\ left' = left - want
                /\ IF left' = 0 THEN wpc' = "file" /\ next' = next + 1
                               ELSE UNCHANGED <<wpc, next>>
        /\ UNCHANGED <<tree, resized, hash, reader_vars, kept, unset, refused>>

tar_append_eof ==
    /\ wpc = "file" /\ next = Count + 1
    /\ blocks' = blocks \o <<Text("zero", 0), Text("zero", 0)>>
    /\ wpc' = "done"
    /\ UNCHANGED <<tree, resized, hash, next, left, reader_vars, kept, unset, refused>>

(* tar_block_write fails, or the power goes off: the archive is torn in    *)
(* some call, perhaps between the blocks of one header.                    *)
WriteFails(n) ==
    /\ wpc \in {"file", "data"} /\ n <= Len(blocks)
    /\ blocks' = SubSeq(blocks, 1, Len(blocks) - n)
    /\ wpc' = "failed"
    /\ UNCHANGED <<tree, resized, hash, next, left, reader_vars, kept, unset, refused>>

-----------------------------------------------------------------------------
(* A restore.                                                              *)
StartRestore ==
    /\ wpc \in {"done", "failed"} /\ rpc = "wait"
    /\ rpc' = "next"
    /\ UNCHANGED <<writer_vars, pos, th, target, kept, unset, refused>>

(* th_read looks for tags with strstr, which ends at the first zero byte;  *)
(* a policy must be there as a whole, capabilities by their first byte.    *)
Needed == [t \in TagSet |-> CASE t = "fscrypt" -> 25 [] t \in {"cap", "capeff"} -> 1
                              [] OTHER -> 0]

Found(ts) ==
    {ts[k] : k \in {j \in DOMAIN ts : /\ \A i \in 1 .. j - 1 : Zero[ts[i]] = None
                                      /\ Needed[ts[j]] <= Zero[ts[j]]}}

(* th_read_internal at the next block: a header, or the end, which is two  *)
(* blocks of zeroes or no block at all.                                    *)
AtEnd == pos \in DOMAIN blocks => blocks[pos].type = "zero"
AtHeader(type) == ~AtEnd /\ blocks[pos].type = type
Content == IF pos + 1 <= Len(blocks) THEN blocks[pos + 1].content ELSE None

EndOfArchive ==
    /\ rpc \in {"next", "longname", "extended"}
    /\ AtEnd
    /\ rpc' = IF rpc = "next" THEN "done" ELSE "failed"
    /\ UNCHANGED <<writer_vars, pos, th, target, kept, unset, refused>>

ReadLongLink ==
    /\ rpc = "next" /\ AtHeader("K")
    /\ IF pos < Len(blocks)
       THEN th' = [NoBuf EXCEPT !.link = Content] /\ pos' = pos + 2 /\ rpc' = "longname"
       ELSE rpc' = "failed" /\ UNCHANGED <<th, pos>>
    /\ UNCHANGED <<writer_vars, target, kept, unset, refused>>

ReadLongName ==
    /\ rpc \in {"next", "longname"} /\ AtHeader("L")
    /\ IF pos < Len(blocks)
       THEN /\ th' = [IF rpc = "next" THEN NoBuf ELSE th EXCEPT !.path = Content]
            /\ pos' = pos + 2 /\ rpc' = "extended"
       ELSE rpc' = "failed" /\ UNCHANGED <<th, pos>>
    /\ UNCHANGED <<writer_vars, target, kept, unset, refused>>

(* Mutant: a second extended header takes the place of the first.          *)
ReadExtendedAnew ==
    /\ rpc \in {"next", "longname", "extended"} /\ AtHeader("x") /\ pos < Len(blocks)
    /\ th' = [IF rpc = "next" THEN NoBuf ELSE th EXCEPT !.tags = Found(Content)]
    /\ pos' = pos + 2 /\ rpc' = "extended"
    /\ UNCHANGED <<writer_vars, target, kept, unset, refused>>

ReadExtended ==
    /\ rpc \in {"next", "longname", "extended"} /\ AtHeader("x")
    /\ IF pos < Len(blocks)
       THEN /\ th' = [IF rpc = "next" THEN NoBuf ELSE th EXCEPT !.tags = @ \cup Found(Content)]
            /\ pos' = pos + 2 /\ rpc' = "extended"
       ELSE rpc' = "failed" /\ UNCHANGED <<th, pos>>
    /\ UNCHANGED <<writer_vars, target, kept, unset, refused>>

(* The header of the member itself; what is no header has no valid sum.    *)
ReadHeader ==
    /\ rpc \in {"next", "longname", "extended"} /\ ~AtEnd
    /\ \/ /\ AtHeader("file")
          /\ LET b == IF rpc = "next" THEN NoBuf ELSE th
                 h == blocks[pos].h
             IN  th' = [h EXCEPT !.tags = b.tags,
                                 !.link = IF b.link # 0 THEN b.link ELSE h.link,
                                 !.path = IF b.path # 0 THEN b.path ELSE h.path]
          /\ pos' = pos + 1 /\ rpc' = "extract"
       \/ /\ ~\E type \in {"file", "x", "K", "L"} : AtHeader(type)
          /\ rpc' = "failed" /\ UNCHANGED <<th, pos>>
    /\ UNCHANGED <<writer_vars, target, kept, unset, refused>>

-----------------------------------------------------------------------------
(* The end of tar_extract_file: permissions, context and capabilities.     *)
(* Without a file it fails, but a tag that cannot be set is only reported. *)
Finish(p, file) ==
    IF file.kind = "none"
    THEN rpc' = "failed" /\ target' = [target EXCEPT ![p] = file] /\ UNCHANGED unset
    ELSE \E lost \in {{}, th.tags \cap Contexts, th.tags \cap Caps} :
           /\ Loses(lost, p) /\ Losing(lost, p)
           /\ target' = [target EXCEPT ![p] =
                  [file EXCEPT !.tags = @ \cup ((th.tags \cap (Contexts \cup Caps)) \ lost)]]
           /\ rpc' = "next"

Fresh == [Absent EXCEPT !.kind = th.kind, !.of = th.path, !.size = th.size]

(* tar_extract_dir: one that exists is used as it is.                      *)
ExtractDir ==
    /\ rpc = "extract" /\ th.kind = "dir"
    /\ Finish(th.path, IF target[th.path].kind = "dir" THEN [target[th.path] EXCEPT !.size = th.size]
                       ELSE [Fresh EXCEPT !.tags = th.tags \cap {"fscrypt", "user"}])
    /\ UNCHANGED <<writer_vars, pos, th, kept, refused>>

(* tar_extract_hardlink: it goes on without the file when link fails.      *)
ExtractHardlink ==
    /\ rpc = "extract" /\ th.kind = "link"
    /\ Finish(th.path, target[th.link])
    /\ UNCHANGED <<writer_vars, pos, th, kept, refused>>

(* tar_extract_symlink, and the devices: mknod may find one that exists.   *)
ExtractNode ==
    /\ rpc = "extract" /\ th.kind \in {"symlink", "dev"}
    /\ Finish(th.path, Fresh)
    /\ UNCHANGED <<writer_vars, pos, th, kept, refused>>

(* tar_extract_fifo, which fails over one that exists.                     *)
ExtractFifo ==
    /\ rpc = "extract" /\ th.kind = "fifo"
    /\ IF target[th.path].kind = "none" THEN Finish(th.path, Fresh)
                                        ELSE rpc' = "failed" /\ UNCHANGED <<target, unset>>
    /\ UNCHANGED <<writer_vars, pos, th, kept, refused>>

(* tar_extract_regfile: as many blocks as the header's size needs, of      *)
(* whatever comes next.                                                    *)
ExtractFile ==
    /\ rpc = "extract" /\ th.kind = "file"
    /\ target' = [target EXCEPT ![th.path] = Fresh]
    /\ rpc' = "content"
    /\ UNCHANGED <<writer_vars, pos, th, kept, unset, refused>>

Restored(p) == FoldLeft(LAMBDA n, d : n + T_BLOCKSIZE, 0, target[p].data)

ExtractBlock ==
    /\ rpc = "content" /\ Restored(th.path) < th.size
    /\ IF pos > Len(blocks) THEN rpc' = "failed" /\ UNCHANGED <<target, pos>>
       ELSE /\ target' = [target EXCEPT ![th.path].data = Append(@, blocks[pos])]
            /\ pos' = pos + 1
            /\ UNCHANGED rpc
    /\ UNCHANGED <<writer_vars, th, kept, unset, refused>>

ExtractedFile ==
    /\ rpc = "content" /\ Restored(th.path) >= th.size
    /\ Finish(th.path, target[th.path])
    /\ UNCHANGED <<writer_vars, pos, th, kept, refused>>

(* Any other call of an extraction fails: mkdir, open, write, chown, chmod, *)
(* or setxattr for a user attribute of a directory that is there by then.  *)
ExtractFails ==
    /\ rpc \in {"extract", "content"}
    /\ rpc' = "failed" /\ refused' = TRUE
    /\ target' \in {target} \cup
          IF rpc = "extract" /\ th.kind = "dir" THEN {[target EXCEPT ![th.path] = Fresh]} ELSE {}
    /\ UNCHANGED <<writer_vars, pos, th, kept, unset>>

-----------------------------------------------------------------------------
Ended == rpc \in {"done", "failed"} /\ UNCHANGED vars

(* Bounds: the sizes of files, and the blocks a torn write lacks.          *)
MaxTorn == 3
Sizes == {0, 1, T_BLOCKSIZE, T_BLOCKSIZE + 1}

Writer == AppendFile \/ AppendBlock \/ tar_append_eof \/ \E n \in 0 .. MaxTorn : WriteFails(n)

Reader ==
    \/ StartRestore \/ EndOfArchive
    \/ ReadLongLink \/ ReadLongName \/ ReadExtended \/ ReadHeader
    \/ ExtractDir \/ ExtractHardlink \/ ExtractNode \/ ExtractFifo
    \/ ExtractFile \/ ExtractBlock \/ ExtractedFile \/ ExtractFails

Next ==
    \/ Writer \/ Reader \/ Ended
    \/ \E i \in DOMAIN tree.node, n \in Sizes : Resize(i, n)

Spec == Init /\ [][Next]_vars

-----------------------------------------------------------------------------
Kinds == {"file", "dir", "symlink", "dev", "fifo", "link", "none"}

(* The variables keep their types, and no file leaves less than no bytes.  *)
TypeOK ==
    /\ resized \subseteq DOMAIN tree.node
    /\ hash \subseteq (DOMAIN tree.node) \X Position
    /\ unset \subseteq Position /\ refused \in BOOLEAN
    /\ \A b \in ToSet(blocks) : b.type \in {"K", "L", "x", "file", "tags", "long", "data", "zero"}
    /\ wpc \in {"file", "data", "done", "failed"}
    /\ next \in 1 .. Count + 1
    /\ left \in 0 .. T_BLOCKSIZE + 1
    /\ pos \in 1 .. Len(blocks) + 1
    /\ rpc \in {"wait", "next", "longname", "extended", "extract", "content", "done", "failed"}
    /\ th \in [path : 0 .. Count, kind : Kinds, size : Nat, link : 0 .. Count,
               tags : SUBSET TagSet]
    /\ \A p \in Position : target[p].kind \in Kinds \ {"link"} /\ target[p].tags \subseteq TagSet

(* The members whose header is in the archive.                             *)
Archived == {b.h.path : b \in {c \in ToSet(blocks) : c.type = "file"}}

Whole(b, of, at, want) ==
    b = Text("data", [of |-> of, at |-> at, got |-> want, want |-> want])

(* The blocks of a restored file are those of the file that was archived,  *)
(* in their order; only the last one of a file that shrank may lack bytes. *)
Faithful(p) ==
    LET f == target[p]
        i == tree.file[p]
        full == f.size \div T_BLOCKSIZE
    IN  /\ f.kind = Node(p).kind
        /\ f.kind = "file" =>
             /\ i \notin resized => f.size = Node(p).size
             /\ \A k \in 1 .. full :
                  (k * T_BLOCKSIZE < f.size \/ i \notin resized)
                  => Whole(f.data[k], i, (k - 1) * T_BLOCKSIZE, T_BLOCKSIZE)
             /\ f.size % T_BLOCKSIZE > 0 /\ i \notin resized =>
                  Whole(f.data[full + 1], i, full * T_BLOCKSIZE, f.size % T_BLOCKSIZE)

(* A whole archive can be extracted if no call of the extraction fails,    *)
(* unless over a fifo that was kept, and                                   *)
(* when the extraction ends without an error, every member whose header is *)
(* in the archive is there with its content, hard links linked to the same *)
(* file, even when writing was torn (tar_append_regfile, th_read,          *)
(* tar_extract_file): data are never taken for headers.                    *)
ContentComesBack ==
    /\ TypeOK
    /\ wpc = "done" /\ rpc = "failed" => refused \/ \E p \in kept : Node(p).kind = "fifo"
    /\ rpc = "done" =>
        /\ \A p \in Archived : Faithful(p)
        /\ \A p, q \in Archived :
             Node(p).kind = "file" => (tree.file[p] = tree.file[q] <=> target[p].of = target[q].of)
        /\ wpc = "done" => \A p \in Position : Node(p).key => p \in Archived

(* When an extraction ends without an error, no file got a tag that it had *)
(* not, and each got its context and its effective capabilities back,      *)
(* however the tags had to be split into blocks; so did a new directory    *)
(* without a policy the attributes of application data (th_write, th_read, *)
(* tar_extract_dir).  Excepted are the paths for which a call for an       *)
(* attribute failed, since tar_append_file and tar_extract_file go on.     *)
AttributesComeBack ==
    rpc = "done" => \A p \in Archived :
        LET mine == Node(p).tags
            back == target[p].tags
        IN  /\ back \subseteq mine
            /\ p \notin unset =>
                 /\ Stored(Node(p)) \cap {"selinux", "longselinux", "capeff"} \subseteq back
                 /\ "user" \in Stored(Node(p)) /\ "fscrypt" \notin mine /\ p \notin kept
                    => "user" \in back

(* A directory that is created anew gets back its policy, which libtar.h   *)
(* says TAR_STORE_FSCRYPT_POL stores.                                      *)
PoliciesComeBack ==
    rpc = "done" => \A p \in Archived :
        "fscrypt" \in Stored(Node(p)) /\ p \notin kept => "fscrypt" \in target[p].tags

=============================================================================
