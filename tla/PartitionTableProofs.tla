------------------------- MODULE PartitionTableProofs -------------------------
(***************************************************************************)
(* TableSound of PartitionTable, for every text, every disk and every      *)
(* start the assumptions on the constants allow, proved from the inductive *)
(* invariant TableInv: lemmas on the operators that change the table, then *)
(* what each loop of Process_Fstab keeps, then one lemma for each action.  *)
(* What of it is about the entries alone (TableOK) says whose parent an    *)
(* entry is and that no two entries of the lines have one mount point;     *)
(* Parsing, Pointer, Vendor, Setting and Storages say how far each loop is *)
(* and what it has established; Queue says what the events waiting imply.  *)
(***************************************************************************)
EXTENDS PartitionTable, TLAPS, FiniteSetTheorems, SequenceTheorems, WellFoundedInduction

\* A sequence without repetitions that is as long as its set is large has all
\* of it.
LEMMA Permutes ==
    ASSUME NEW S, IsFiniteSet(S), NEW f \in [1 .. Cardinality(S) -> S],
           \A i, j \in 1 .. Cardinality(S) : i # j => f[i] # f[j]
    PROVE  \A x \in S : \E k \in 1 .. Cardinality(S) : f[k] = x
  <1>1. Cardinality(S) \in Nat
    BY FS_CardinalityType
  <1>2. IsFiniteSet(1 .. Cardinality(S)) /\ Cardinality(1 .. Cardinality(S)) = Cardinality(S)
    BY <1>1, FS_Interval
  <1>3. f \in Injection(1 .. Cardinality(S), S)
    BY DEF Injection, IsInjective
  <1>4. f \in Surjection(1 .. Cardinality(S), S)
    BY <1>2, <1>3, FS_Injection
  <1> QED
    BY <1>4 DEF Surjection

-----------------------------------------------------------------------------
(***************************************************************************)
(* The operators the table is built with.                                  *)
(***************************************************************************)
\* The first and the last of some positions, as SelectInSeq takes them.
LEMMA MinIsLeast ==
    ASSUME NEW S \in SUBSET Nat, S # {}
    PROVE  Min(S) \in S /\ \A y \in S : Min(S) <= y
  <1>1. PICK x \in S : \A y \in S : <<y, x>> \notin OpToRel(<, Nat)
    BY WFMin, NatLessThanWellFounded, Zenon
  <1>2. ASSUME NEW y \in S PROVE ~(y < x)
    BY <1>1 DEF OpToRel
  <1>3. \A y \in S : x <= y
    BY <1>2
  <1> QED
    BY <1>3 DEF Min

\* The greatest of some numbers of an interval is one of them, and none is
\* greater.
LEMMA MaxIsGreatest ==
    ASSUME NEW n \in Nat, NEW S \in SUBSET (1 .. n), S # {}
    PROVE  Max(S) \in S /\ \A y \in S : Max(S) >= y
  <1> DEFINE R == {n - y : y \in S}
  <1>1. R \in SUBSET Nat /\ R # {}
    <2>1. \A y \in S : n - y \in Nat
      OBVIOUS
    <2>2. PICK y \in S : TRUE
      OBVIOUS
    <2> QED
      BY <2>1, <2>2
  <1>2. Min(R) \in R /\ \A y \in R : Min(R) <= y
    BY <1>1, MinIsLeast
  <1>3. PICK x \in S : Min(R) = n - x
    BY <1>2
  <1>4. ASSUME NEW y \in S PROVE x >= y
    <2>1. n - y \in R /\ x \in 1 .. n /\ y \in 1 .. n
      OBVIOUS
    <2>2. n - x <= n - y
      BY <1>2, <1>3, <2>1
    <2> HIDE DEF R
    <2> QED
      BY <2>1, <2>2
  <1> QED
    BY <1>4 DEF Max

\* What Find_Partition_By_Path returns: no entry has the path or links to
\* it, or the index of the first that does ("/system" stands for the system
\* root).
LEMMA FindPath ==
    ASSUME NEW T, NEW path, Len(T) \in Nat,
           NEW i, i = Find_Partition_By_Path(T, path),
           NEW local, local = IF path = Path("system") THEN Root ELSE path
    PROVE  \/ i = 0 /\ \A j \in 1 .. Len(T) : local \notin {T[j].mount, T[j].link}
           \/ /\ i \in 1 .. Len(T) /\ local \in {T[i].mount, T[i].link}
              /\ \A j \in 1 .. i - 1 : local \notin {T[j].mount, T[j].link}
  <1> DEFINE I == {j \in 1 .. Len(T) : local \in {T[j].mount, T[j].link}}
  <1>1. i = IF I # {} THEN Min(I) ELSE 0
    BY DEF Find_Partition_By_Path, SelectInSeq
  <1>2. I \in SUBSET Nat
    OBVIOUS
  <1>3. CASE I = {}
    BY <1>1, <1>3
  <1>4. CASE I # {}
    <2>1. i \in I /\ \A j \in I : i <= j
      BY <1>1, <1>2, <1>4, MinIsLeast
    <2>2. \A j \in 1 .. i - 1 : j \notin I /\ j \in 1 .. Len(T)
      BY <2>1
    <2> QED
      BY <2>1, <2>2
  <1> QED
    BY <1>3, <1>4

\* Entry of an event: the first entry with the sysfs path of its disk.
LEMMA EntryIs ==
    ASSUME NEW e, Partitions \in Seq(Entries), NEW i, i = Entry(e), Watched(e.disk)
    PROVE  i \in DOMAIN Partitions /\ Partitions[i].sysfs = BusOf[e.disk]
  <1> DEFINE I == {j \in 1 .. Len(Partitions) : Partitions[j].sysfs = BusOf[e.disk]}
  <1>1. i = IF I # {} THEN Min(I) ELSE 0
    BY DEF Entry, SelectInSeq
  <1>2. I \in SUBSET Nat /\ I # {}
    BY DEF Watched
  <1>3. Min(I) \in I
    BY <1>2, MinIsLeast
  <1> QED
    BY <1>1, <1>2, <1>3

\* An erased entry: those after it move down.
LEMMA RemoveAtIs ==
    ASSUME NEW S, NEW T \in Seq(S), NEW i \in 1 .. Len(T)
    PROVE  /\ RemoveAt(T, i) \in Seq(S) /\ Len(RemoveAt(T, i)) = Len(T) - 1
           /\ \A j \in 1 .. Len(T) - 1 :
                 RemoveAt(T, i)[j] = IF j < i THEN T[j] ELSE T[j + 1]
  <1> DEFINE A == SubSeq(T, 1, i - 1)
             B == SubSeq(T, i + 1, Len(T))
  <1>1. A \in Seq(S) /\ Len(A) = i - 1 /\ \A j \in 1 .. i - 1 : A[j] = T[j]
    BY SubSeqProperties
  <1>2. B \in Seq(S) /\ Len(B) = Len(T) - i /\ \A j \in 1 .. Len(T) - i : B[j] = T[i + j]
    BY SubSeqProperties
  <1>3. RemoveAt(T, i) = A \o B
    BY DEF RemoveAt
  <1> HIDE DEF A, B
  <1>4. A \o B \in Seq(S) /\ Len(A \o B) = Len(T) - 1
    BY <1>1, <1>2
  <1>5. \A j \in 1 .. Len(T) - 1 : (A \o B)[j] = IF j < i THEN A[j] ELSE B[j - i + 1]
    BY <1>1, <1>2
  <1> QED
    BY <1>1, <1>2, <1>3, <1>4, <1>5

\* What a search may find: the new nodes, each once.
LEMMA Searching ==
    ASSUME NEW p \in Entries, NEW T, NEW found \in Find_Wildcard_Block_Devices(p, T),
           p.dev \in Disk \/ ~p.wild \/ p.dev = None
    PROVE  /\ found \in Seq(Text)
           /\ \A k, m \in 1 .. Len(found) : k # m => found[k] # found[m]
           /\ \A k \in 1 .. Len(found) :
                 /\ p.wild /\ p.dev \in Disk /\ found[k] \in PartsOf[p.dev] \cap nodes
                 /\ ~Find_Partition_By_Block_Device(T, found[k])
           /\ p.wild /\ p.dev # None => \A node \in PartsOf[p.dev] \cap nodes :
                 \/ Find_Partition_By_Block_Device(T, node)
                 \/ \E k \in 1 .. Len(found) : found[k] = node
  <1>1. CASE ~(p.wild /\ p.dev # None)
    <2>1. found = <<>>
      BY <1>1 DEF Find_Wildcard_Block_Devices
    <2> QED
      BY <2>1, <1>1
  <1>2. CASE p.wild /\ p.dev # None
    <2> DEFINE S == Unlisted(p, T)
    <2>1. S \subseteq PartsOf[p.dev] /\ p.dev \in Disk
      BY <1>2 DEF Unlisted
    <2>2. IsFiniteSet(PartsOf[p.dev]) /\ PartsOf[p.dev] \subseteq Text
      BY <2>1, DiskAssumption
    <2>3. IsFiniteSet(S) /\ S \subseteq Text
      BY <2>1, <2>2, FS_Subset
    <2>4. Cardinality(S) \in Nat
      BY <2>3, FS_CardinalityType
    <2>5. /\ found \in [1 .. Cardinality(S) -> S]
          /\ \A i, j \in 1 .. Cardinality(S) : i # j => found[i] # found[j]
      BY <1>2 DEF Find_Wildcard_Block_Devices, SetToSeqs
    <2>6. found \in Seq(Text) /\ Len(found) = Cardinality(S)
      BY <2>3, <2>4, <2>5
    <2>7. \A node \in S : \E k \in 1 .. Len(found) : found[k] = node
      BY <2>3, <2>4, <2>5, <2>6, Permutes
    <2> QED
      BY <1>2, <2>1, <2>5, <2>6, <2>7 DEF Unlisted
  <1> QED
    BY <1>1, <1>2
-----------------------------------------------------------------------------
(***************************************************************************)
(* The table.  An entry is of a file, or was found on a disk; what was     *)
(* found on the disk of a sysfs entry has its mount point as the parent.   *)
(***************************************************************************)
Buses == {l \in LinesOf(start.fstab) : l.sysfs}

\* Where a sysfs entry comes from.
FromBus(p, B) ==
    \E b \in B : /\ p.sysfs = b.dev
                 /\ IF b.mount = "auto" THEN p.mount.auto # 0 ELSE p.mount = PathOf(b)

FileOK(p, B) ==
    /\ p.mount # NoPath /\ (p.mount.auto # 0 <=> p.mount.name = "auto")
    /\ p.mount # Path("system")
    /\ p.link \in {NoPath, Path("sdcard")}
    /\ p.settings => p.storage
    /\ p.sub = Path(p.sub.name) /\ p.sub.name # "auto"
    /\ \A b \in B : p.sub # PathOf(b)
    /\ p.actual \in {None, p.dev} \cup Disk
    /\ IF p.sysfs # None
       THEN /\ FromBus(p, B) /\ p.wild /\ p.storage
            /\ p.dev # None => p.dev \in Disk /\ BusOf[p.dev] = p.sysfs
            /\ p.dev = None => ~p.present
       ELSE /\ p.dev \notin Parts /\ (p.wild <=> p.dev \in Disk)
            /\ p.wild => \A b \in B : b.dev # BusOf[p.dev]

ChildOK(p) ==
    /\ p.sub = Numbered(p.mount, 0) /\ p.link = NoPath
    /\ p.dev \in Parts /\ p.actual = p.dev
    /\ p.sysfs = None /\ ~p.wild /\ ~p.settings

EntryOK(p, B) == IF IsChild(p) THEN ChildOK(p) ELSE FileOK(p, B)

\* Two entries: their mount points and devices are their own, and so is a bus.
Apart(p, q) ==
    /\ ~IsChild(p) /\ ~IsChild(q) => p.mount # q.mount
    /\ p.sysfs # None => p.sysfs # q.sysfs
    /\ IsChild(p) /\ IsChild(q) => p.dev # q.dev
    /\ IsChild(p) /\ q.sysfs # None => \A d \in Disk :
          p.dev \in PartsOf[d] => (q.sysfs = BusOf[d] <=> q.mount = p.sub)

TableOK(T, B) ==
    /\ \A i \in 1 .. Len(T) : EntryOK(T[i], B)
    /\ \A i, j \in 1 .. Len(T) : i # j => Apart(T[i], T[j])

\* The fields the invariant reads, but for those that follow the device.
Same(p, q) ==
    /\ p.mount = q.mount /\ p.link = q.link /\ p.sysfs = q.sysfs /\ p.wild = q.wild
    /\ p.storage = q.storage /\ p.settings = q.settings /\ p.sub = q.sub /\ p.id = q.id

\* What a search makes of an entry, and an entry it adds.
Refound(p, q) ==
    /\ Same(p, q) /\ p.dev = q.dev
    /\ p.actual \in {None, q.dev, q.actual} /\ (IsChild(q) => p.actual \in {q.dev, q.actual})
    /\ q.sysfs # None /\ q.dev = None => ~p.present

NewChild(c, p, node, k) ==
    /\ c.mount = Numbered(p.mount, k) /\ c.sub = p.mount /\ c.link = NoPath
    /\ c.dev = node /\ c.actual = node /\ c.sysfs = None /\ c.wild = FALSE
    /\ c.storage = p.storage /\ c.settings = FALSE

\* The paths the code knows by name are paths, and the entry SetupOne starts
\* from is an entry.
LEMMA PathsAre ==
    /\ None \in Text /\ \A name \in Text : Path(name) \in Paths
    /\ NoPath \in Paths /\ Data \in Paths /\ Root \in Paths /\ Path("sdcard") \in Paths
    /\ \A k \in Nat : AutoPath(k) \in Paths
    /\ Blank \in Entries
  <1>1. /\ None \in Text /\ \A name \in Text : Path(name) \in Paths
        /\ \A k \in Nat : AutoPath(k) \in Paths
    BY TextAssumption DEF None, Path, Paths, AutoPath
  <1>2. NoPath \in Paths /\ Data \in Paths /\ Root \in Paths /\ Path("sdcard") \in Paths
    BY <1>1, TextAssumption DEF NoPath, Data, Root
  <1>3. Blank \in Entries
    BY <1>1, <1>2 DEF Blank, Entries
  <1> QED
    BY <1>1, <1>2, <1>3

\* Numbering a mount point changes its partition number only.
LEMMA NumberedIs ==
    ASSUME NEW m \in Paths, NEW k \in Nat
    PROVE  /\ Numbered(m, k) \in Paths /\ Numbered(m, k).part = k
           /\ Numbered(Numbered(m, k), 0) = Numbered(m, 0)
           /\ m.part = 0 => Numbered(m, 0) = m
           /\ Numbered(m, k).auto = m.auto /\ Numbered(m, k).name = m.name
  BY DEF Paths, Numbered

\* What a search makes of an entry.
LEMMA ActualIs ==
    ASSUME NEW B, NEW p \in Entries, EntryOK(p, B), NEW found
    PROVE  LET q == Find_Actual_Block_Device(p, found) IN q \in Entries /\ Refound(q, p)
  <1> DEFINE q == Find_Actual_Block_Device(p, found)
  <1> SUFFICES q \in Entries /\ Refound(q, p)
    OBVIOUS
  <1>0. p \in Entries
    OBVIOUS
  <1>1. CASE p.sysfs # None /\ p.dev = None
    <2>1. q = [p EXCEPT !.present = FALSE]
      BY <1>1 DEF Find_Actual_Block_Device
    <2> QED
      BY <1>0, <1>1, <2>1 DEF Entries, Refound, Same
  <1>2. CASE ~(p.sysfs # None /\ p.dev = None) /\ p.wild
    <2> DEFINE whole == found = <<>> /\ p.dev \in nodes
    <2>1. q = [p EXCEPT !.present = whole, !.canmount = whole,
                        !.actual = IF whole THEN p.dev ELSE None,
                        !.hassub = p.hassub \/ found # <<>>]
      BY <1>2 DEF Find_Actual_Block_Device
    <2>2. ~IsChild(p)
      BY <1>2 DEF EntryOK, ChildOK
    <2>3. None \in Text
      BY PathsAre
    <2> HIDE DEF q
    <2>4. q \in Entries
      BY <1>0, <2>1, <2>3 DEF Entries
    <2>5. Same(q, p) /\ p.dev = q.dev
      BY <1>0, <2>1 DEF Entries, Same
    <2>6. q.actual \in {None, p.dev}
      BY <1>0, <2>1 DEF Entries
    <2> QED
      BY <1>2, <2>2, <2>4, <2>5, <2>6 DEF Refound
  <1>3. CASE ~(p.sysfs # None /\ p.dev = None) /\ ~p.wild
    <2> DEFINE there == p.dev \in nodes
               actual == IF there THEN p.dev ELSE p.actual
    <2>1. q = [p EXCEPT !.present = there, !.actual = actual]
      BY <1>3 DEF Find_Actual_Block_Device
    <2>a. there \in BOOLEAN /\ actual \in {p.dev, p.actual}
      OBVIOUS
    <2> HIDE DEF q, there, actual
    <2>2. q \in Entries
      BY <1>0, <2>1, <2>a DEF Entries
    <2>3. Same(q, p) /\ p.dev = q.dev
      BY <1>0, <2>1 DEF Entries, Same
    <2>4. q.actual \in {p.dev, p.actual}
      BY <1>0, <2>1, <2>a DEF Entries
    <2> QED
      BY <1>3, <2>2, <2>3, <2>4 DEF Refound
  <1> QED
    BY <1>1, <1>2, <1>3

\* The entries it adds.
LEMMA ChildrenAre ==
    ASSUME NEW p \in Entries, NEW T, NEW found \in Seq(Text)
    PROVE  LET C == Children(p, T, found) IN
           /\ C \in Seq(Entries) /\ Len(C) = Len(found)
           /\ \A k \in 1 .. Len(found) : NewChild(C[k], p, found[k], k)
  <1> DEFINE C == Children(p, T, found)
  <1>1. p \in Entries
    OBVIOUS
  <1>3. found \in Seq(Text)
    OBVIOUS
  <1>5. ASSUME NEW k \in 1 .. Len(found)
        PROVE  C[k] \in Entries /\ NewChild(C[k], p, found[k], k)
    <2> DEFINE m == Numbered(p.mount, k)
    <2>1. p.mount \in Paths /\ p.storage \in BOOLEAN /\ found[k] \in Text /\ k \in Nat
      BY <1>1, <1>3 DEF Entries
    <2>2. m \in Paths
      BY <2>1, NumberedIs
    <2>3. C[k] = Child(p, T, found[k], k)
      BY <1>3 DEF Children
    <2> DEFINE method == IF Find_Partition_By_Path(T, m) = 0 THEN "files" ELSE "none"
    <2>4. C[k] = [Blank EXCEPT !.mount = m, !.sub = p.mount, !.dev = found[k],
                               !.actual = found[k], !.present = TRUE, !.canmount = TRUE,
                               !.storage = p.storage, !.method = method]
      BY <2>3 DEF Child
    <2>5. Blank \in Entries /\ method \in {"none", "files", "image"}
      BY PathsAre
    <2> HIDE DEF m, method, C
    <2>6. C[k] \in Entries
      BY <2>1, <2>2, <2>4, <2>5 DEF Entries
    <2>7. NewChild(C[k], p, found[k], k)
      BY <2>4 DEF NewChild, m, Blank
    <2> QED
      BY <2>6, <2>7
  <1>6. C \in Seq(Entries) /\ Len(C) = Len(found)
    <2>1. C = [k \in 1 .. Len(found) |-> C[k]] /\ Len(found) \in Nat
      BY <1>3 DEF Children
    <2> HIDE DEF C
    <2> QED
      BY <1>5, <2>1
  <1> QED
    BY <1>5, <1>6

\* What searching for the device of an entry leaves: one more entry for each
\* partition found, the entry itself found again, every other entry as it
\* was.
LEMMA LocatedIs ==
    ASSUME NEW T \in Seq(Entries), NEW i \in 1 .. Len(T), NEW B, EntryOK(T[i], B),
           NEW found \in Find_Wildcard_Block_Devices(T[i], T),
           NEW U, U = Located(T, i, found)
    PROVE  /\ U \in Seq(Entries) /\ found \in Seq(Text) /\ Len(U) = Len(T) + Len(found)
           /\ \A j \in 1 .. Len(T) : j # i => U[j] = T[j]
           /\ Refound(U[i], T[i])
           /\ \A k \in 1 .. Len(found) : NewChild(U[Len(T) + k], T[i], found[k], k)
  <1> DEFINE p == T[i]
             q == Find_Actual_Block_Device(p, found)
             C == Children(p, T, found)
  <1>1. p \in Entries
    OBVIOUS
  <1>2. p.dev \in Disk \/ ~p.wild \/ p.dev = None
    BY DEF EntryOK, ChildOK, FileOK
  <1>3. found \in Seq(Text)
    BY <1>1, <1>2, Searching
  <1>4. q \in Entries /\ Refound(q, p)
    BY <1>1, ActualIs
  <1>6. C \in Seq(Entries) /\ Len(C) = Len(found)
        /\ \A k \in 1 .. Len(found) : NewChild(C[k], p, found[k], k)
    BY <1>1, <1>3, ChildrenAre
  <1> DEFINE V == [T EXCEPT ![i] = q]
  <1>7. V \in Seq(Entries) /\ Len(V) = Len(T) /\ V[i] = q
        /\ \A j \in 1 .. Len(T) : j # i => V[j] = T[j]
    BY <1>4, ExceptSeq
  <1>8. U = V \o C
    BY DEF Located
  <1> HIDE DEF V, C, q
  <1>9. /\ U \in Seq(Entries) /\ Len(U) = Len(T) + Len(found)
        /\ \A j \in 1 .. Len(T) : U[j] = V[j]
        /\ \A k \in 1 .. Len(found) : U[Len(T) + k] = C[k]
    <2>1. V \o C \in Seq(Entries) /\ Len(V \o C) = Len(V) + Len(C)
      BY <1>6, <1>7, ConcatProperties
    <2>2. \A j \in 1 .. Len(V) + Len(C) :
             (V \o C)[j] = IF j <= Len(V) THEN V[j] ELSE C[j - Len(V)]
      BY <1>6, <1>7, ConcatProperties
    <2>3. Len(T) \in Nat /\ Len(found) \in Nat
      BY <1>3
    <2>4. \A k \in 1 .. Len(found) : /\ Len(V) + k \in 1 .. Len(V) + Len(C)
                                     /\ ~(Len(V) + k <= Len(V)) /\ Len(V) + k - Len(V) = k
      BY <1>6, <1>7, <2>3
    <2> QED
      BY <1>6, <1>7, <1>8, <2>1, <2>2, <2>3, <2>4
  <1> QED
    BY <1>3, <1>4, <1>6, <1>7, <1>9


\* What Apart reads.
Kept(p, q) ==
    /\ p.mount = q.mount /\ p.sysfs = q.sysfs /\ p.sub = q.sub
    /\ IsChild(q) => p.dev = q.dev

\* A table of sound entries with the identities, parents and mount points of
\* a sound table is sound.
LEMMA KeptOK ==
    ASSUME NEW B, NEW T, TableOK(T, B), NEW U, Len(U) = Len(T),
           \A j \in 1 .. Len(T) : Kept(U[j], T[j]) /\ EntryOK(U[j], B)
    PROVE  TableOK(U, B)
  <1>1. ASSUME NEW i \in 1 .. Len(T), NEW j \in 1 .. Len(T), i # j
        PROVE  Apart(U[i], U[j])
    <2>1. Apart(T[i], T[j]) /\ Kept(U[i], T[i]) /\ Kept(U[j], T[j])
      BY <1>1 DEF TableOK
    <2> QED
      BY <2>1 DEF Apart, Kept, IsChild
  <1> QED
    BY <1>1 DEF TableOK

\* A search changes nothing the invariant of an entry reads.
LEMMA RefoundOK ==
    ASSUME NEW B, NEW q, EntryOK(q, B), NEW p, Refound(p, q)
    PROVE  EntryOK(p, B) /\ Kept(p, q)
  <1>1. IsChild(p) <=> IsChild(q)
    BY DEF Refound, Same, IsChild
  <1>2. CASE IsChild(q)
    BY <1>1, <1>2 DEF EntryOK, ChildOK, Refound, Same, Kept
  <1>3. CASE ~IsChild(q)
    <2>1. FileOK(q, B)
      BY <1>3 DEF EntryOK
    <2>2. p.actual \in {None, p.dev} \cup Disk
      BY <2>1 DEF Refound, FileOK
    <2>3. FromBus(q, B) => FromBus(p, B)
      BY DEF Refound, Same, FromBus
    <2>4. FileOK(p, B)
      BY <2>1, <2>2, <2>3 DEF Refound, Same, FileOK
    <2> QED
      BY <1>1, <1>3, <2>4 DEF EntryOK, Refound, Same, Kept
  <1> QED
    BY <1>2, <1>3

\* The partitions found on a disk, after a table T: none is listed in it, and
\* it is the entry p, or none, that the events of the disk are for.
LEMMA ChildrenOK ==
    ASSUME NEW B, NEW T \in Seq(Entries), TableOK(T, B),
           NEW p \in Entries, ~IsChild(p), p.dev \in Disk,
           \A j \in 1 .. Len(T) : T[j].sysfs # None =>
               (T[j].sysfs = BusOf[p.dev] <=> T[j].mount = p.mount),
           NEW found \in Seq(Text),
           \A k, m \in 1 .. Len(found) : k # m => found[k] # found[m],
           \A k \in 1 .. Len(found) :
               found[k] \in PartsOf[p.dev] /\ ~Find_Partition_By_Block_Device(T, found[k]),
           NEW U, Len(U) = Len(T) + Len(found), \A j \in 1 .. Len(T) : U[j] = T[j],
           \A k \in 1 .. Len(found) : NewChild(U[Len(T) + k], p, found[k], k)
    PROVE  TableOK(U, B)
  <1> DEFINE n == Len(T)
             New(j) == j \in n + 1 .. Len(U)
  <1>1. n \in Nat /\ Len(found) \in Nat /\ Len(U) = n + Len(found)
    OBVIOUS
  <1>2. \A j \in 1 .. Len(U) : j \in 1 .. n \/ \E k \in 1 .. Len(found) : j = n + k
    <2>1. ASSUME NEW j \in 1 .. Len(U), ~(j \in 1 .. n) PROVE j - n \in 1 .. Len(found) /\ j = n + (j - n)
      BY <1>1, <2>1
    <2> QED
      BY <2>1
  <1>3. ASSUME NEW k \in 1 .. Len(found)
        PROVE  LET c == U[n + k] IN
               /\ IsChild(c) /\ c.sysfs = None /\ c.sub = p.mount /\ c.dev = found[k]
               /\ c.dev \in PartsOf[p.dev] /\ EntryOK(c, B)
    <2> DEFINE c == U[n + k]
    <2>1. NewChild(c, p, found[k], k) /\ p.mount \in Paths /\ k \in Nat /\ k # 0
      BY DEF Entries
    <2> HIDE DEF c
    <2>a. p.mount.part = 0 /\ c.mount = Numbered(p.mount, k)
      BY <2>1 DEF NewChild, IsChild
    <2>b. \A m \in Paths : /\ Numbered(m, k).part = k
                           /\ Numbered(Numbered(m, k), 0) = Numbered(m, 0)
                           /\ m.part = 0 => Numbered(m, 0) = m
      BY <2>1, NumberedIs
    <2>2. c.mount.part = k /\ Numbered(c.mount, 0) = p.mount
      BY <2>1, <2>a, <2>b
    <2>3. found[k] \in Parts
      BY DEF Parts
    <2>4. c.sysfs = None /\ c.sub = p.mount /\ c.dev = found[k] /\ IsChild(c)
      BY <2>1, <2>2 DEF NewChild, IsChild
    <2>5. ChildOK(c)
      BY <2>1, <2>2, <2>3, <2>4 DEF NewChild, ChildOK
    <2> QED
      BY <2>4, <2>5 DEF EntryOK, c
  <1>4. ASSUME NEW j \in 1 .. n, NEW k \in 1 .. Len(found)
        PROVE  Apart(U[j], U[n + k]) /\ Apart(U[n + k], U[j])
    <2> DEFINE c == U[n + k]
               q == T[j]
    <2>1. U[j] = q /\ EntryOK(q, B) /\ q \in Entries
      BY DEF TableOK
    <2>2. IsChild(c) /\ c.sysfs = None /\ c.sub = p.mount /\ c.dev = found[k]
          /\ c.dev \in PartsOf[p.dev]
      BY <1>3
    <2>3. q.dev # found[k]
      BY DEF Find_Partition_By_Block_Device
    <2>4. ASSUME NEW d \in Disk, c.dev \in PartsOf[d] PROVE d = p.dev
      BY <2>2, <2>4, DiskAssumption
    <2>5. q.sysfs # None => (q.sysfs = BusOf[p.dev] <=> q.mount = p.mount)
      OBVIOUS
    <2> HIDE DEF c, q
    <2>6. Apart(c, q)
      BY <2>2, <2>3, <2>4, <2>5 DEF Apart
    <2>7. Apart(q, c)
      BY <2>2, <2>3 DEF Apart
    <2> QED
      BY <2>1, <2>6, <2>7 DEF c
  <1>5. ASSUME NEW k \in 1 .. Len(found), NEW m \in 1 .. Len(found), k # m
        PROVE  Apart(U[n + k], U[n + m])
    <2>1. /\ IsChild(U[n + k]) /\ U[n + k].sysfs = None /\ U[n + k].dev = found[k]
          /\ IsChild(U[n + m]) /\ U[n + m].sysfs = None /\ U[n + m].dev = found[m]
      BY <1>3
    <2> QED
      BY <1>5, <2>1 DEF Apart
  <1>6. \A i \in 1 .. Len(U) : EntryOK(U[i], B)
    BY <1>2, <1>3 DEF TableOK
  <1>7. ASSUME NEW i \in 1 .. Len(U), NEW j \in 1 .. Len(U), i # j
        PROVE  Apart(U[i], U[j])
    <2>1. CASE i \in 1 .. n /\ j \in 1 .. n
      BY <1>7, <2>1 DEF TableOK
    <2>2. CASE i \in 1 .. n /\ j \notin 1 .. n
      BY <1>2, <1>4, <2>2
    <2>3. CASE i \notin 1 .. n /\ j \in 1 .. n
      BY <1>2, <1>4, <2>3
    <2>4. CASE i \notin 1 .. n /\ j \notin 1 .. n
      BY <1>1, <1>2, <1>5, <1>7, <2>4
    <2> QED
      BY <2>1, <2>2, <2>3, <2>4
  <1> QED
    BY <1>6, <1>7 DEF TableOK

\* What a table has of another: its entries, with the devices that came or went
\* behind a bus, and partitions that were found.
Grew(T, U) ==
    /\ Len(T) <= Len(U)
    /\ \A j \in 1 .. Len(T) : Same(U[j], T[j]) /\ (T[j].sysfs = None => U[j].dev = T[j].dev)
    /\ \A j \in Len(T) + 1 .. Len(U) : \E i \in 1 .. Len(T), k \in Nat \ {0} :
          T[i].wild /\ NewChild(U[j], T[i], U[j].dev, k)

\* Searching for the device of an entry keeps the table sound, and the table
\* only grows.
LEMMA LocatedOK ==
    ASSUME NEW B, NEW T \in Seq(Entries), TableOK(T, B), NEW i \in 1 .. Len(T),
           NEW found \in Find_Wildcard_Block_Devices(T[i], T),
           NEW U, U = Located(T, i, found)
    PROVE  U \in Seq(Entries) /\ TableOK(U, B) /\ Grew(T, U)
  <1> DEFINE p == T[i]
             n == Len(T)
             V == SubSeq(U, 1, n)
  <1>1. p \in Entries /\ EntryOK(p, B) /\ n \in Nat
    BY DEF TableOK
  <1>2. p.dev \in Disk \/ ~p.wild \/ p.dev = None
    BY <1>1 DEF EntryOK, ChildOK, FileOK
  <1>3. /\ U \in Seq(Entries) /\ found \in Seq(Text) /\ Len(U) = n + Len(found)
        /\ \A j \in 1 .. n : j # i => U[j] = T[j]
        /\ Refound(U[i], p)
        /\ \A k \in 1 .. Len(found) : NewChild(U[n + k], p, found[k], k)
    BY <1>1, LocatedIs
  <1>4. /\ \A k, m \in 1 .. Len(found) : k # m => found[k] # found[m]
        /\ \A k \in 1 .. Len(found) :
              /\ p.wild /\ p.dev \in Disk /\ found[k] \in PartsOf[p.dev] \cap nodes
              /\ ~Find_Partition_By_Block_Device(T, found[k])
    BY <1>1, <1>2, Searching
  <1>5. ASSUME NEW j \in 1 .. n PROVE Refound(U[j], T[j]) \/ U[j] = T[j]
    BY <1>3
  <1>6. Len(found) \in Nat
    BY <1>3
  <1>7. V \in Seq(Entries) /\ Len(V) = n /\ \A j \in 1 .. n : V[j] = U[j]
    BY <1>1, <1>3, <1>6
  <1> HIDE DEF V
  <1>8. TableOK(V, B)
    <2>1. ASSUME NEW j \in 1 .. n PROVE Kept(U[j], T[j]) /\ EntryOK(U[j], B)
      <3>1. EntryOK(T[j], B)
        BY DEF TableOK
      <3>2. CASE U[j] = T[j]
        BY <3>1, <3>2 DEF Kept
      <3>3. CASE Refound(U[j], T[j])
        BY <3>1, <3>3, RefoundOK
      <3> QED
        BY <1>5, <3>2, <3>3
    <2> QED
      BY <1>7, <2>1, KeptOK
  <1>9. TableOK(U, B)
    <2>1. CASE Len(found) = 0
      <3>1. \A j \in 1 .. Len(U) : U[j] = V[j]
        BY <1>1, <1>3, <1>7, <2>1
      <3>2. Len(U) = Len(V)
        BY <1>1, <1>3, <1>7, <2>1
      <3> QED
        BY <1>8, <3>1, <3>2 DEF TableOK
    <2>2. CASE Len(found) # 0
      <3>1. p.wild /\ p.dev \in Disk /\ 1 \in 1 .. Len(found)
        BY <1>4, <1>6, <2>2
      <3>2. ~IsChild(p) /\ FileOK(p, B)
        BY <1>1, <3>1 DEF EntryOK, ChildOK
      <3>3. ASSUME NEW j \in 1 .. n, V[j].sysfs # None
            PROVE  V[j].sysfs = BusOf[p.dev] <=> V[j].mount = p.mount
        <4>1. V[j].sysfs = T[j].sysfs /\ V[j].mount = T[j].mount /\ EntryOK(T[j], B)
          BY <1>5, <1>7 DEF Refound, Same, TableOK
        <4>2. ~IsChild(T[j]) /\ FileOK(T[j], B) /\ FromBus(T[j], B)
          BY <3>3, <4>1 DEF EntryOK, ChildOK, FileOK
        <4>3. CASE j = i
          BY <3>1, <3>2, <3>3, <4>1, <4>3, DiskAssumption DEF FileOK
        <4>4. CASE j # i
          <5>1. T[j].mount # p.mount /\ T[j].sysfs # p.sysfs
            BY <3>2, <3>3, <4>1, <4>2, <4>4 DEF TableOK, Apart
          <5>2. CASE p.sysfs # None
            BY <3>1, <3>2, <4>1, <5>1, <5>2, DiskAssumption DEF FileOK
          <5>3. CASE p.sysfs = None
            BY <3>1, <3>2, <4>1, <4>2, <5>1, <5>3 DEF FileOK, FromBus
          <5> QED
            BY <5>2, <5>3
        <4> QED
          BY <4>3, <4>4
      <3>4. ASSUME NEW k \in 1 .. Len(found)
            PROVE  found[k] \in PartsOf[p.dev] /\ ~Find_Partition_By_Block_Device(V, found[k])
        <4>1. found[k] \in Parts /\ found[k] # None
          BY <1>4, DiskAssumption DEF Parts
        <4>2. ASSUME NEW j \in 1 .. n PROVE found[k] \notin {V[j].dev, V[j].actual}
          <5>1. found[k] \notin {T[j].dev, T[j].actual}
            BY <1>1, <1>4 DEF Find_Partition_By_Block_Device
          <5>2. V[j].dev = T[j].dev /\ V[j].actual \in {None, T[j].dev, T[j].actual}
            BY <1>5, <1>7 DEF Refound
          <5> QED
            BY <4>1, <5>1, <5>2
        <4> QED
          BY <1>4, <1>7, <4>2 DEF Find_Partition_By_Block_Device
      <3>5. Len(U) = Len(V) + Len(found) /\ \A j \in 1 .. Len(V) : U[j] = V[j]
        BY <1>3, <1>7
      <3>6. \A k \in 1 .. Len(found) : NewChild(U[Len(V) + k], p, found[k], k)
        BY <1>3, <1>7
      <3>7. \A j \in 1 .. Len(V) : V[j].sysfs # None =>
               (V[j].sysfs = BusOf[p.dev] <=> V[j].mount = p.mount)
        BY <1>7, <3>3
      <3>8. \A k, m \in 1 .. Len(found) : k # m => found[k] # found[m]
        BY <1>4
      <3>9. found \in Seq(Text)
        BY <1>3
      <3> HIDE DEF p
      <3> QED
        BY <1>1, <1>7, <1>8, <3>1, <3>2, <3>4, <3>5, <3>6, <3>7, <3>8, <3>9, ChildrenOK
    <2> QED
      BY <2>1, <2>2
  <1>10. Grew(T, U)
    <2>1. ASSUME NEW j \in 1 .. n
          PROVE  Same(U[j], T[j]) /\ (T[j].sysfs = None => U[j].dev = T[j].dev)
      BY <1>5 DEF Same, Refound
    <2>2. ASSUME NEW j \in n + 1 .. Len(U)
          PROVE  \E h \in 1 .. n, k \in Nat \ {0} : T[h].wild /\ NewChild(U[j], T[h], U[j].dev, k)
      <3>1. j - n \in 1 .. Len(found) /\ n + (j - n) = j /\ j - n \in Nat \ {0}
        BY <1>1, <1>3, <1>6, <2>2
      <3>2. NewChild(U[j], T[i], found[j - n], j - n) /\ T[i].wild
        BY <1>3, <1>4, <3>1
      <3>3. NewChild(U[j], T[i], U[j].dev, j - n)
        BY <3>2 DEF NewChild
      <3> QED
        BY <3>1, <3>2, <3>3
    <2>3. n <= Len(U)
      BY <1>1, <1>3, <1>6
    <2> QED
      BY <2>1, <2>2, <2>3 DEF Grew
  <1> QED
    BY <1>3, <1>9, <1>10

-----------------------------------------------------------------------------
(***************************************************************************)
(* The storages and /data in a table.                                      *)
(***************************************************************************)
\* The ids of the entries of the files.
Ids(T) ==
    \A i, j \in 1 .. Len(T) :
        ~IsChild(T[i]) /\ ~IsChild(T[j]) /\ T[i].storage =>
            T[i].id # 0 /\ (i # j => T[i].id # T[j].id)

\* Why the storage at mount point s is the default.
Flagged(T, s) ==
    \E i \in 1 .. Len(T) : /\ T[i].settings /\ T[i].storage /\ T[i].mount = s
                           /\ \A j \in 1 .. Len(T) : T[j].settings => j = i
FirstOne(T, s) ==
    /\ \A j \in 1 .. Len(T) : ~T[j].settings
    /\ \E i \in 1 .. Len(T) : /\ T[i].storage /\ T[i].mount = s /\ ~IsChild(T[i])
                              /\ \A j \in 1 .. i - 1 : ~T[j].storage
NoStorage(T, s) == s = NoPath /\ \A j \in 1 .. Len(T) : ~T[j].storage
Default(T, s) == Flagged(T, s) \/ FirstOne(T, s) \/ NoStorage(T, s)

SaysData(T, dev) == \E i \in 1 .. Len(T) : T[i].mount = Data /\ T[i].dev = dev
HasData(T) == \E i \in 1 .. Len(T) : T[i].mount = Data

\* What was found on a disk is no entry of the files.
LEMMA GrewChild ==
    ASSUME NEW B, NEW T \in Seq(Entries), TableOK(T, B), NEW U, Grew(T, U),
           NEW j \in Len(T) + 1 .. Len(U)
    PROVE  /\ IsChild(U[j]) /\ ~U[j].settings /\ U[j].sysfs = None
           /\ \E i \in 1 .. Len(T) : /\ ~IsChild(T[i]) /\ U[j].storage = T[i].storage
                                     /\ U[j].sub = T[i].mount /\ T[i].wild
  <1>1. PICK i \in 1 .. Len(T), k \in Nat \ {0} :
             T[i].wild /\ NewChild(U[j], T[i], U[j].dev, k)
    BY DEF Grew
  <1>2. ~IsChild(T[i])
    BY <1>1 DEF TableOK, EntryOK, ChildOK
  <1>b. T[i] \in Entries
    OBVIOUS
  <1>a. T[i].mount \in Paths
    BY <1>b DEF Entries
  <1>3. Numbered(T[i].mount, k).part = k
    BY <1>a, NumberedIs
  <1> QED
    BY <1>1, <1>2, <1>3 DEF NewChild, IsChild

\* What a grown table keeps: storage ids that differ, the default storage,
\* and the device the file gave for /data.
LEMMA GrewKeeps ==
    ASSUME NEW B, NEW T \in Seq(Entries), TableOK(T, B), NEW U \in Seq(Entries), Grew(T, U)
    PROVE  /\ Ids(T) => Ids(U)
           /\ \A s : Default(T, s) => Default(U, s)
           /\ (\A b \in B : b.mount # "data")
              => \A dev : SaysData(T, dev) => SaysData(U, dev)
  <1>1. /\ Len(T) \in Nat /\ Len(U) \in Nat /\ Len(T) <= Len(U)
        /\ \A j \in 1 .. Len(T) : Same(U[j], T[j]) /\ j \in 1 .. Len(U)
    BY DEF Grew
  <1>2. \A j \in 1 .. Len(U) : j \in 1 .. Len(T) \/ j \in Len(T) + 1 .. Len(U)
    BY <1>1
  <1>3. \A j \in 1 .. Len(T) : /\ IsChild(U[j]) <=> IsChild(T[j])
                               /\ U[j].storage = T[j].storage /\ U[j].id = T[j].id
                               /\ U[j].settings = T[j].settings /\ U[j].mount = T[j].mount
    BY <1>1 DEF Same, IsChild
  <1>4. \A j \in Len(T) + 1 .. Len(U) :
             /\ IsChild(U[j]) /\ ~U[j].settings
             /\ \E i \in 1 .. Len(T) : ~IsChild(T[i]) /\ U[j].storage = T[i].storage
    BY GrewChild
  <1>5. ASSUME Ids(T) PROVE Ids(U)
    <2>1. ASSUME NEW i \in 1 .. Len(U), NEW j \in 1 .. Len(U),
                 ~IsChild(U[i]), ~IsChild(U[j]), U[i].storage
          PROVE  U[i].id # 0 /\ (i # j => U[i].id # U[j].id)
      <3>1. i \in 1 .. Len(T) /\ j \in 1 .. Len(T)
        BY <1>2, <1>4, <2>1
      <3> QED
        BY <1>3, <1>5, <2>1, <3>1 DEF Ids
    <2> QED
      BY <2>1 DEF Ids
  <1>6. ASSUME NEW s, Default(T, s) PROVE Default(U, s)
    <2>1. CASE Flagged(T, s)
      <3>1. PICK i \in 1 .. Len(T) :
                 /\ T[i].settings /\ T[i].storage /\ T[i].mount = s
                 /\ \A j \in 1 .. Len(T) : T[j].settings => j = i
        BY <2>1 DEF Flagged
      <3>2. \A j \in 1 .. Len(U) : U[j].settings => j = i
        BY <1>2, <1>3, <1>4, <3>1
      <3> QED
        BY <1>1, <1>3, <3>1, <3>2 DEF Flagged, Default
    <2>2. CASE FirstOne(T, s)
      <3>1. PICK i \in 1 .. Len(T) :
                 /\ T[i].storage /\ T[i].mount = s /\ ~IsChild(T[i])
                 /\ \A j \in 1 .. i - 1 : ~T[j].storage
        BY <2>2 DEF FirstOne
      <3>2. \A j \in 1 .. Len(U) : ~U[j].settings
        BY <1>2, <1>3, <1>4, <2>2 DEF FirstOne
      <3>3. \A j \in 1 .. i - 1 : ~U[j].storage
        BY <1>1, <1>3, <3>1
      <3> QED
        BY <1>1, <1>3, <3>1, <3>2, <3>3 DEF FirstOne, Default
    <2>3. CASE NoStorage(T, s)
      BY <1>2, <1>3, <1>4, <2>3 DEF NoStorage, Default
    <2> QED
      BY <1>6, <2>1, <2>2, <2>3 DEF Default
  <1>7. ASSUME \A b \in B : b.mount # "data", NEW dev, SaysData(T, dev) PROVE SaysData(U, dev)
    <2>1. PICK i \in 1 .. Len(T) : T[i].mount = Data /\ T[i].dev = dev
      BY <1>7 DEF SaysData
    <2>2. ~IsChild(T[i])
      BY <2>1 DEF IsChild, Data, Path
    <2>3. FileOK(T[i], B)
      BY <2>2 DEF TableOK, EntryOK
    <2>4. T[i].sysfs = None
      <3>1. SUFFICES ASSUME T[i].sysfs # None PROVE FALSE
        OBVIOUS
      <3>2. PICK b \in B : IF b.mount = "auto" THEN T[i].mount.auto # 0 ELSE T[i].mount = PathOf(b)
        BY <2>3, <3>1 DEF FileOK, FromBus
      <3> QED
        BY <1>7, <2>1, <3>2 DEF PathOf, Data, Path, Root
    <2> QED
      BY <1>1, <1>3, <2>1, <2>4 DEF SaysData, Grew
  <1> QED
    BY <1>5, <1>6, <1>7

\* Where the entries of a table are when entry i is erased, and where they were.
After(j, i) == IF j < i THEN j ELSE j - 1
Before(j, i) == IF j < i THEN j ELSE j + 1

\* The indices before and after one element is taken out of a sequence.
LEMMA CutIndex ==
    ASSUME NEW n \in Nat, NEW i \in 1 .. n, NEW m, m = n - 1
    PROVE  /\ \A j, k \in 1 .. m : j # k => Before(j, i) # Before(k, i)
           /\ \A j \in 1 .. m : After(Before(j, i), i) = j
           /\ \A h \in 1 .. n, k \in 1 .. m :
                 h # i /\ k < After(h, i) => Before(k, i) \in 1 .. h - 1
  BY DEF Before, After

\* What taking one element out of a table leaves: the others, in their
\* order.
LEMMA CutIs ==
    ASSUME NEW T \in Seq(Entries), NEW i \in 1 .. Len(T)
    PROVE  LET U == RemoveAt(T, i) IN
           /\ U \in Seq(Entries) /\ Len(U) = Len(T) - 1 /\ Len(T) \in Nat /\ Len(U) \in Nat
           /\ \A j \in 1 .. Len(U) : \E h \in 1 .. Len(T) :
                 h # i /\ U[j] = T[h] /\ h = Before(j, i)
           /\ \A h \in 1 .. Len(T) : h # i => \E j \in 1 .. Len(U) :
                 U[j] = T[h] /\ j = After(h, i)
  <1> DEFINE U == RemoveAt(T, i)
  <1>1. /\ U \in Seq(Entries) /\ Len(U) = Len(T) - 1 /\ Len(T) \in Nat
        /\ \A j \in 1 .. Len(T) - 1 : U[j] = IF j < i THEN T[j] ELSE T[j + 1]
    BY RemoveAtIs
  <1> HIDE DEF U
  <1>2. ASSUME NEW j \in 1 .. Len(U)
        PROVE  \E h \in 1 .. Len(T) : h # i /\ U[j] = T[h] /\ h = Before(j, i)
    <2>1. CASE j < i
      BY <1>1, <2>1 DEF Before
    <2>2. CASE ~(j < i)
      <3>1. j + 1 \in 1 .. Len(T) /\ j + 1 # i /\ U[j] = T[j + 1]
        BY <1>1, <2>2
      <3> QED
        BY <2>2, <3>1 DEF Before
    <2> QED
      BY <2>1, <2>2
  <1>3. ASSUME NEW h \in 1 .. Len(T), h # i
        PROVE  \E j \in 1 .. Len(U) : U[j] = T[h] /\ j = After(h, i)
    <2>1. CASE h < i
      BY <1>1, <2>1 DEF After
    <2>2. CASE ~(h < i)
      <3>1. h - 1 \in 1 .. Len(T) - 1 /\ ~(h - 1 < i) /\ h - 1 + 1 = h
        BY <1>1, <1>3, <2>2
      <3>2. U[h - 1] = T[h]
        BY <1>1, <3>1
      <3> QED
        BY <1>1, <2>2, <3>1, <3>2 DEF After
    <2> QED
      BY <2>1, <2>2
  <1> QED
    BY <1>1, <1>2, <1>3 DEF U

\* A sound table is sound without one of its entries.
LEMMA CutOK ==
    ASSUME NEW B, NEW T \in Seq(Entries), TableOK(T, B), NEW i \in 1 .. Len(T),
           NEW U, U = RemoveAt(T, i)
    PROVE  TableOK(U, B)
  <1>1. /\ Len(T) \in Nat /\ Len(U) = Len(T) - 1 /\ Len(U) \in Nat
        /\ \A j \in 1 .. Len(U) : \E h \in 1 .. Len(T) :
              h # i /\ U[j] = T[h] /\ h = Before(j, i)
    BY CutIs
  <1>2. \A j, k \in 1 .. Len(U) : j # k => Before(j, i) # Before(k, i)
    BY <1>1, CutIndex
  <1>3. ASSUME NEW j \in 1 .. Len(U), NEW k \in 1 .. Len(U), j # k
        PROVE  Apart(U[j], U[k])
    <2>1. PICK h \in 1 .. Len(T) : U[j] = T[h] /\ h = Before(j, i)
      BY <1>1
    <2>2. PICK m \in 1 .. Len(T) : U[k] = T[m] /\ m = Before(k, i)
      BY <1>1
    <2>3. h # m
      BY <1>2, <1>3, <2>1, <2>2
    <2> QED
      BY <2>1, <2>2, <2>3 DEF TableOK
  <1>4. \A j \in 1 .. Len(U) : EntryOK(U[j], B)
    BY <1>1 DEF TableOK
  <1> QED
    BY <1>3, <1>4 DEF TableOK

\* Taking out an entry that was found on a disk keeps the storage ids, the
\* default storage and the device of /data.
LEMMA CutKeeps ==
    ASSUME NEW B, NEW T \in Seq(Entries), TableOK(T, B), NEW i \in 1 .. Len(T), IsChild(T[i]),
           NEW U, U = RemoveAt(T, i)
    PROVE  /\ Ids(T) => Ids(U)
           /\ \A s : Default(T, s) => Default(U, s)
           /\ \A dev : SaysData(T, dev) => SaysData(U, dev)
  <1>1. /\ U \in Seq(Entries) /\ Len(U) = Len(T) - 1 /\ Len(T) \in Nat /\ Len(U) \in Nat
        /\ \A j \in 1 .. Len(U) : \E h \in 1 .. Len(T) :
              h # i /\ U[j] = T[h] /\ h = Before(j, i)
        /\ \A h \in 1 .. Len(T) : h # i => \E j \in 1 .. Len(U) :
              U[j] = T[h] /\ j = After(h, i)
    BY CutIs
  <1>2. ~T[i].settings
    BY DEF TableOK, EntryOK, ChildOK
  <1>a. /\ \A j, k \in 1 .. Len(U) : j # k => Before(j, i) # Before(k, i)
        /\ \A j \in 1 .. Len(U) : After(Before(j, i), i) = j
        /\ \A h \in 1 .. Len(T), k \in 1 .. Len(U) :
              h # i /\ k < After(h, i) => Before(k, i) \in 1 .. h - 1
    BY <1>1, CutIndex
  <1>3. ASSUME Ids(T), NEW j \in 1 .. Len(U), NEW k \in 1 .. Len(U),
               ~IsChild(U[j]), ~IsChild(U[k]), U[j].storage
        PROVE  U[j].id # 0 /\ (j # k => U[j].id # U[k].id)
    <2>1. PICK h \in 1 .. Len(T) : U[j] = T[h] /\ h = Before(j, i)
      BY <1>1
    <2>2. PICK m \in 1 .. Len(T) : U[k] = T[m] /\ m = Before(k, i)
      BY <1>1
    <2>3. j # k => h # m
      BY <1>a, <2>1, <2>2
    <2> QED
      BY <1>3, <2>1, <2>2, <2>3 DEF Ids
  <1>4. ASSUME NEW s, Flagged(T, s) PROVE Flagged(U, s)
    <2>1. PICK h \in 1 .. Len(T) :
               /\ T[h].settings /\ T[h].storage /\ T[h].mount = s
               /\ \A j \in 1 .. Len(T) : T[j].settings => j = h
      BY <1>4 DEF Flagged
    <2>2. PICK j \in 1 .. Len(U) : U[j] = T[h] /\ j = After(h, i)
      BY <1>1, <1>2, <2>1
    <2>3. ASSUME NEW k \in 1 .. Len(U), U[k].settings PROVE k = j
      <3>1. PICK m \in 1 .. Len(T) : m # i /\ U[k] = T[m] /\ m = Before(k, i)
        BY <1>1
      <3>2. m = h
        BY <2>1, <2>3, <3>1
      <3> QED
        BY <1>a, <2>2, <3>1, <3>2
    <2> QED
      BY <2>1, <2>2, <2>3 DEF Flagged
  <1>5. ASSUME NEW s, FirstOne(T, s) PROVE FirstOne(U, s)
    <2>1. PICK h \in 1 .. Len(T) :
               /\ T[h].storage /\ T[h].mount = s /\ ~IsChild(T[h])
               /\ \A j \in 1 .. h - 1 : ~T[j].storage
      BY <1>5 DEF FirstOne
    <2>a. h # i
      BY <2>1
    <2>2. PICK j \in 1 .. Len(U) : U[j] = T[h] /\ j = After(h, i)
      BY <1>1, <2>a
    <2>3. ASSUME NEW k \in 1 .. j - 1 PROVE ~U[k].storage
      <3>1. k \in 1 .. Len(U) /\ k < j
        BY <1>1
      <3>2. PICK m \in 1 .. Len(T) : m # i /\ U[k] = T[m] /\ m = Before(k, i)
        BY <1>1, <3>1
      <3>3. m \in 1 .. h - 1
        BY <1>a, <2>a, <2>2, <3>1, <3>2
      <3> QED
        BY <2>1, <3>2, <3>3
    <2>4. \A k \in 1 .. Len(U) : ~U[k].settings
      BY <1>1, <1>5 DEF FirstOne
    <2> QED
      BY <2>1, <2>2, <2>3, <2>4 DEF FirstOne
  <1>6. ASSUME NEW s, NoStorage(T, s) PROVE NoStorage(U, s)
    BY <1>1, <1>6 DEF NoStorage
  <1>7. ASSUME NEW dev, SaysData(T, dev) PROVE SaysData(U, dev)
    <2>1. PICK h \in 1 .. Len(T) : T[h].mount = Data /\ T[h].dev = dev
      BY <1>7 DEF SaysData
    <2>2. h # i
      BY <2>1 DEF IsChild, Data, Path
    <2> QED
      BY <1>1, <2>1, <2>2 DEF SaysData
  <1>8. Ids(T) => Ids(U)
    BY <1>3 DEF Ids
  <1> QED
    BY <1>4, <1>5, <1>6, <1>7, <1>8 DEF Default

\* The fields the hot-plug depends on.
Steady(T, U) ==
    /\ Len(U) = Len(T)
    /\ \A j \in 1 .. Len(T) : /\ U[j].mount = T[j].mount /\ U[j].sub = T[j].sub
                              /\ U[j].sysfs = T[j].sysfs /\ U[j].dev = T[j].dev

\* The rest of an entry of a file, when it is set up.
LEMMA SetEntry ==
    ASSUME NEW B, NEW p \in Entries, EntryOK(p, B), NEW q \in Entries,
           q.mount = p.mount, q.sub = p.sub, q.sysfs = p.sysfs, q.dev = p.dev,
           q.actual = p.actual, q.wild = p.wild, q.present = p.present,
           p.storage => q.storage, q.settings => q.storage,
           IsChild(p) => q.link = p.link /\ ~q.settings,
           q.link \in {NoPath, Path("sdcard")}
    PROVE  EntryOK(q, B) /\ Kept(q, p)
  <1>1. IsChild(q) <=> IsChild(p)
    BY DEF IsChild
  <1>2. CASE IsChild(p)
    BY <1>1, <1>2 DEF EntryOK, ChildOK, Kept
  <1>3. CASE ~IsChild(p)
    <2>1. FileOK(p, B)
      BY <1>3 DEF EntryOK
    <2>2. FromBus(p, B) => FromBus(q, B)
      BY DEF FromBus
    <2>3. FileOK(q, B)
      BY <2>1, <2>2 DEF FileOK
    <2> QED
      BY <1>1, <1>3, <2>3 DEF EntryOK, Kept
  <1> QED
    BY <1>2, <1>3

\* Writing /etc/fstab keeps the table sound and its entries in place.
LEMMA WriteOK ==
    ASSUME NEW B, NEW T \in Seq(Entries), TableOK(T, B)
    PROVE  LET U == Write_Fstab(T) IN
           U \in Seq(Entries) /\ TableOK(U, B) /\ Grew(T, U) /\ Steady(T, U)
  <1> DEFINE U == Write_Fstab(T)
             sub(i) == T[i].hassub \/ \E j \in DOMAIN T :
                          T[j].sub # NoPath /\ Find_Partition_By_Path(T, T[j].sub) = i
  <1>1. U = [i \in 1 .. Len(T) |-> [T[i] EXCEPT !.hassub = sub(i)]] /\ Len(T) \in Nat
    BY DEF Write_Fstab
  <1>2. ASSUME NEW i \in 1 .. Len(T) PROVE T[i] \in Entries /\ sub(i) \in BOOLEAN
    <2>1. T[i] \in Entries
      OBVIOUS
    <2>2. T[i].hassub \in BOOLEAN
      BY <2>1 DEF Entries
    <2> QED
      BY <2>1, <2>2
  <1> HIDE DEF U, sub
  <1>3. ASSUME NEW i \in 1 .. Len(T)
        PROVE  U[i] \in Entries /\ Refound(U[i], T[i])
    <2>1. U[i] = [T[i] EXCEPT !.hassub = sub(i)] /\ T[i] \in Entries /\ sub(i) \in BOOLEAN
      BY <1>1, <1>2
    <2>2. U[i] \in Entries
      BY <2>1 DEF Entries
    <2>3. Same(U[i], T[i]) /\ U[i].dev = T[i].dev /\ U[i].actual = T[i].actual
          /\ U[i].present = T[i].present
      BY <2>1 DEF Entries, Same
    <2>4. T[i].sysfs # None /\ T[i].dev = None => ~T[i].present
      BY DEF TableOK, EntryOK, ChildOK, FileOK
    <2> QED
      BY <2>2, <2>3, <2>4 DEF Refound
  <1>4. U \in Seq(Entries) /\ Len(U) = Len(T)
    BY <1>1, <1>3
  <1>5. \A i \in 1 .. Len(T) : Kept(U[i], T[i]) /\ EntryOK(U[i], B)
    BY <1>3, RefoundOK DEF TableOK
  <1>6. TableOK(U, B)
    BY <1>4, <1>5, KeptOK
  <1>7. Grew(T, U) /\ Steady(T, U)
    BY <1>1, <1>3, <1>4 DEF Grew, Steady, Refound, Same
  <1> QED
    BY <1>4, <1>6, <1>7 DEF U

-----------------------------------------------------------------------------
(***************************************************************************)
(* Setup_Fstab_Partitions: the entries the loop has done.                  *)
(***************************************************************************)
Settled(T, n, s) ==
    \/ s = NoPath /\ \A i \in 1 .. n : ~T[i].settings
    \/ \E i \in 1 .. n : /\ T[i].settings /\ T[i].mount = s
                         /\ \A j \in 1 .. n : T[j].settings => j = i

Chosen(T, n, s, last) ==
    /\ n \in 0 .. Len(T)
    /\ \A i \in 1 .. Len(T) : IsChild(T[i]) => ~T[i].storage
    /\ \A i \in 1 .. n : T[i].id \in 0 .. last /\ (T[i].storage <=> T[i].id # 0)
    /\ \A i, j \in 1 .. n : i # j /\ T[i].storage => T[i].id # T[j].id
    /\ Settled(T, n, s)

\* One turn of the loop of Setup_Settings_Storage keeps the table sound and
\* hands the invariant of the loop, Chosen, on to the next turn.
LEMMA SetupOneOK ==
    ASSUME NEW B, Partitions \in Seq(Entries), TableOK(Partitions, B), SetupOne,
           pos \in Nat, storageid \in Nat, settings \in Paths,
           Chosen(Partitions, pos, settings, storageid)
    PROVE  /\ Partitions' \in Seq(Entries) /\ TableOK(Partitions', B)
           /\ Steady(Partitions, Partitions')
           /\ Chosen(Partitions', pos', settings', storageid')
           /\ settings' \in Paths /\ storageid' \in Nat
  <1> DEFINE T == Partitions
             n == pos + 1
             p == T[n]
             q == IF start.media /\ p.mount = Data THEN Setup_Data_Media(p) ELSE p
             chosen == settings = NoPath /\ q.settings /\ q.present
             id == IF q.storage THEN storageid' ELSE 0
             r == [q EXCEPT !.id = id, !.settings = chosen]
             U == Partitions'
  <1>1. /\ n \in 1 .. Len(T) /\ p \in Entries /\ EntryOK(p, B) /\ Len(T) \in Nat
        /\ pos' = n /\ n \in Nat /\ pos = n - 1
    BY DEF SetupOne, TableOK
  <1>2. /\ storageid' = IF q.storage THEN storageid + 1 ELSE storageid
        /\ settings' = IF chosen THEN q.mount ELSE settings
        /\ U = [T EXCEPT ![n] = r]
    BY DEF SetupOne
  <1>3. Path("sdcard") \in Paths
    BY PathsAre
  <1>4. /\ q \in Entries /\ q.mount = p.mount /\ q.sub = p.sub /\ q.sysfs = p.sysfs
        /\ q.dev = p.dev /\ q.actual = p.actual /\ q.wild = p.wild /\ q.present = p.present
        /\ p.storage => q.storage
        /\ q.settings => p.settings \/ q.storage
        /\ q.link \in {p.link, Path("sdcard")}
        /\ p.mount # Data => q = p
    <2>1. CASE start.media /\ p.mount = Data
      <3>1. q = [p EXCEPT !.storage = TRUE, !.settings = TRUE, !.link = Path("sdcard")]
        BY <2>1 DEF Setup_Data_Media
      <3> HIDE DEF q, p
      <3> QED
        BY <1>1, <1>3, <2>1, <3>1 DEF Entries
    <2>2. CASE ~(start.media /\ p.mount = Data)
      BY <1>1, <2>2
    <2> QED
      BY <2>1, <2>2
  <1>5. IsChild(p) => q = p /\ ~p.settings /\ ~p.storage
    <2>1. ASSUME IsChild(p) PROVE p.mount # Data
      BY <2>1 DEF IsChild, Data, Path
    <2>2. IsChild(p) => ~p.settings
      BY <1>1 DEF EntryOK, ChildOK
    <2> QED
      BY <1>1, <1>4, <2>1, <2>2 DEF Chosen
  <1>6. (p.settings => p.storage) /\ p.link \in {NoPath, Path("sdcard")}
    BY <1>1 DEF EntryOK, ChildOK, FileOK
  <1>7. chosen \in BOOLEAN /\ id \in Nat /\ storageid' \in Nat /\ q.settings \in BOOLEAN
    BY <1>1, <1>2, <1>4 DEF Entries
  <1>8. chosen => q.settings /\ settings = NoPath
    OBVIOUS
  <1>9. id = IF q.storage THEN storageid' ELSE 0
    OBVIOUS
  <1> HIDE DEF q, chosen, id
  <1>10. /\ r \in Entries /\ r.mount = p.mount /\ r.sub = p.sub /\ r.sysfs = p.sysfs
         /\ r.dev = p.dev /\ r.actual = p.actual /\ r.wild = p.wild /\ r.present = p.present
         /\ r.storage = q.storage /\ r.settings = chosen /\ r.link = q.link /\ r.id = id
    <2> HIDE DEF p
    <2> QED
      BY <1>4, <1>7 DEF Entries
  <1> HIDE DEF r
  <1>11. EntryOK(r, B) /\ Kept(r, p)
    <2>1. IsChild(p) => r.link = p.link /\ ~r.settings
      BY <1>5, <1>8, <1>10
    <2>2. r.link \in {NoPath, Path("sdcard")}
      BY <1>4, <1>6, <1>10
    <2>3. (r.settings => r.storage) /\ (p.storage => r.storage)
      BY <1>4, <1>6, <1>8, <1>10
    <2> QED
      BY <1>1, <1>10, <2>1, <2>2, <2>3, SetEntry
  <1>12. /\ U \in Seq(Entries) /\ Len(U) = Len(T) /\ U[n] = r
         /\ \A j \in 1 .. Len(T) : j # n => U[j] = T[j]
    BY <1>1, <1>2, <1>10
  <1>13. TableOK(U, B)
    <2>1. ASSUME NEW j \in 1 .. Len(T) PROVE Kept(U[j], T[j]) /\ EntryOK(U[j], B)
      BY <1>11, <1>12 DEF TableOK, Kept
    <2> QED
      BY <1>12, <2>1, KeptOK
  <1>14. Steady(T, U)
    BY <1>10, <1>12 DEF Steady
  <1>15. p.mount \in Paths /\ settings' \in Paths /\ (IsChild(p) => ~chosen)
    BY <1>1, <1>2, <1>4, <1>5, <1>8 DEF Entries
  <1>16. Chosen(U, n, settings', storageid')
    <2>1. \A i \in 1 .. Len(U) : IsChild(U[i]) => ~U[i].storage
      <3>1. IsChild(r) => ~r.storage
        BY <1>5, <1>10 DEF IsChild
      <3> QED
        BY <1>12, <3>1 DEF Chosen
    <2>2. \A i \in 1 .. pos : i \in 1 .. Len(T) /\ i # n /\ U[i] = T[i]
      BY <1>1, <1>12
    <2>3. \A i \in 1 .. n : i \in 1 .. pos \/ i = n
      BY <1>1
    <2>4. /\ storageid' \in {storageid, storageid + 1}
          /\ r.storage => storageid' = storageid + 1
          /\ r.id = IF r.storage THEN storageid' ELSE 0
      BY <1>2, <1>9, <1>10
    <2>5. \A i \in 1 .. n : U[i].id \in 0 .. storageid' /\ (U[i].storage <=> U[i].id # 0)
      <3>1. \A i \in 1 .. pos : T[i].id \in 0 .. storageid' /\ (T[i].storage <=> T[i].id # 0)
        BY <2>4 DEF Chosen
      <3>2. r.id \in 0 .. storageid' /\ (r.storage <=> r.id # 0)
        BY <1>7, <2>4
      <3> QED
        BY <1>12, <2>2, <2>3, <3>1, <3>2
    <2>6. ASSUME NEW i \in 1 .. n, NEW j \in 1 .. n, i # j, U[i].storage
          PROVE  U[i].id # U[j].id
      <3>1. CASE i \in 1 .. pos /\ j \in 1 .. pos
        BY <2>2, <2>6, <3>1 DEF Chosen
      <3>2. CASE i = n /\ j \in 1 .. pos
        <4>1. U[i].id = storageid + 1 /\ U[j].id \in 0 .. storageid
          BY <1>12, <2>2, <2>4, <2>6, <3>2 DEF Chosen
        <4> QED
          BY <4>1
      <3>3. CASE i \in 1 .. pos /\ j = n
        <4>1. U[i].id \in 1 .. storageid /\ U[j].id \in {0, storageid + 1}
          BY <1>12, <2>2, <2>4, <2>6, <3>3 DEF Chosen
        <4> QED
          BY <4>1
      <3> QED
        BY <2>3, <2>6, <3>1, <3>2, <3>3
    <2>7. Settled(U, n, settings')
      <3>1. CASE chosen
        <4>1. settings = NoPath /\ \A i \in 1 .. pos : ~T[i].settings
          <5>1. ASSUME NEW i \in 1 .. pos, T[i].settings, T[i].mount = NoPath PROVE FALSE
            <6>1. T[i].settings /\ EntryOK(T[i], B) /\ T[i].mount = NoPath
              BY <2>2, <5>1 DEF TableOK
            <6> QED
              BY <6>1 DEF EntryOK, ChildOK, FileOK
          <5> QED
            BY <1>8, <3>1, <5>1 DEF Chosen, Settled
        <4>2. r.settings /\ r.mount = settings'
          BY <1>2, <1>4, <1>10, <3>1
        <4>3. n \in 1 .. n /\ U[n].settings /\ U[n].mount = settings'
          BY <1>1, <1>12, <4>2
        <4>4. \A j \in 1 .. n : U[j].settings => j = n
          BY <2>2, <2>3, <4>1
        <4> QED
          BY <4>3, <4>4 DEF Settled
      <3>2. CASE ~chosen
        <4>1. settings' = settings /\ ~r.settings
          BY <1>2, <1>10, <3>2
        <4>2. \A i \in 1 .. n : U[i].settings => i \in 1 .. pos /\ T[i].settings
          BY <1>12, <2>2, <2>3, <4>1
        <4>3. CASE settings = NoPath /\ \A i \in 1 .. pos : ~T[i].settings
          BY <4>1, <4>2, <4>3 DEF Settled
        <4>4. ASSUME NEW i \in 1 .. pos, T[i].settings, T[i].mount = settings,
                     \A j \in 1 .. pos : T[j].settings => j = i
              PROVE  Settled(U, n, settings')
          <5>1. i \in 1 .. n /\ U[i].settings /\ U[i].mount = settings'
            BY <1>1, <2>2, <4>1, <4>4
          <5>2. \A j \in 1 .. n : U[j].settings => j = i
            BY <4>2, <4>4
          <5> QED
            BY <5>1, <5>2 DEF Settled
        <4> QED
          BY <4>3, <4>4 DEF Chosen, Settled
      <3> QED
        BY <3>1, <3>2
    <2> QED
      BY <1>1, <1>12, <2>1, <2>5, <2>6, <2>7 DEF Chosen
  <1> QED
    BY <1>1, <1>7, <1>12, <1>13, <1>14, <1>15, <1>16

\* What the loop leaves, and what comes after it: ids and a default storage.
LEMMA SetupAllOK ==
    ASSUME NEW B, Partitions \in Seq(Entries), TableOK(Partitions, B), Setup_Fstab_Partitions,
           pos \in Nat, storageid \in Nat, settings \in Paths,
           Chosen(Partitions, pos, settings, storageid)
    PROVE  /\ Partitions' \in Seq(Entries) /\ TableOK(Partitions', B)
           /\ Steady(Partitions, Partitions')
           /\ Ids(Partitions') /\ Default(Partitions', settings')
           /\ settings' \in Paths /\ storageid' \in Nat
  <1> DEFINE T == Partitions
             n == Len(T)
             dat == Find_Partition_By_Path(T, Data)
             automatic ==
                 /\ ~start.media /\ settings = NoPath /\ dat # 0
                 /\ \A path \in InternalSd \cup {Path("sdcard")} :
                       Find_Partition_By_Path(T, path) = 0
             first == SelectInSeq(T, LAMBDA p : p.storage)
             r == [Setup_Data_Media(T[dat]) EXCEPT !.id = storageid + 1]
             V == IF automatic THEN [T EXCEPT ![dat] = r] ELSE T
             U == Partitions'
  <1>1. /\ n \in Nat /\ pos = n /\ \A i \in 1 .. n : T[i] \in Entries /\ EntryOK(T[i], B)
        /\ U = Write_Fstab(V)
        /\ storageid' = IF automatic THEN storageid + 1 ELSE storageid
        /\ settings' = CASE settings # NoPath -> settings
                         [] settings = NoPath /\ automatic -> Data
                         [] OTHER -> IF first = 0 THEN NoPath ELSE T[first].mount
    BY DEF Setup_Fstab_Partitions, TableOK
  <1>2. /\ Data \in Paths /\ NoPath \in Paths /\ Path("sdcard") \in Paths
        /\ Data # Path("system") /\ Data # Path("sdcard") /\ Data # NoPath
    BY PathsAre DEF Data, Path, NoPath
  <1>3. /\ \A i \in 1 .. n : IsChild(T[i]) => ~T[i].storage
        /\ \A i \in 1 .. n : T[i].id \in 0 .. storageid /\ (T[i].storage <=> T[i].id # 0)
        /\ \A i, j \in 1 .. n : i # j /\ T[i].storage => T[i].id # T[j].id
        /\ Settled(T, n, settings)
    BY <1>1 DEF Chosen
  <1>4. \/ first = 0 /\ \A j \in 1 .. n : ~T[j].storage
        \/ /\ first \in 1 .. n /\ T[first].storage
           /\ \A j \in 1 .. first - 1 : ~T[j].storage
    <2> DEFINE I == {j \in 1 .. n : T[j].storage}
    <2>1. first = IF I # {} THEN Min(I) ELSE 0
      BY DEF SelectInSeq
    <2>2. I \in SUBSET Nat
      OBVIOUS
    <2>3. CASE I = {}
      BY <2>1, <2>3
    <2>4. CASE I # {}
      <3>1. first \in I /\ \A j \in I : first <= j
        BY <2>1, <2>2, <2>4, MinIsLeast
      <3> HIDE DEF first
      <3>2. \A j \in 1 .. first - 1 : j \notin I /\ j \in 1 .. n
        BY <1>1, <3>1
      <3> QED
        BY <3>1, <3>2
    <2> QED
      BY <2>3, <2>4
  <1>5. automatic => /\ dat \in 1 .. n /\ T[dat].mount = Data
                     /\ settings = NoPath /\ \A i \in 1 .. n : ~T[i].settings
    <2>1. SUFFICES ASSUME automatic
                   PROVE  dat \in 1 .. n /\ T[dat].mount = Data /\ \A i \in 1 .. n : ~T[i].settings
      OBVIOUS
    <2>2. dat \in 1 .. n /\ Data \in {T[dat].mount, T[dat].link}
      BY <1>1, <1>2, <2>1, FindPath
    <2>3. T[dat].link \in {NoPath, Path("sdcard")}
      BY <1>1, <2>2 DEF EntryOK, ChildOK, FileOK
    <2>4. ASSUME NEW i \in 1 .. n, T[i].settings, T[i].mount = NoPath PROVE FALSE
      BY <1>1, <2>4 DEF EntryOK, ChildOK, FileOK
    <2>5. \A i \in 1 .. n : ~T[i].settings
      BY <1>3, <2>1, <2>4 DEF Settled
    <2> QED
      BY <1>2, <2>2, <2>3, <2>5
  <1> HIDE DEF first, dat
  <1>6. /\ V \in Seq(Entries) /\ TableOK(V, B) /\ Steady(T, V)
        /\ automatic => /\ V[dat].storage /\ V[dat].settings /\ V[dat].id = storageid + 1
                        /\ V[dat].mount = Data
                        /\ \A i \in 1 .. n : i # dat => V[i] = T[i]
    <2>1. CASE ~automatic
      BY <2>1 DEF Steady
    <2>2. CASE automatic
      <3>1. dat \in 1 .. n /\ T[dat] \in Entries /\ EntryOK(T[dat], B) /\ T[dat].mount = Data
        BY <1>1, <1>5, <2>2
      <3>2. r = [T[dat] EXCEPT !.storage = TRUE, !.settings = TRUE, !.link = Path("sdcard"),
                               !.id = storageid + 1]
        BY DEF Setup_Data_Media
      <3> DEFINE p == T[dat]
      <3>3. p \in Entries /\ r = [p EXCEPT !.storage = TRUE, !.settings = TRUE,
                                           !.link = Path("sdcard"), !.id = storageid + 1]
        BY <3>1, <3>2
      <3> DEFINE id == storageid + 1
      <3>a. id \in Nat /\ r = [p EXCEPT !.storage = TRUE, !.settings = TRUE,
                                       !.link = Path("sdcard"), !.id = id]
        BY <3>3
      <3> HIDE DEF r, p, id
      <3>4. /\ r \in Entries /\ r.mount = p.mount /\ r.sub = p.sub /\ r.sysfs = p.sysfs
            /\ r.dev = p.dev /\ r.actual = p.actual /\ r.wild = p.wild
            /\ r.present = p.present /\ r.storage = TRUE /\ r.settings = TRUE
            /\ r.link = Path("sdcard") /\ r.id = id
        BY <1>2, <3>3, <3>a DEF Entries
      <3>5. ~IsChild(p)
        BY <3>1 DEF p, IsChild, Data, Path
      <3>6. EntryOK(r, B) /\ Kept(r, p)
        BY <3>1, <3>3, <3>4, <3>5, SetEntry DEF p
      <3>7. V = [T EXCEPT ![dat] = r]
        BY <2>2
      <3>8. /\ V \in Seq(Entries) /\ Len(V) = n /\ V[dat] = r
            /\ \A j \in 1 .. n : j # dat => V[j] = T[j]
        BY <3>1, <3>4, <3>7
      <3> HIDE DEF V
      <3>9. ASSUME NEW j \in 1 .. n PROVE Kept(V[j], T[j]) /\ EntryOK(V[j], B)
        BY <1>1, <3>6, <3>8 DEF p, Kept
      <3>10. TableOK(V, B)
        BY <3>8, <3>9, KeptOK
      <3>11. Steady(T, V)
        BY <3>4, <3>8 DEF Steady, p
      <3> QED
        BY <3>1, <3>4, <3>8, <3>10, <3>11 DEF p, id
    <2> QED
      BY <2>1, <2>2
  <1>7. U \in Seq(Entries) /\ TableOK(U, B) /\ Grew(V, U) /\ Steady(V, U)
    BY <1>1, <1>6, WriteOK
  <1>8. ~automatic => V = T
    OBVIOUS
  <1> HIDE DEF V
  <1>9. Steady(T, U)
    BY <1>6, <1>7 DEF Steady
  <1>10. \A i \in 1 .. n : IsChild(V[i]) <=> IsChild(T[i])
    BY <1>6 DEF Steady, IsChild
  <1>11. Ids(V)
    <2>1. CASE automatic
      <3>1. \A i \in 1 .. n : i # dat => V[i].id \in 0 .. storageid /\ V[i] = T[i]
        BY <1>3, <1>6, <2>1
      <3>2. V[dat].id = storageid + 1 /\ Len(V) = n
        BY <1>6, <2>1 DEF Steady
      <3>3. ASSUME NEW i \in 1 .. n, NEW j \in 1 .. n, V[i].storage
            PROVE  V[i].id # 0 /\ (i # j => V[i].id # V[j].id)
        <4>1. CASE i = dat
          BY <3>1, <3>2, <4>1
        <4>2. CASE i # dat /\ j = dat
          BY <1>3, <3>1, <3>2, <3>3, <4>2
        <4>3. CASE i # dat /\ j # dat
          BY <1>3, <3>1, <3>3, <4>3
        <4> QED
          BY <4>1, <4>2, <4>3
      <3> QED
        BY <3>2, <3>3 DEF Ids
    <2>2. CASE ~automatic
      BY <1>3, <1>8, <2>2 DEF Ids
    <2> QED
      BY <2>1, <2>2
  <1>12. Default(V, settings')
    <2>1. CASE automatic
      <3>1. settings' = Data
        BY <1>1, <1>5, <2>1
      <3>2. dat \in 1 .. Len(V) /\ Len(V) = n
        BY <1>5, <1>6, <2>1 DEF Steady
      <3>3. \A j \in 1 .. Len(V) : V[j].settings => j = dat
        BY <1>5, <1>6, <2>1, <3>2
      <3> QED
        BY <1>6, <2>1, <3>1, <3>2, <3>3 DEF Flagged, Default
    <2>2. CASE ~automatic /\ settings # NoPath
      <3>1. settings' = settings
        BY <1>1, <2>2
      <3>2. PICK i \in 1 .. n : /\ T[i].settings /\ T[i].mount = settings
                                /\ \A j \in 1 .. n : T[j].settings => j = i
        BY <1>3, <2>2 DEF Settled
      <3>3. T[i].storage
        BY <1>1, <3>2 DEF EntryOK, ChildOK, FileOK
      <3> QED
        BY <1>8, <2>2, <3>1, <3>2, <3>3 DEF Flagged, Default
    <2>3. CASE ~automatic /\ settings = NoPath
      <3>1. settings' = IF first = 0 THEN NoPath ELSE T[first].mount
        BY <1>1, <2>3
      <3>2. ASSUME NEW i \in 1 .. n, T[i].settings, T[i].mount = NoPath PROVE FALSE
        BY <1>1, <3>2 DEF EntryOK, ChildOK, FileOK
      <3>3. \A i \in 1 .. n : ~T[i].settings
        BY <1>3, <2>3, <3>2 DEF Settled
      <3>4. CASE first = 0
        BY <1>1, <1>4, <1>8, <2>3, <3>1, <3>4 DEF NoStorage, Default
      <3>5. CASE first # 0
        <4>1. first \in 1 .. n /\ T[first].storage /\ ~IsChild(T[first])
              /\ \A j \in 1 .. first - 1 : ~T[j].storage
          BY <1>3, <1>4, <3>5
        <4> QED
          BY <1>8, <2>3, <3>1, <3>3, <3>5, <4>1 DEF FirstOne, Default
      <3> QED
        BY <3>4, <3>5
    <2> QED
      BY <2>1, <2>2, <2>3
  <1>13. Ids(U) /\ Default(U, settings')
    BY <1>6, <1>7, <1>11, <1>12, GrewKeeps
  <1>14. settings' \in Paths /\ storageid' \in Nat
    <2>1. first # 0 => T[first].mount \in Paths
      BY <1>1, <1>4 DEF Entries
    <2> QED
      BY <1>1, <1>2, <2>1
  <1> QED
    BY <1>7, <1>9, <1>13, <1>14

-----------------------------------------------------------------------------
(***************************************************************************)
(* The lines of the files, and the entries they make.                      *)
(***************************************************************************)
LineOK(l, B) ==
    /\ l \in Lines
    /\ l.mount = "system" => l.fs # "image"
    /\ l.dev \notin Parts /\ (l.dev \in Disk => \A b \in B : b.dev # BusOf[l.dev])
    /\ l.sub = Path(l.sub.name) /\ l.sub.name # "auto" /\ \A b \in B : l.sub # PathOf(b)
    /\ l.sysfs => l \in B

BusesOK(B) == \A b \in B : b \in Lines /\ b.sysfs /\ b.mount # "data" /\ b.dev # None

FlagsOK(flags, B) ==
    /\ flags \in Seq(Lines)
    /\ \A k \in 1 .. Len(flags) : /\ LineOK(flags[k], B) /\ ~flags[k].sysfs /\ ~flags[k].v2
                                  /\ \A b \in B : PathOf(flags[k]) # PathOf(b)

\* What the assumption on the lines says of a start: every line is sound, no
\* two lines give one mount point unless they are of the new format, and
\* every bus has one line.
LEMMA StartOK ==
    ASSUME start \in Boots
    PROVE  /\ start \in Starts
           /\ BusesOK(Buses) /\ FlagsOK(start.flags, Buses) /\ FlagsOK(<<>>, Buses)
           /\ \A k \in 1 .. Len(start.fstab) : LineOK(start.fstab[k], Buses)
           /\ \A k \in 1 .. Len(start.vendor) : About(start.vendor[k]) # NoPath =>
                 /\ LineOK(start.vendor[k], Buses) /\ start.vendor[k].v2
                 /\ ~start.vendor[k].sysfs
           /\ \A k \in 1 .. Len(start.fstab) :
                 start.fstab[k].v2 \/ start.fstab[k].mount = "auto"
                    \/ \A m \in 1 .. k - 1 : PathOf(start.fstab[m]) # PathOf(start.fstab[k])
           /\ \A k, m \in 1 .. Len(start.fstab) :
                 start.fstab[k].sysfs /\ start.fstab[m].sysfs /\ k # m
                    => start.fstab[k].dev # start.fstab[m].dev
  <1> DEFINE all == LinesOf(start.fstab) \cup LinesOf(start.flags) \cup LinesOf(start.vendor)
  <1>1. start \in Starts /\ WellWritten(start)
    BY BootsAssumption
  <1>2. start.fstab \in Seq(Lines) /\ start.flags \in Seq(Lines) /\ start.vendor \in Seq(Lines)
    BY <1>1 DEF Starts
  <1>3. /\ \A k \in 1 .. Len(start.fstab) : start.fstab[k] \in LinesOf(start.fstab)
        /\ \A k \in 1 .. Len(start.flags) : start.flags[k] \in LinesOf(start.flags)
        /\ \A k \in 1 .. Len(start.vendor) : start.vendor[k] \in LinesOf(start.vendor)
    BY <1>2 DEF LinesOf
  <1>4. /\ LinesOf(start.fstab) \subseteq Lines /\ LinesOf(start.flags) \subseteq Lines
        /\ LinesOf(start.vendor) \subseteq Lines
    BY <1>2 DEF LinesOf
  <1>5. ASSUME NEW l \in all
        PROVE  /\ l \in Lines /\ (l.mount = "system" => l.fs # "image") /\ l.dev \notin Parts
               /\ l.sub = Path(l.sub.name) /\ l.sub.name # "auto"
               /\ \A b \in Buses : l.sub # PathOf(b)
               /\ l.dev \in Disk => \A b \in Buses : b.dev # BusOf[l.dev]
    BY <1>1, <1>4 DEF WellWritten, Buses
  <1>6. BusesOK(Buses)
    <2>1. ASSUME NEW b \in Buses PROVE b \in Lines /\ b.sysfs /\ b.mount # "data" /\ b.dev # None
      BY <1>1, <1>4 DEF WellWritten, Buses
    <2> QED
      BY <2>1 DEF BusesOK
  <1>7. ASSUME NEW k \in 1 .. Len(start.fstab) PROVE LineOK(start.fstab[k], Buses)
    <2>1. start.fstab[k] \in all /\ (start.fstab[k].sysfs => start.fstab[k] \in Buses)
      BY <1>3 DEF Buses
    <2> QED
      BY <1>5, <2>1 DEF LineOK
  <1>8. FlagsOK(start.flags, Buses)
    <2>1. ASSUME NEW k \in 1 .. Len(start.flags)
          PROVE  /\ LineOK(start.flags[k], Buses) /\ ~start.flags[k].sysfs /\ ~start.flags[k].v2
                 /\ \A b \in Buses : PathOf(start.flags[k]) # PathOf(b)
      <3> DEFINE l == start.flags[k]
      <3>1. l \in LinesOf(start.flags) /\ l \in all
        BY <1>3
      <3>2. ~l.v2 /\ ~l.sysfs /\ \A b \in Buses : PathOf(l) # PathOf(b)
        BY <1>1, <3>1 DEF WellWritten, Buses
      <3> HIDE DEF l
      <3>3. LineOK(l, Buses)
        BY <1>5, <3>1, <3>2 DEF LineOK
      <3> QED
        BY <3>2, <3>3 DEF l
    <2> QED
      BY <1>2, <2>1 DEF FlagsOK
  <1>9. FlagsOK(<<>>, Buses)
    BY DEF FlagsOK
  <1>10. ASSUME NEW k \in 1 .. Len(start.vendor), About(start.vendor[k]) # NoPath
         PROVE  /\ LineOK(start.vendor[k], Buses) /\ start.vendor[k].v2
                /\ ~start.vendor[k].sysfs
    <2> DEFINE l == start.vendor[k]
    <2>1. l \in LinesOf(start.vendor) /\ l \in all
      BY <1>3
    <2>2. l.v2 /\ ~l.sysfs
      BY <1>1, <1>10, <2>1 DEF WellWritten
    <2> HIDE DEF l
    <2>3. LineOK(l, Buses)
      BY <1>5, <2>1, <2>2 DEF LineOK
    <2> QED
      BY <2>2, <2>3 DEF l
  <1>11. DOMAIN start.fstab = 1 .. Len(start.fstab)
    BY <1>2
  <1>12. /\ \A k \in 1 .. Len(start.fstab) :
                 start.fstab[k].v2 \/ start.fstab[k].mount = "auto"
                    \/ \A m \in 1 .. k - 1 : PathOf(start.fstab[m]) # PathOf(start.fstab[k])
         /\ \A k, m \in 1 .. Len(start.fstab) :
                 start.fstab[k].sysfs /\ start.fstab[m].sysfs /\ k # m
                    => start.fstab[k].dev # start.fstab[m].dev
    BY <1>1, <1>11 DEF WellWritten
  <1> QED
    BY <1>1, <1>6, <1>7, <1>8, <1>9, <1>10, <1>12

\* The flags found for a mount point are a line of that mount point.
LEMMA GivenIs ==
    ASSUME NEW B, NEW flags, FlagsOK(flags, B), NEW path
    PROVE  LET g == Given(flags, path) IN
           \/ g = 0
           \/ g \in 1 .. Len(flags) /\ LineOK(flags[g], B) /\ Path(flags[g].mount) = path
  <1> DEFINE I == {j \in 1 .. Len(flags) : Path(flags[j].mount) = path}
  <1>1. Given(flags, path) = IF I # {} THEN Min(I) ELSE 0
    BY DEF Given, SelectInSeq
  <1>2. I \in SUBSET Nat
    BY DEF FlagsOK
  <1>3. I # {} => Min(I) \in I
    BY <1>2, MinIsLeast
  <1> QED
    BY <1>1, <1>3 DEF FlagsOK

\* An entry before its device is searched.
LEMMA EnteredOK ==
    ASSUME NEW B, BusesOK(B), NEW l, LineOK(l, B), NEW flags, FlagsOK(flags, B),
           auto_index \in Nat, l.mount = "auto" \/ l.fs \in {"files", "image"}
    PROVE  LET p == Entered(l, flags) IN
           /\ p \in Entries /\ FileOK(p, B) /\ ~IsChild(p) /\ p.link = NoPath /\ p.sub = NoPath
           /\ ~p.settings /\ p.storage = l.sysfs /\ ~p.present
           /\ IF l.mount = "auto" THEN p.mount = AutoPath(auto_index + 1)
              ELSE p.mount = PathOf(l) /\ p.mount.auto = 0
           /\ IF l.sysfs THEN p.sysfs = l.dev /\ p.dev = None ELSE p.sysfs = None
           /\ ~l.sysfs /\ flags = <<>> => p.dev = l.dev
  <1> DEFINE p == Entered(l, flags)
             given == IF l.v2 THEN Given(flags, Path(l.mount)) ELSE 0
             dev == IF given = 0 THEN l.dev ELSE flags[given].dev
             mount == IF l.mount = "auto" THEN AutoPath(auto_index + 1)
                      ELSE IF l.fs = "files" THEN PathOf(l) ELSE Path(l.mount)
             wild == l.sysfs \/ dev \in Disk
             sysfs == IF l.sysfs THEN dev ELSE None
             block == IF l.sysfs THEN None ELSE dev
  <1>1. l \in Lines /\ l.mount \in Text /\ l.mount # "" /\ l.sysfs \in BOOLEAN /\ l.dev \in Text
    BY DEF LineOK, Lines
  <1>2. given # 0 => LineOK(flags[given], B) /\ given \in 1 .. Len(flags)
                     /\ Path(flags[given].mount) = Path(l.mount)
    BY GivenIs
  <1>3. given # 0 => ~l.sysfs
    <2>1. SUFFICES ASSUME given # 0, l.sysfs PROVE FALSE
      OBVIOUS
    <2>2. Path(flags[given].mount) = Path(l.mount) /\ given \in 1 .. Len(flags)
      BY <1>2, <2>1
    <2>3. flags[given].mount = l.mount
      BY <2>2 DEF Path
    <2>4. PathOf(flags[given]) = PathOf(l)
      BY <2>3 DEF PathOf
    <2> QED
      BY <2>1, <2>2, <2>4 DEF LineOK, FlagsOK
  <1>4. /\ dev \in Text /\ dev \notin Parts
        /\ dev \in Disk => \A b \in B : b.dev # BusOf[dev]
        /\ l.sysfs => dev = l.dev /\ dev # None /\ l \in B
        /\ flags = <<>> => dev = l.dev
    <2>1. given # 0 => flags[given].dev \in Text
      BY <1>2 DEF LineOK, Lines
    <2>2. flags = <<>> => given = 0
      <3>1. flags = <<>> => given \notin 1 .. Len(flags)
        OBVIOUS
      <3> QED
        BY <1>2, <3>1
    <2>3. l.sysfs => l.dev # None
      BY DEF LineOK, BusesOK
    <2> HIDE DEF given
    <2> QED
      BY <1>1, <1>2, <1>3, <2>1, <2>2, <2>3 DEF LineOK
  <1>5. p = [Blank EXCEPT !.mount = mount, !.storage = l.sysfs, !.wild = wild,
                          !.sysfs = sysfs, !.dev = block]
    BY DEF Entered
  <1>6. /\ mount \in Paths /\ mount.part = 0 /\ mount # NoPath /\ mount # Path("system")
        /\ mount.auto # 0 <=> mount.name = "auto"
        /\ IF l.mount = "auto" THEN mount = AutoPath(auto_index + 1) /\ mount.auto # 0
           ELSE mount = PathOf(l) /\ mount.auto = 0
    <2>1. CASE l.mount = "auto"
      <3>1. mount = AutoPath(auto_index + 1) /\ auto_index + 1 \in Nat /\ auto_index + 1 # 0
        BY <2>1
      <3>2. mount \in Paths
        BY <3>1, PathsAre
      <3>3. mount.auto = auto_index + 1 /\ mount.name = "auto" /\ mount.part = 0
        BY <3>1 DEF AutoPath
      <3>4. NoPath.name = "" /\ Path("system").name = "system"
        BY DEF NoPath, Path
      <3> HIDE DEF mount
      <3> QED
        BY <2>1, <3>1, <3>2, <3>3, <3>4
    <2>2. CASE l.mount # "auto"
      <3>1. mount = PathOf(l)
        BY <2>2 DEF LineOK, PathOf
      <3>2. Path(l.mount) \in Paths /\ Root \in Paths
        BY <1>1, PathsAre
      <3> HIDE DEF mount
      <3>3. mount \in Paths
        BY <3>1, <3>2 DEF PathOf
      <3>4. mount.auto = 0 /\ mount.part = 0
            /\ mount.name = IF l.mount = "system" THEN "system_root" ELSE l.mount
        BY <3>1 DEF PathOf, Path, Root
      <3>5. NoPath.name = "" /\ Path("system").name = "system"
        BY DEF NoPath, Path
      <3> QED
        BY <1>1, <2>2, <3>1, <3>3, <3>4, <3>5
    <2> QED
      BY <2>1, <2>2
  <1>7. /\ wild \in BOOLEAN /\ sysfs \in Text /\ block \in Text
        /\ l.sysfs => wild /\ sysfs = l.dev /\ sysfs # None /\ block = None
        /\ ~l.sysfs => /\ sysfs = None /\ block = dev /\ block \notin Parts
                       /\ wild <=> block \in Disk
    BY <1>1, <1>4, PathsAre
  <1>8. ~l.sysfs /\ wild => \A b \in B : b.dev # BusOf[block]
    BY <1>4, <1>7
  <1>9. ~l.sysfs /\ flags = <<>> => block = l.dev
    BY <1>4, <1>7
  <1>10. Blank \in Entries
    BY PathsAre
  <1>a. l.sysfs \in BOOLEAN
    BY <1>1
  <1> HIDE DEF p, given, dev, mount, wild, sysfs, block
  <1>11. /\ p \in Entries /\ p.mount = mount /\ p.storage = l.sysfs /\ p.wild = wild
         /\ p.sysfs = sysfs /\ p.dev = block
    BY <1>5, <1>6, <1>7, <1>10, <1>a DEF Entries
  <1>12. /\ p.link = NoPath /\ p.sub = NoPath /\ ~p.settings /\ ~p.present
         /\ p.actual = None
    BY <1>5 DEF Blank
  <1>13. ~IsChild(p)
    BY <1>6, <1>11 DEF IsChild
  <1>14. FileOK(p, B)
    <2>1. NoPath = Path(NoPath.name) /\ NoPath.name # "auto"
      BY DEF NoPath, Path
    <2>2. \A b \in B : NoPath # PathOf(b)
      BY DEF BusesOK, Lines, NoPath, PathOf, Path, Root
    <2>3. l.sysfs => FromBus(p, B)
      <3>1. SUFFICES ASSUME l.sysfs PROVE FromBus(p, B)
        OBVIOUS
      <3>2. l \in B /\ p.sysfs = l.dev
        BY <1>4, <1>7, <1>11, <3>1
      <3> QED
        BY <1>6, <1>11, <3>2 DEF FromBus
    <2>4. CASE l.sysfs
      BY <1>6, <1>7, <1>11, <1>12, <2>1, <2>2, <2>3, <2>4 DEF FileOK
    <2>5. CASE ~l.sysfs
      BY <1>6, <1>7, <1>8, <1>11, <1>12, <2>1, <2>2, <2>5 DEF FileOK
    <2> QED
      BY <2>4, <2>5
  <1> QED
    BY <1>6, <1>7, <1>9, <1>11, <1>12, <1>13, <1>14 DEF p

\* What the line says of the entry.
LEMMA FlagsKeep ==
    ASSUME NEW B, NEW l, LineOK(l, B), NEW p \in Entries, FileOK(p, B)
    PROVE  LET q == Process_TW_Flags(p, l) IN
           /\ q \in Entries /\ FileOK(q, B) /\ q.mount = p.mount /\ q.link = p.link
           /\ q.sysfs = p.sysfs /\ q.dev = p.dev
  <1> DEFINE q == Process_TW_Flags(p, l)
             isSettings == p.settings \/ "settingsstorage" \in l.flags
             storage == p.storage \/ l.flags \cap {"settingsstorage", "storage"} # {}
             sub == IF l.sub = NoPath THEN p.sub ELSE l.sub
  <1>1. q = [p EXCEPT !.settings = isSettings, !.storage = storage, !.sub = sub]
    BY DEF Process_TW_Flags, Apply_TW_Flag, Entries
  <1>2. isSettings \in BOOLEAN /\ storage \in BOOLEAN /\ sub \in Paths
    BY DEF LineOK, Lines, Entries
  <1>3. (isSettings => storage) /\ (p.storage => storage)
    BY DEF FileOK
  <1>4. sub = Path(sub.name) /\ sub.name # "auto" /\ \A b \in B : sub # PathOf(b)
    BY DEF FileOK, LineOK
  <1> HIDE DEF q, isSettings, storage, sub
  <1>5. /\ q \in Entries /\ q.mount = p.mount /\ q.link = p.link /\ q.sysfs = p.sysfs
        /\ q.dev = p.dev /\ q.actual = p.actual /\ q.wild = p.wild /\ q.present = p.present
        /\ q.settings = isSettings /\ q.storage = storage /\ q.sub = sub
    BY <1>1, <1>2 DEF Entries
  <1>6. FromBus(p, B) => FromBus(q, B)
    BY <1>5 DEF FromBus
  <1>7. FileOK(q, B)
    BY <1>3, <1>4, <1>5, <1>6 DEF FileOK
  <1> QED
    BY <1>5, <1>7 DEF q

\* What an entry gets from its mount point alone leaves its mount point, its
\* link and its device.
LEMMA MountPointKeeps ==
    ASSUME NEW B, BusesOK(B), NEW p \in Entries, FileOK(p, B)
    PROVE  LET q == OfMountPoint(p) IN
           /\ q \in Entries /\ FileOK(q, B) /\ q.mount = p.mount /\ q.link = p.link
           /\ q.sysfs = p.sysfs /\ q.dev = p.dev
  <1> DEFINE q == OfMountPoint(p)
             isSettings == p.mount \in InternalSd
             storage == p.storage \/ p.mount \in InternalSd \cup External
             sub == IF p.mount = Path("datadata") THEN Data ELSE p.sub
  <1>1. q = [p EXCEPT !.settings = isSettings, !.storage = storage, !.sub = sub]
    BY DEF OfMountPoint, Entries
  <1>2. Data = Path(Data.name) /\ Data.name # "auto" /\ Data \in Paths
    BY PathsAre DEF Data, Path
  <1>3. \A b \in B : Data # PathOf(b)
    BY DEF BusesOK, Data, PathOf, Path, Root
  <1>4. isSettings \in BOOLEAN /\ storage \in BOOLEAN /\ sub \in Paths
    BY <1>2 DEF Entries
  <1>5. (isSettings => storage) /\ (p.storage => storage)
    OBVIOUS
  <1>6. sub = Path(sub.name) /\ sub.name # "auto" /\ \A b \in B : sub # PathOf(b)
    BY <1>2, <1>3 DEF FileOK
  <1> HIDE DEF q, isSettings, storage, sub
  <1>7. /\ q \in Entries /\ q.mount = p.mount /\ q.link = p.link /\ q.sysfs = p.sysfs
        /\ q.dev = p.dev /\ q.actual = p.actual /\ q.wild = p.wild /\ q.present = p.present
        /\ q.settings = isSettings /\ q.storage = storage /\ q.sub = sub
    BY <1>1, <1>4 DEF Entries
  <1>8. FromBus(p, B) => FromBus(q, B)
    BY <1>7 DEF FromBus
  <1>9. FileOK(q, B)
    BY <1>5, <1>6, <1>7, <1>8 DEF FileOK
  <1> QED
    BY <1>7, <1>9 DEF q

\* What a line, and a line of flags about the same mount point, says of an
\* entry leaves the entry sound and in its place.
LEMMA DescribedOK ==
    ASSUME NEW B, BusesOK(B), NEW l, LineOK(l, B), NEW flags, FlagsOK(flags, B),
           NEW p \in Entries, FileOK(p, B)
    PROVE  LET q == Described(p, l, flags) IN
           /\ q \in Entries /\ FileOK(q, B) /\ q.mount = p.mount /\ q.link = p.link
           /\ q.sysfs = p.sysfs /\ q.dev = p.dev
  <1> DEFINE files == l.fs = "files" /\ l.mount # "auto"
             canmount == p.canmount \/ files \/ l.mount = "auto"
             storage == p.storage \/ l.mount = "auto"
             method == IF files \/ l.mount = "auto" THEN "files" ELSE "image"
             kind == [p EXCEPT !.canmount = canmount, !.storage = storage, !.method = method]
             of == IF files THEN OfMountPoint(kind) ELSE kind
             own == Process_TW_Flags(of, l)
             given == IF l.v2 THEN Given(flags, p.mount) ELSE 0
             q == Described(p, l, flags)
  <1>1. /\ canmount \in BOOLEAN /\ storage \in BOOLEAN /\ method \in {"none", "files", "image"}
        /\ p.storage => storage
    BY DEF Entries
  <1>2. q = IF given = 0 THEN own ELSE Process_TW_Flags(own, flags[given])
    BY DEF Described
  <1>3. given # 0 => LineOK(flags[given], B)
    BY GivenIs
  <1> HIDE DEF canmount, storage, method
  <1>4. /\ kind \in Entries /\ FileOK(kind, B) /\ kind.mount = p.mount /\ kind.link = p.link
        /\ kind.sysfs = p.sysfs /\ kind.dev = p.dev
    <2>1. /\ kind \in Entries /\ kind.mount = p.mount /\ kind.link = p.link
          /\ kind.sysfs = p.sysfs /\ kind.dev = p.dev /\ kind.actual = p.actual
          /\ kind.wild = p.wild /\ kind.present = p.present /\ kind.settings = p.settings
          /\ kind.storage = storage /\ kind.sub = p.sub
      BY <1>1 DEF Entries
    <2> HIDE DEF kind
    <2>2. FromBus(p, B) => FromBus(kind, B)
      BY <2>1 DEF FromBus
    <2>3. FileOK(kind, B)
      BY <1>1, <2>1, <2>2 DEF FileOK
    <2> QED
      BY <2>1, <2>3
  <1> HIDE DEF kind
  <1>5. /\ of \in Entries /\ FileOK(of, B) /\ of.mount = p.mount /\ of.link = p.link
        /\ of.sysfs = p.sysfs /\ of.dev = p.dev
    BY <1>4, MountPointKeeps
  <1> HIDE DEF of
  <1>6. /\ own \in Entries /\ FileOK(own, B) /\ own.mount = p.mount /\ own.link = p.link
        /\ own.sysfs = p.sysfs /\ own.dev = p.dev
    BY <1>5, FlagsKeep
  <1> HIDE DEF own, given, q
  <1>7. /\ q \in Entries /\ FileOK(q, B) /\ q.mount = p.mount /\ q.link = p.link
        /\ q.sysfs = p.sysfs /\ q.dev = p.dev
    BY <1>2, <1>3, <1>6, FlagsKeep
  <1> QED
    BY <1>7 DEF q

\* An entry of a line, at the end.
LEMMA AppendOK ==
    ASSUME NEW B, NEW V \in Seq(Entries), TableOK(V, B),
           NEW e \in Entries, FileOK(e, B), ~IsChild(e),
           \A j \in 1 .. Len(V) : ~IsChild(V[j]) => V[j].mount # e.mount,
           e.sysfs # None => \A j \in 1 .. Len(V) :
               /\ V[j].sysfs # e.sysfs
               /\ IsChild(V[j]) => /\ V[j].sub # e.mount
                                   /\ \A d \in Disk : V[j].dev \in PartsOf[d] => BusOf[d] # e.sysfs
    PROVE  TableOK(Append(V, e), B)
  <1> DEFINE U == Append(V, e)
             n == Len(V)
  <1>1. n \in Nat /\ Len(U) = n + 1 /\ U[n + 1] = e /\ \A j \in 1 .. n : U[j] = V[j]
    OBVIOUS
  <1>2. \A j \in 1 .. Len(U) : j \in 1 .. n \/ j = n + 1
    BY <1>1
  <1> HIDE DEF U
  <1>3. \A j \in 1 .. Len(U) : EntryOK(U[j], B)
    BY <1>1, <1>2 DEF TableOK, EntryOK
  <1>4. ASSUME NEW j \in 1 .. n PROVE Apart(V[j], e) /\ Apart(e, V[j])
    <2> DEFINE q == V[j]
    <2>1. ~IsChild(q) => q.mount # e.mount
      OBVIOUS
    <2>2. e.sysfs # None => q.sysfs # e.sysfs
      OBVIOUS
    <2>3. e.sysfs # None /\ IsChild(q) =>
             q.sub # e.mount /\ \A d \in Disk : q.dev \in PartsOf[d] => BusOf[d] # e.sysfs
      OBVIOUS
    <2>4. q.sysfs # None => q.sysfs # e.sysfs
      BY <2>2
    <2> HIDE DEF q
    <2>5. Apart(q, e) /\ Apart(e, q)
      BY <2>1, <2>2, <2>3, <2>4 DEF Apart
    <2> QED
      BY <2>5 DEF q
  <1>5. ASSUME NEW i \in 1 .. Len(U), NEW j \in 1 .. Len(U), i # j PROVE Apart(U[i], U[j])
    <2>1. CASE i \in 1 .. n /\ j \in 1 .. n
      BY <1>1, <1>5, <2>1 DEF TableOK
    <2>2. CASE i = n + 1 /\ j \in 1 .. n
      BY <1>1, <1>4, <2>2
    <2>3. CASE i \in 1 .. n /\ j = n + 1
      BY <1>1, <1>4, <2>3
    <2> QED
      BY <1>2, <1>5, <2>1, <2>2, <2>3
  <1>6. TableOK(U, B)
    BY <1>3, <1>5 DEF TableOK
  <1> QED
    BY <1>6 DEF U

\* What a line adds to a table: the partitions behind its wildcard, and its entry.
Entering(T, U, e, B) ==
    /\ Len(T) < Len(U) /\ U[Len(U)] = e /\ ~IsChild(e) /\ e.link = NoPath
    /\ \A j \in 1 .. Len(T) : U[j] = T[j]
    /\ \A j \in Len(T) + 1 .. Len(U) - 1 :
          /\ IsChild(U[j]) /\ U[j].sub = e.mount /\ U[j].mount.auto = e.mount.auto
          /\ e.sysfs = None /\ U[j].link = NoPath /\ U[j].storage = FALSE
          /\ \A d \in Disk : U[j].dev \in PartsOf[d] => \A b \in B : b.dev # BusOf[d]

\* A line that is not refused adds one entry, after the partitions found for
\* it, and the table stays sound.
LEMMA LineAdded ==
    ASSUME NEW B, BusesOK(B), NEW l, LineOK(l, B), NEW flags, FlagsOK(flags, B),
           NEW T \in Seq(Entries), TableOK(T, B), auto_index \in Nat,
           ~Refused(l, T), Process_Fstab_Line(l, T, flags),
           NEW mount,
           mount = IF l.mount = "auto" THEN AutoPath(auto_index + 1) ELSE PathOf(l),
           \A j \in 1 .. Len(T) : ~IsChild(T[j]) => T[j].mount # mount,
           l.sysfs => \A j \in 1 .. Len(T) :
               /\ T[j].sysfs # l.dev
               /\ IsChild(T[j]) => /\ T[j].sub # mount
                                   /\ \A d \in Disk : T[j].dev \in PartsOf[d] => BusOf[d] # l.dev
    PROVE  /\ Partitions' \in Seq(Entries) /\ TableOK(Partitions', B)
           /\ auto_index' = IF l.mount = "auto" THEN auto_index + 1 ELSE auto_index
           /\ \E e \in Entries :
                 /\ Entering(T, Partitions', e, B) /\ e.mount = mount
                 /\ IF l.sysfs THEN e.sysfs = l.dev /\ e.dev = None ELSE e.sysfs = None
                 /\ ~l.sysfs /\ flags = <<>> => e.dev = l.dev
  <1> DEFINE line == Entered(l, flags)
             auto == l.mount = "auto"
             U == Partitions'
             n == Len(T)
  <1>1. /\ line \in Entries /\ FileOK(line, B) /\ ~IsChild(line) /\ line.link = NoPath
        /\ line.storage = l.sysfs /\ line.mount = mount
        /\ IF l.sysfs THEN line.sysfs = l.dev /\ line.dev = None ELSE line.sysfs = None
        /\ ~l.sysfs /\ flags = <<>> => line.dev = l.dev
    BY EnteredOK DEF Refused
  <1> HIDE DEF line
  <1>2. PICK found \in IF auto THEN {<<>>} ELSE Find_Wildcard_Block_Devices(line, T) :
             LET p == IF auto THEN line ELSE Find_Actual_Block_Device(line, found)
             IN  U = Append(T \o Children(line, T, found), Described(p, l, flags))
    BY DEF Process_Fstab_Line, line
  <1> DEFINE p == IF auto THEN line ELSE Find_Actual_Block_Device(line, found)
             e == Described(p, l, flags)
             C == Children(line, T, found)
             V == T \o C
             m == Len(found)
  <1>3. U = Append(V, e)
    BY <1>2
  <1>4. auto_index' = IF auto THEN auto_index + 1 ELSE auto_index
    BY DEF Process_Fstab_Line
  <1>5. /\ found \in Seq(Text)
        /\ \A i, k \in 1 .. m : i # k => found[i] # found[k]
        /\ \A k \in 1 .. m : /\ line.dev \in Disk /\ found[k] \in PartsOf[line.dev]
                             /\ ~Find_Partition_By_Block_Device(T, found[k])
    <2>1. CASE auto
      <3>1. found = <<>>
        BY <1>2, <2>1
      <3> QED
        BY <3>1
    <2>2. CASE ~auto
      <3>1. found \in Find_Wildcard_Block_Devices(line, T)
        BY <1>2, <2>2
      <3>2. line.dev \in Disk \/ ~line.wild \/ line.dev = None
        BY <1>1 DEF FileOK
      <3> QED
        BY <1>1, <3>1, <3>2, Searching
    <2> QED
      BY <2>1, <2>2
  <1>6. /\ p \in Entries /\ FileOK(p, B) /\ p.mount = mount /\ p.link = NoPath
        /\ p.sysfs = line.sysfs /\ p.dev = line.dev
    <2>1. CASE auto
      BY <1>1, <2>1
    <2>2. CASE ~auto
      <3>1. EntryOK(line, B)
        BY <1>1 DEF EntryOK
      <3>2. p = Find_Actual_Block_Device(line, found)
        BY <2>2
      <3>3. p \in Entries /\ Refound(p, line)
        BY <1>1, <3>1, <3>2, ActualIs
      <3> HIDE DEF p
      <3>4. EntryOK(p, B) /\ Kept(p, line)
        BY <3>1, <3>3, RefoundOK
      <3> QED
        BY <1>1, <3>3, <3>4 DEF EntryOK, Kept, IsChild, Refound, Same
    <2> QED
      BY <2>1, <2>2
  <1> HIDE DEF p
  <1>7. /\ e \in Entries /\ FileOK(e, B) /\ e.mount = mount /\ e.link = NoPath
        /\ e.sysfs = line.sysfs /\ e.dev = line.dev
    BY <1>6, DescribedOK
  <1>8. C \in Seq(Entries) /\ Len(C) = m /\ \A k \in 1 .. m : NewChild(C[k], line, found[k], k)
    BY <1>1, <1>5, ChildrenAre
  <1> HIDE DEF e, C
  <1>9. n \in Nat /\ m \in Nat
    BY <1>5
  <1>10. /\ V \in Seq(Entries) /\ Len(V) = n + m
         /\ \A j \in 1 .. n : V[j] = T[j]
         /\ \A k \in 1 .. m : V[n + k] = C[k]
    <2>1. V \in Seq(Entries) /\ Len(V) = Len(T) + Len(C)
      BY <1>8, ConcatProperties
    <2>2. \A j \in 1 .. Len(T) + Len(C) : V[j] = IF j <= Len(T) THEN T[j] ELSE C[j - Len(T)]
      BY <1>8, ConcatProperties
    <2>3. \A k \in 1 .. m : /\ n + k \in 1 .. Len(T) + Len(C)
                            /\ ~(n + k <= n) /\ n + k - n = k
      BY <1>8, <1>9
    <2> HIDE DEF V
    <2> QED
      BY <1>8, <1>9, <2>1, <2>2, <2>3
  <1>11. m # 0 => line.dev \in Disk /\ l.sysfs = FALSE /\ \A b \in B : b.dev # BusOf[line.dev]
    <2>1. SUFFICES ASSUME m # 0
                   PROVE  line.dev \in Disk /\ l.sysfs = FALSE /\ \A b \in B : b.dev # BusOf[line.dev]
      OBVIOUS
    <2>2. 1 \in 1 .. m
      BY <1>9, <2>1
    <2>3. line.dev \in Disk /\ line.dev # None
      BY <1>5, <2>2, DiskAssumption
    <2>4. l.sysfs = FALSE
      BY <1>1, <2>3 DEF LineOK, Lines
    <2> QED
      BY <1>1, <2>3, <2>4 DEF FileOK
  <1> HIDE DEF V
  <1>12. TableOK(V, B)
    <2>1. CASE m = 0
      <3>1. Len(V) = Len(T) /\ \A j \in 1 .. Len(T) : V[j] = T[j]
        BY <1>9, <1>10, <2>1
      <3> QED
        BY <3>1 DEF TableOK
    <2>2. CASE m # 0
      <3>1. ASSUME NEW j \in 1 .. Len(T), T[j].sysfs # None
            PROVE  T[j].sysfs # BusOf[line.dev] /\ T[j].mount # line.mount
        <4>1. EntryOK(T[j], B)
          BY DEF TableOK
        <4>2. ~IsChild(T[j]) /\ FromBus(T[j], B)
          BY <3>1, <4>1 DEF EntryOK, ChildOK, FileOK
        <4> QED
          BY <1>1, <1>11, <2>2, <4>2 DEF FromBus
      <3>2. \A j \in 1 .. Len(T) : T[j].sysfs # None =>
               (T[j].sysfs = BusOf[line.dev] <=> T[j].mount = line.mount)
        BY <3>1
      <3>3. \A k \in 1 .. Len(found) : NewChild(V[Len(T) + k], line, found[k], k)
        BY <1>8, <1>10
      <3>4. \A k \in 1 .. Len(found) :
               found[k] \in PartsOf[line.dev] /\ ~Find_Partition_By_Block_Device(T, found[k])
        BY <1>5
      <3>5. Len(V) = Len(T) + Len(found) /\ \A j \in 1 .. Len(T) : V[j] = T[j]
        BY <1>10
      <3>6. line.dev \in Disk
        BY <1>11, <2>2
      <3>7. \A i, k \in 1 .. Len(found) : i # k => found[i] # found[k]
        BY <1>5
      <3> QED
        BY <1>1, <1>5, <3>2, <3>3, <3>4, <3>5, <3>6, <3>7, ChildrenOK
    <2> QED
      BY <2>1, <2>2
  <1>13. ASSUME NEW j \in 1 .. Len(V)
         PROVE  \/ j \in 1 .. n
                \/ /\ IsChild(V[j]) /\ V[j].sub = mount /\ V[j].mount.auto = mount.auto
                   /\ l.sysfs = FALSE /\ V[j].link = NoPath /\ V[j].storage = FALSE
                   /\ \A d \in Disk : V[j].dev \in PartsOf[d] => \A b \in B : b.dev # BusOf[d]
    <2>1. SUFFICES ASSUME j \notin 1 .. n
                   PROVE  /\ IsChild(V[j]) /\ V[j].sub = mount /\ V[j].mount.auto = mount.auto
                          /\ l.sysfs = FALSE /\ V[j].link = NoPath /\ V[j].storage = FALSE
                          /\ \A d \in Disk :
                                V[j].dev \in PartsOf[d] => \A b \in B : b.dev # BusOf[d]
      OBVIOUS
    <2> DEFINE k == j - n
    <2>2. k \in 1 .. m /\ n + k = j /\ m # 0
      BY <1>9, <1>10, <2>1
    <2>3. NewChild(V[j], line, found[k], k) /\ k \in Nat /\ k # 0
      BY <1>8, <1>10, <2>2
    <2>4. line.mount \in Paths
      BY <1>1 DEF Entries
    <2>5. Numbered(line.mount, k).part = k /\ Numbered(line.mount, k).auto = line.mount.auto
      BY <2>3, <2>4, NumberedIs
    <2>6. found[k] \in PartsOf[line.dev] /\ l.sysfs = FALSE
          /\ line.dev \in Disk /\ \A b \in B : b.dev # BusOf[line.dev]
      BY <1>5, <1>11, <2>2
    <2>7. ASSUME NEW d \in Disk, found[k] \in PartsOf[d] PROVE d = line.dev
      BY <2>6, <2>7, DiskAssumption
    <2> HIDE DEF k
    <2> QED
      BY <1>1, <2>3, <2>5, <2>6, <2>7 DEF NewChild, IsChild
  <1>14. ~IsChild(e)
    BY <1>1, <1>7 DEF IsChild
  <1>15. TableOK(U, B) /\ U \in Seq(Entries)
    <2>1. \A j \in 1 .. Len(V) : ~IsChild(V[j]) => V[j].mount # e.mount
      BY <1>7, <1>10, <1>13
    <2>2. ASSUME e.sysfs # None, NEW j \in 1 .. Len(V)
          PROVE  /\ V[j].sysfs # e.sysfs
                 /\ IsChild(V[j]) =>
                       /\ V[j].sub # e.mount
                       /\ \A d \in Disk : V[j].dev \in PartsOf[d] => BusOf[d] # e.sysfs
      <3>1. l.sysfs # FALSE /\ l.sysfs \in BOOLEAN /\ e.sysfs = l.dev
        BY <1>1, <1>7, <2>2 DEF LineOK, Lines
      <3>2. j \in 1 .. n /\ V[j] = T[j]
        BY <1>10, <1>13, <3>1
      <3> QED
        BY <1>7, <3>1, <3>2
    <2>3. Append(V, e) \in Seq(Entries)
      BY <1>7, <1>10
    <2>4. TableOK(Append(V, e), B)
      BY <1>7, <1>10, <1>12, <1>14, <2>1, <2>2, AppendOK
    <2> QED
      BY <1>3, <2>3, <2>4
  <1>16. Entering(T, U, e, B)
    <2>1. Len(U) = n + m + 1 /\ U[Len(U)] = e /\ \A j \in 1 .. Len(V) : U[j] = V[j]
      <3>1. \A Z \in Seq(Entries) : /\ Len(Append(Z, e)) = Len(Z) + 1
                                   /\ Append(Z, e)[Len(Z) + 1] = e
                                   /\ \A j \in 1 .. Len(Z) : Append(Z, e)[j] = Z[j]
        OBVIOUS
      <3>2. U = Append(V, e) /\ V \in Seq(Entries) /\ Len(V) = n + m
        BY <1>3, <1>9, <1>10
      <3> HIDE DEF U, V
      <3> QED
        BY <3>1, <3>2
    <2>2. \A j \in n + 1 .. Len(U) - 1 : j \in 1 .. Len(V) /\ j \notin 1 .. n
      BY <1>9, <1>10, <2>1
    <2>3. \A j \in 1 .. n : j \in 1 .. Len(V)
      BY <1>9, <1>10
    <2>4. Len(T) < Len(U)
      BY <1>9, <2>1
    <2>5. l.sysfs = FALSE => e.sysfs = None
      BY <1>1, <1>7
    <2>6. ASSUME NEW j \in n + 1 .. Len(U) - 1
          PROVE  /\ IsChild(U[j]) /\ U[j].sub = e.mount /\ U[j].mount.auto = e.mount.auto
                 /\ e.sysfs = None /\ U[j].link = NoPath /\ U[j].storage = FALSE
                 /\ \A d \in Disk : U[j].dev \in PartsOf[d] => \A b \in B : b.dev # BusOf[d]
      <3>1. j \in 1 .. Len(V) /\ j \notin 1 .. n /\ U[j] = V[j]
        BY <2>1, <2>2
      <3> QED
        BY <1>7, <1>13, <2>5, <3>1
    <2>7. \A j \in 1 .. Len(T) : U[j] = T[j]
      BY <1>10, <2>1, <2>3
    <2> HIDE DEF U
    <2> QED
      BY <1>7, <1>14, <2>1, <2>4, <2>6, <2>7 DEF Entering
  <1> QED
    BY <1>1, <1>4, <1>7, <1>15, <1>16

-----------------------------------------------------------------------------
(***************************************************************************)
(* The table while the files are read.                                     *)
(***************************************************************************)
\* Nothing is behind the entry of a bus.
NoDisk(T) ==
    \A i \in 1 .. Len(T) : T[i].sysfs # None =>
        T[i].dev = None /\ \A j \in 1 .. Len(T) : T[j].sub # T[i].mount

Read(T, B, last) ==
    /\ T \in Seq(Entries) /\ TableOK(T, B) /\ last \in Nat /\ NoDisk(T)
    /\ \A i \in 1 .. Len(T) : /\ T[i].link = NoPath /\ T[i].mount.auto <= last
                              /\ IsChild(T[i]) => ~T[i].storage

\* What the first n lines of the fstab made.
OfFstab(T, B, file, n) ==
    \A i \in 1 .. Len(T) :
        IF IsChild(T[i])
        THEN /\ \E j \in 1 .. Len(T) :
                   ~IsChild(T[j]) /\ T[j].mount = T[i].sub /\ T[j].sysfs = None
             /\ \A d \in Disk : T[i].dev \in PartsOf[d] => \A b \in B : b.dev # BusOf[d]
        ELSE \E k \in 1 .. n :
                /\ T[i].mount.auto = 0 => T[i].mount = PathOf(file[k])
                /\ T[i].sysfs # None => file[k].sysfs /\ T[i].sysfs = file[k].dev

\* No entry of a file has the entry of a bus as its parent.
LEMMA NoSub ==
    ASSUME NEW B, NEW p, FileOK(p, B), NEW q, FileOK(q, B), q.sysfs # None
    PROVE  p.sub # q.mount
  <1>1. PICK b \in B : IF b.mount = "auto" THEN q.mount.auto # 0 ELSE q.mount = PathOf(b)
    BY DEF FileOK, FromBus
  <1>2. p.sub = Path(p.sub.name) /\ p.sub # PathOf(b)
    BY DEF FileOK
  <1>3. Path(p.sub.name).auto = 0
    BY DEF Path
  <1> QED
    BY <1>1, <1>2, <1>3

\* Reading one line keeps what is known of a table that is being read.
LEMMA LineRead ==
    ASSUME NEW B, BusesOK(B), NEW l, LineOK(l, B), NEW flags, FlagsOK(flags, B),
           NEW T, Read(T, B, auto_index), Process_Fstab_Line(l, T, flags),
           ~Refused(l, T) /\ l.mount # "auto" =>
               \A j \in 1 .. Len(T) : ~IsChild(T[j]) => T[j].mount # PathOf(l),
           l.sysfs => \A j \in 1 .. Len(T) :
               /\ T[j].sysfs # l.dev
               /\ IsChild(T[j]) =>
                     /\ \E k \in 1 .. Len(T) :
                           ~IsChild(T[k]) /\ T[k].mount = T[j].sub /\ T[k].sysfs = None
                     /\ \A d \in Disk : T[j].dev \in PartsOf[d] => BusOf[d] # l.dev
    PROVE  /\ Read(Partitions', B, auto_index')
           /\ Refused(l, T) => Partitions' = T /\ auto_index' = auto_index
           /\ ~Refused(l, T) => \E e \in Entries :
                 /\ Entering(T, Partitions', e, B)
                 /\ IF l.mount = "auto" THEN e.mount = AutoPath(auto_index + 1)
                    ELSE e.mount = PathOf(l)
                 /\ IF l.sysfs THEN e.sysfs = l.dev ELSE e.sysfs = None
                 /\ ~l.sysfs /\ flags = <<>> => e.dev = l.dev
  <1> DEFINE U == Partitions'
             mount == IF l.mount = "auto" THEN AutoPath(auto_index + 1) ELSE PathOf(l)
             n == Len(T)
  <1>1. T \in Seq(Entries) /\ TableOK(T, B) /\ auto_index \in Nat /\ NoDisk(T) /\ n \in Nat
    BY DEF Read
  <1>2. CASE Refused(l, T)
    BY <1>2 DEF Process_Fstab_Line
  <1>3. CASE ~Refused(l, T)
    <2>1. \A j \in 1 .. n : ~IsChild(T[j]) => T[j].mount # mount
      <3>1. CASE l.mount = "auto"
        <4>1. mount.auto = auto_index + 1
          BY <3>1 DEF AutoPath
        <4>2. ASSUME NEW j \in 1 .. n PROVE T[j].mount.auto \in Nat /\ T[j].mount.auto <= auto_index
          <5>1. T[j] \in Entries
            BY <1>1
          <5> QED
            BY <5>1 DEF Read, Entries, Paths
        <4> HIDE DEF mount
        <4> QED
          BY <1>1, <4>1, <4>2
      <3>2. CASE l.mount # "auto"
        BY <1>3, <3>2
      <3> QED
        BY <3>1, <3>2
    <2>2. ASSUME l.sysfs, NEW j \in 1 .. n
          PROVE  /\ T[j].sysfs # l.dev
                 /\ IsChild(T[j]) =>
                       /\ T[j].sub # mount
                       /\ \A d \in Disk : T[j].dev \in PartsOf[d] => BusOf[d] # l.dev
      BY <2>1, <2>2
    <2> HIDE DEF mount
    <2>3. /\ U \in Seq(Entries) /\ TableOK(U, B)
          /\ auto_index' = IF l.mount = "auto" THEN auto_index + 1 ELSE auto_index
          /\ \E e \in Entries :
                /\ Entering(T, U, e, B) /\ e.mount = mount
                /\ IF l.sysfs THEN e.sysfs = l.dev /\ e.dev = None ELSE e.sysfs = None
                /\ ~l.sysfs /\ flags = <<>> => e.dev = l.dev
      BY <1>1, <1>3, <2>1, <2>2, LineAdded DEF mount
    <2>4. PICK e \in Entries :
                /\ Entering(T, U, e, B) /\ e.mount = mount
                /\ IF l.sysfs THEN e.sysfs = l.dev /\ e.dev = None ELSE e.sysfs = None
                /\ ~l.sysfs /\ flags = <<>> => e.dev = l.dev
      BY <2>3
    <2> DEFINE m == Len(U)
    <2>5. /\ m \in Nat /\ n < m /\ U[m] = e /\ ~IsChild(e) /\ e.link = NoPath
          /\ \A j \in 1 .. n : U[j] = T[j]
          /\ \A j \in n + 1 .. m - 1 :
                /\ IsChild(U[j]) /\ U[j].sub = e.mount /\ U[j].mount.auto = e.mount.auto
                /\ e.sysfs = None /\ U[j].link = NoPath /\ U[j].storage = FALSE
      BY <2>3, <2>4 DEF Entering
    <2>6. \A j \in 1 .. m : j \in 1 .. n \/ j \in n + 1 .. m - 1 \/ j = m
      BY <1>1, <2>5
    <2>7. auto_index' \in Nat /\ auto_index <= auto_index' /\ e.mount.auto <= auto_index'
      <3>1. CASE l.mount = "auto"
        BY <1>1, <2>3, <2>4, <3>1 DEF mount, AutoPath
      <3>2. CASE l.mount # "auto"
        BY <1>1, <2>3, <2>4, <3>2 DEF mount, PathOf, Path, Root
      <3> QED
        BY <3>1, <3>2
    <2>8. ASSUME NEW j \in 1 .. m
          PROVE  /\ U[j].link = NoPath /\ U[j].mount.auto <= auto_index'
                 /\ IsChild(U[j]) => ~U[j].storage
      <3>1. CASE j \in 1 .. n
        <4>1. T[j] \in Entries /\ T[j].mount.auto <= auto_index /\ T[j].link = NoPath
              /\ (IsChild(T[j]) => ~T[j].storage)
          BY <1>1, <3>1 DEF Read
        <4>2. T[j].mount.auto \in Nat
          BY <4>1 DEF Entries, Paths
        <4> QED
          BY <1>1, <2>5, <2>7, <3>1, <4>1, <4>2
      <3>2. CASE j \in n + 1 .. m - 1
        BY <2>5, <2>7, <3>2
      <3>3. CASE j = m
        BY <2>5, <2>7, <3>3
      <3> QED
        BY <2>6, <3>1, <3>2, <3>3
    <2>9. ASSUME NEW i \in 1 .. m, U[i].sysfs # None, NEW j \in 1 .. m
          PROVE  U[i].dev = None /\ U[j].sub # U[i].mount
      <3>1. /\ \A k \in 1 .. m : EntryOK(U[k], B)
            /\ \A h, k \in 1 .. m : h # k => Apart(U[h], U[k])
        BY <2>3 DEF TableOK
      <3>2. ~IsChild(U[i]) /\ FileOK(U[i], B)
        BY <2>9, <3>1 DEF EntryOK, ChildOK
      <3>3. U[i].dev = None
        <4>1. i \in 1 .. n \/ i = m
          BY <2>5, <2>6, <3>2
        <4> QED
          BY <1>1, <2>4, <2>5, <2>9, <4>1 DEF NoDisk
      <3>4. CASE ~IsChild(U[j])
        BY <2>9, <3>1, <3>2, <3>3, <3>4, NoSub DEF EntryOK
      <3>5. CASE IsChild(U[j])
        <4>1. CASE j \in 1 .. n /\ i \in 1 .. n
          BY <1>1, <2>5, <2>9, <3>3, <4>1 DEF NoDisk
        <4>2. CASE j \in 1 .. n /\ i = m
          <5>1. l.sysfs
            BY <2>4, <2>5, <2>9, <4>2
          <5> QED
            BY <2>2, <2>4, <2>5, <3>3, <3>5, <4>2, <5>1
        <4>3. CASE j \in n + 1 .. m - 1
          <5>1. U[j].sub = e.mount /\ e.sysfs = None /\ m \in 1 .. m /\ ~IsChild(U[m])
            BY <1>1, <2>5, <4>3
          <5>2. i # m
            BY <2>5, <2>9, <5>1
          <5>3. Apart(U[i], U[m])
            BY <3>1, <5>1, <5>2
          <5> QED
            BY <2>5, <3>2, <3>3, <5>1, <5>3 DEF Apart
        <4> QED
          BY <2>5, <2>6, <3>2, <3>5, <4>1, <4>2, <4>3
      <3> QED
        BY <3>3, <3>4, <3>5
    <2>10. Read(U, B, auto_index')
      BY <2>3, <2>7, <2>8, <2>9 DEF Read, NoDisk
    <2> QED
      BY <1>3, <2>4, <2>10 DEF mount
  <1> QED
    BY <1>2, <1>3

\* /data in the table, when a line's entry comes in or an entry is erased.
LEMMA EnteringData ==
    ASSUME NEW B, NEW T \in Seq(Entries), NEW U \in Seq(Entries), NEW e, Entering(T, U, e, B)
    PROVE  /\ HasData(U) <=> HasData(T) \/ e.mount = Data
           /\ \A dev : SaysData(T, dev) => SaysData(U, dev)
           /\ e.mount = Data => SaysData(U, e.dev)
  <1>1. /\ Len(T) \in Nat /\ Len(U) \in Nat /\ Len(T) < Len(U) /\ U[Len(U)] = e
        /\ \A j \in 1 .. Len(T) : U[j] = T[j]
        /\ \A j \in Len(T) + 1 .. Len(U) - 1 : IsChild(U[j])
    BY DEF Entering
  <1>2. /\ \A j \in 1 .. Len(T) : j \in 1 .. Len(U)
        /\ Len(U) \in 1 .. Len(U)
        /\ \A j \in 1 .. Len(U) :
              j \in 1 .. Len(T) \/ j \in Len(T) + 1 .. Len(U) - 1 \/ j = Len(U)
    BY <1>1
  <1>3. \A j \in Len(T) + 1 .. Len(U) - 1 : U[j].mount # Data
    <2>1. Data.part = 0
      BY DEF Data, Path
    <2> QED
      BY <1>1, <2>1 DEF IsChild
  <1>4. HasData(U) <=> HasData(T) \/ e.mount = Data
    BY <1>1, <1>2, <1>3 DEF HasData
  <1>5. \A dev : SaysData(T, dev) => SaysData(U, dev)
    BY <1>1, <1>2 DEF SaysData
  <1>6. e.mount = Data => SaysData(U, e.dev)
    BY <1>1, <1>2 DEF SaysData
  <1> QED
    BY <1>4, <1>5, <1>6

\* Erase takes out one entry with the mount point, or there is none.
LEMMA EraseIs ==
    ASSUME NEW T \in Seq(Entries), NEW path
    PROVE  \/ Erase(T, path) = T /\ \A j \in 1 .. Len(T) : T[j].mount # path
           \/ \E i \in 1 .. Len(T) : Erase(T, path) = RemoveAt(T, i) /\ T[i].mount = path
  <1> DEFINE I == {j \in 1 .. Len(T) : T[j].mount = path}
             last == SelectLastInSeq(T, LAMBDA p : p.mount = path)
  <1>1. last = IF I # {} THEN Max(I) ELSE 0
    BY DEF SelectLastInSeq
  <1>2. Erase(T, path) = RemoveAt(T, last)
    BY DEF Erase
  <1> HIDE DEF last
  <1>3. CASE I = {}
    <2>1. last = 0
      BY <1>1, <1>3
    <2>2. RemoveAt(T, 0) = SubSeq(T, 1, -1) \o SubSeq(T, 1, Len(T))
      BY DEF RemoveAt
    <2>3. SubSeq(T, 1, -1) = <<>>
      OBVIOUS
    <2>4. SubSeq(T, 1, Len(T)) = T
      OBVIOUS
    <2>5. <<>> \o T = T
      OBVIOUS
    <2> QED
      BY <1>2, <1>3, <2>1, <2>2, <2>3, <2>4, <2>5
  <1>4. CASE I # {}
    <2>1. Max(I) \in I
      <3>1. Len(T) \in Nat /\ I \in SUBSET (1 .. Len(T))
        OBVIOUS
      <3> HIDE DEF I
      <3> QED
        BY <1>4, <3>1, MaxIsGreatest
    <2> QED
      BY <1>1, <1>2, <1>4, <2>1
  <1> QED
    BY <1>3, <1>4

\* Erasing the entry of a mount point keeps what is known of a table that is
\* being read; afterwards no line's entry has that mount point.
LEMMA EraseKeeps ==
    ASSUME NEW B, NEW n, NEW T, Read(T, B, n), NEW path, path.part = 0
    PROVE  LET U == Erase(T, path) IN
           /\ Read(U, B, n)
           /\ HasData(U) <=> HasData(T) /\ path # Data
           /\ path # Data => \A dev : SaysData(T, dev) => SaysData(U, dev)
           /\ \A j \in 1 .. Len(U) : ~IsChild(U[j]) => U[j].mount # path
  <1> DEFINE U == Erase(T, path)
  <1>1. T \in Seq(Entries) /\ TableOK(T, B) /\ n \in Nat /\ NoDisk(T)
    BY DEF Read
  <1>2. CASE U = T /\ \A j \in 1 .. Len(T) : T[j].mount # path
    BY <1>2 DEF HasData
  <1>3. ASSUME NEW i \in 1 .. Len(T), U = RemoveAt(T, i), T[i].mount = path
        PROVE  /\ Read(U, B, n)
               /\ HasData(U) <=> HasData(T) /\ path # Data
               /\ path # Data => \A dev : SaysData(T, dev) => SaysData(U, dev)
               /\ \A j \in 1 .. Len(U) : ~IsChild(U[j]) => U[j].mount # path
    <2>0. U = RemoveAt(T, i)
      BY <1>3
    <2> HIDE DEF U
    <2> DEFINE V == RemoveAt(T, i)
    <2>a. /\ V \in Seq(Entries) /\ Len(T) \in Nat /\ Len(V) \in Nat
          /\ \A j \in 1 .. Len(V) : \E h \in 1 .. Len(T) :
                h # i /\ V[j] = T[h] /\ h = Before(j, i)
          /\ \A h \in 1 .. Len(T) : h # i => \E j \in 1 .. Len(V) :
                V[j] = T[h] /\ j = After(h, i)
      BY <1>1, CutIs
    <2>1. /\ U \in Seq(Entries) /\ Len(T) \in Nat /\ Len(U) \in Nat
          /\ \A j \in 1 .. Len(U) : \E h \in 1 .. Len(T) :
                h # i /\ U[j] = T[h] /\ h = Before(j, i)
          /\ \A h \in 1 .. Len(T) : h # i => \E j \in 1 .. Len(U) :
                U[j] = T[h] /\ j = After(h, i)
      BY <2>0, <2>a
    <2>2. TableOK(U, B)
      BY <1>1, <2>0, CutOK
    <2>3. \A j \in 1 .. Len(U) : \E h \in 1 .. Len(T) : h # i /\ U[j] = T[h]
      BY <2>1
    <2>4. \A h \in 1 .. Len(T) : h # i => \E j \in 1 .. Len(U) : U[j] = T[h]
      BY <2>1
    <2>5. NoDisk(U)
      <3>1. ASSUME NEW j \in 1 .. Len(U), U[j].sysfs # None
            PROVE  U[j].dev = None /\ \A k \in 1 .. Len(U) : U[k].sub # U[j].mount
        <4>1. PICK h \in 1 .. Len(T) : U[j] = T[h]
          BY <2>3
        <4>2. T[h].dev = None /\ \A m \in 1 .. Len(T) : T[m].sub # T[h].mount
          BY <1>1, <3>1, <4>1 DEF NoDisk
        <4>3. ASSUME NEW k \in 1 .. Len(U) PROVE U[k].sub # U[j].mount
          <5>1. PICK m \in 1 .. Len(T) : U[k] = T[m]
            BY <2>3
          <5> QED
            BY <4>1, <4>2, <5>1
        <4> QED
          BY <4>1, <4>2, <4>3
      <3> QED
        BY <3>1 DEF NoDisk
    <2>6. \A j \in 1 .. Len(U) : /\ U[j].link = NoPath /\ U[j].mount.auto <= n
                                 /\ IsChild(U[j]) => ~U[j].storage
      BY <2>3 DEF Read
    <2>7. Read(U, B, n)
      BY <1>1, <2>1, <2>2, <2>5, <2>6 DEF Read
    <2>8. ~IsChild(T[i])
      BY <1>3 DEF IsChild
    <2>9. \A j \in 1 .. Len(U) : ~IsChild(U[j]) => U[j].mount # path
      <3>1. \A h \in 1 .. Len(T) : h # i /\ ~IsChild(T[h]) => T[h].mount # path
        BY <1>1, <1>3, <2>8 DEF TableOK, Apart
      <3> QED
        BY <2>3, <3>1
    <2>10. Data.part = 0
      BY DEF Data, Path
    <2>11. HasData(U) => HasData(T) /\ path # Data
      <3>1. SUFFICES ASSUME NEW j \in 1 .. Len(U), U[j].mount = Data
                     PROVE  HasData(T) /\ path # Data
        BY DEF HasData
      <3>2. ~IsChild(U[j])
        BY <2>10, <3>1 DEF IsChild
      <3> QED
        BY <2>3, <2>9, <3>1, <3>2 DEF HasData
    <2>12. HasData(T) /\ path # Data => HasData(U)
      BY <1>3, <2>4 DEF HasData
    <2>13. path # Data => \A dev : SaysData(T, dev) => SaysData(U, dev)
      BY <1>3, <2>4 DEF SaysData
    <2> QED
      BY <2>7, <2>9, <2>11, <2>12, <2>13
  <1> QED
    BY <1>1, <1>2, <1>3, EraseIs

-----------------------------------------------------------------------------
(***************************************************************************)
(* The invariant of the table.                                             *)
(***************************************************************************)
Reads == {"fstab", "flags", "vendor"}
AfterSetup == {"update", "bind", "coldboot", "ready", "remove", "refresh"}

Parsing ==
    phase \in Reads =>
        /\ Read(Partitions, Buses, auto_index) /\ settings = NoPath /\ storageid = 0
        /\ phase = "fstab" => OfFstab(Partitions, Buses, start.fstab, pos)

\* One of the first n lines of a file makes an entry for /data.
DataBy(file, n) ==
    \E k \in 1 .. n : file[k].mount = "data" /\ file[k].fs \in {"files", "image"}

\* What the pointer data is worth.
Pointer ==
    /\ data_entry \in BOOLEAN
    /\ phase = "fstab" => /\ HasData(Partitions) <=> data_entry
                          /\ data_entry <=> DataBy(start.fstab, pos)
    /\ phase = "flags" =>
          /\ data_entry <=> DataIn(start.fstab)
          /\ data_entry => HasData(Partitions)
          /\ HasData(Partitions) /\ ~data_entry => DataIn(start.flags)
    /\ phase = "vendor" =>
          /\ data_entry => HasData(Partitions)
          /\ DataIn(start.fstab) \/ ~DataIn(start.flags) => (HasData(Partitions) => data_entry)

\* /data is what the last of the first n lines of the vendor says.
VendorSays(T, n) ==
    DataIn(start.fstab) \/ ~DataIn(start.flags) =>
        \A k \in 1 .. n :
            LET l == start.vendor[k] IN
            (/\ l.mount = "data" /\ l.fs = "files"
             /\ \A m \in k + 1 .. n : About(start.vendor[m]) # Data) => SaysData(T, l.dev)

Vendor ==
    /\ phase = "vendor" => VendorSays(Partitions, pos)
    /\ phase \notin Reads /\ start.found => VendorSays(Partitions, Len(start.vendor))

Setting == phase = "setup" => Chosen(Partitions, pos, settings, storageid)

Storages == phase \in AfterSetup => Ids(Partitions) /\ Default(Partitions, settings)

\* The events are for entries of the table; while they are not listened to,
\* nothing is there of a disk; one that is pulled out has lost its device.
Queue ==
    /\ \A k \in 1 .. Len(events) : Watched(events[k].disk)
    /\ ~Listening =>
          /\ events = <<>> /\ DOMAIN mounts = {}
          /\ \A i \in 1 .. Len(Partitions) : Partitions[i].sysfs # None => Partitions[i].dev = None
    /\ phase = "remove" =>
          /\ events # <<>> /\ events[1].action = "remove"
          /\ \A i \in 1 .. Len(Partitions) :
                Partitions[i].sysfs = BusOf[events[1].disk] => Partitions[i].dev = None

TableInv ==
    /\ TableTypeOK /\ TableOK(Partitions, Buses)
    /\ Parsing /\ Pointer /\ Vendor /\ Setting /\ Storages /\ Queue

\* The lines about /data and /metadata, and their paths.
LEMMA AboutIs ==
    ASSUME NEW l \in Lines
    PROVE  /\ About(l) = Data <=> l.mount \in {"data", "datadata"}
           /\ About(l) = Metadata <=> l.mount = "metadata"
           /\ About(l) \in {Data, Metadata, NoPath} /\ Data # Metadata
           /\ Data # NoPath /\ Metadata # NoPath
           /\ Data.part = 0 /\ Metadata.part = 0
           /\ PathOf(l) = Data <=> l.mount = "data"
           /\ \A k : AutoPath(k) # Data
  <1>1. /\ Data = Path("data") /\ Metadata = Path("metadata") /\ NoPath = Path("")
        /\ Path("data").name = "data" /\ Path("metadata").name = "metadata"
        /\ Path("").name = "" /\ Path("data").part = 0 /\ Path("metadata").part = 0
    BY DEF Data, Metadata, NoPath, Path, None
  <1>2. Data # Metadata /\ Data # NoPath /\ Metadata # NoPath
        /\ Data.part = 0 /\ Metadata.part = 0
    BY <1>1
  <1>3. PathOf(l) = Data <=> l.mount = "data"
    BY DEF PathOf, Data, Path, Root
  <1>4. \A k : AutoPath(k) # Data
    BY DEF AutoPath, Data, Path
  <1>5. CASE l.mount \in {"data", "datadata"}
    BY <1>2, <1>3, <1>4, <1>5 DEF About
  <1>6. CASE l.mount = "metadata"
    BY <1>2, <1>3, <1>4, <1>6 DEF About
  <1>7. CASE l.mount \notin {"data", "datadata", "metadata"}
    BY <1>2, <1>3, <1>4, <1>7 DEF About
  <1> QED
    BY <1>5, <1>6, <1>7

\* A line whose mount point was looked up in the table.
LEMMA NotThere ==
    ASSUME NEW B, NEW l, LineOK(l, B), NEW T, Len(T) \in Nat,
           Find_Partition_By_Path(T, Path(l.mount)) = 0
    PROVE  \A j \in 1 .. Len(T) : T[j].mount # PathOf(l)
  <1>1. PathOf(l) = IF Path(l.mount) = Path("system") THEN Root ELSE Path(l.mount)
    BY DEF PathOf, Path
  <1>2. \A j \in 1 .. Len(T) : PathOf(l) \notin {T[j].mount, T[j].link}
    BY <1>1, FindPath
  <1> QED
    BY <1>2

\* Reading a line of the fstab of the image.
LEMMA ReadFstabOK ==
    ASSUME TableInv, ReadFstab
    PROVE  /\ Read(Partitions', Buses, auto_index')
           /\ OfFstab(Partitions', Buses, start.fstab, pos + 1)
           /\ HasData(Partitions') <=> data_entry'
           /\ data_entry' <=> DataBy(start.fstab, pos + 1)
           /\ data_entry' \in BOOLEAN
  <1> DEFINE T == Partitions
             U == Partitions'
             B == Buses
             n == pos + 1
             l == start.fstab[n]
  <1>1. /\ phase = "fstab" /\ pos \in Nat /\ n \in 1 .. Len(start.fstab)
        /\ Process_Fstab_Line(l, T, start.flags)
        /\ data_entry' = (data_entry \/ (Added(l, T) /\ l.mount = "data"))
    BY DEF ReadFstab, Reading, TableInv, TableTypeOK
  <1>2. /\ Read(T, B, auto_index) /\ OfFstab(T, B, start.fstab, pos)
        /\ (HasData(T) <=> data_entry) /\ (data_entry <=> DataBy(start.fstab, pos))
        /\ data_entry \in BOOLEAN
    BY <1>1 DEF TableInv, Parsing, Pointer, Reads
  <1>3. T \in Seq(Entries) /\ TableOK(T, B) /\ Len(T) \in Nat
    BY <1>2 DEF Read
  <1>4. BusesOK(B) /\ LineOK(l, B) /\ FlagsOK(start.flags, B)
    BY <1>1, StartOK DEF TableInv, TableTypeOK
  <1>5. l.v2 \/ l.mount = "auto" \/ \A m \in 1 .. n - 1 : PathOf(start.fstab[m]) # PathOf(l)
    BY <1>1, StartOK DEF TableInv, TableTypeOK
  <1>6. l.sysfs => \A m \in 1 .. pos : start.fstab[m].sysfs => start.fstab[m].dev # l.dev
    <2>1. \A m \in 1 .. pos : m \in 1 .. Len(start.fstab) /\ m # n
      BY <1>1
    <2> QED
      BY <1>1, <2>1, StartOK DEF TableInv, TableTypeOK
  <1> HIDE DEF l, B
  <1>7. ASSUME ~Refused(l, T), l.mount # "auto", NEW j \in 1 .. Len(T), ~IsChild(T[j])
        PROVE  T[j].mount # PathOf(l)
    <2>1. CASE l.v2
      BY <1>3, <1>4, <1>7, <2>1, NotThere DEF Refused
    <2>2. CASE ~l.v2
      <3>1. PICK k \in 1 .. pos : T[j].mount.auto = 0 => T[j].mount = PathOf(start.fstab[k])
        BY <1>2, <1>7 DEF OfFstab
      <3>2. PathOf(start.fstab[k]) # PathOf(l)
        BY <1>1, <1>5, <1>7, <2>2
      <3>3. PathOf(l).auto = 0
        BY DEF PathOf, Path, Root
      <3> QED
        BY <3>1, <3>2, <3>3
    <2> QED
      BY <2>1, <2>2
  <1>8. ASSUME l.sysfs, NEW j \in 1 .. Len(T)
        PROVE  /\ T[j].sysfs # l.dev
               /\ IsChild(T[j]) =>
                     /\ \E k \in 1 .. Len(T) :
                           ~IsChild(T[k]) /\ T[k].mount = T[j].sub /\ T[k].sysfs = None
                     /\ \A d \in Disk : T[j].dev \in PartsOf[d] => BusOf[d] # l.dev
    <2>1. l \in B /\ l.dev # None
      BY <1>4, <1>8 DEF LineOK, BusesOK
    <2>2. CASE IsChild(T[j])
      <3>1. T[j].sysfs = None
        BY <1>3, <2>2 DEF TableOK, EntryOK, ChildOK
      <3> QED
        BY <1>2, <2>1, <2>2, <3>1 DEF OfFstab
    <2>3. CASE ~IsChild(T[j])
      <3>1. PICK k \in 1 .. pos :
                 T[j].sysfs # None => start.fstab[k].sysfs /\ T[j].sysfs = start.fstab[k].dev
        BY <1>2, <2>3 DEF OfFstab
      <3> QED
        BY <1>6, <1>8, <2>1, <2>3, <3>1
    <2> QED
      BY <2>2, <2>3
  <1>9. /\ Read(U, B, auto_index')
        /\ Refused(l, T) => U = T /\ auto_index' = auto_index
        /\ ~Refused(l, T) => \E e \in Entries :
              /\ Entering(T, U, e, B)
              /\ IF l.mount = "auto" THEN e.mount = AutoPath(auto_index + 1)
                 ELSE e.mount = PathOf(l)
              /\ IF l.sysfs THEN e.sysfs = l.dev ELSE e.sysfs = None
    BY <1>1, <1>2, <1>4, <1>7, <1>8, LineRead
  <1>10. DataBy(start.fstab, n) <=>
            DataBy(start.fstab, pos) \/ (l.mount = "data" /\ l.fs \in {"files", "image"})
    BY <1>1 DEF DataBy, l
  <1>11. \A k \in 1 .. pos : k \in 1 .. n
    BY <1>1
  <1>12. CASE Refused(l, T)
    <2>1. U = T /\ data_entry' = data_entry
      BY <1>1, <1>2, <1>9, <1>12 DEF Added
    <2>2. OfFstab(U, B, start.fstab, n)
      BY <1>2, <1>11, <2>1 DEF OfFstab
    <2>3. l.mount = "data" /\ l.fs \in {"files", "image"} => DataBy(start.fstab, pos)
      <3>1. SUFFICES ASSUME l.mount = "data", l.fs \in {"files", "image"}
                     PROVE  HasData(T)
        BY <1>2
      <3>2. Find_Partition_By_Path(T, Path("data")) # 0
        BY <1>12, <3>1 DEF Refused
      <3>3. Path("data") # Path("system")
        BY DEF Path
      <3>4. PICK i \in 1 .. Len(T) : Path("data") \in {T[i].mount, T[i].link}
        BY <1>3, <3>2, <3>3, FindPath
      <3>5. T[i].link = NoPath /\ NoPath # Path("data")
        BY <1>2 DEF Read, NoPath, Path
      <3> QED
        BY <3>4, <3>5 DEF HasData, Data
    <2> QED
      BY <1>2, <1>9, <1>10, <2>1, <2>2, <2>3 DEF B
  <1>13. CASE ~Refused(l, T)
    <2>1. PICK e \in Entries :
              /\ Entering(T, U, e, B)
              /\ IF l.mount = "auto" THEN e.mount = AutoPath(auto_index + 1)
                 ELSE e.mount = PathOf(l)
              /\ IF l.sysfs THEN e.sysfs = l.dev ELSE e.sysfs = None
      BY <1>9, <1>13
    <2>2. data_entry' = (data_entry \/ l.mount = "data") /\ l \in Lines
      BY <1>1, <1>4, <1>13 DEF Added, LineOK
    <2>3. HasData(U) <=> HasData(T) \/ e.mount = Data
      BY <1>3, <1>9, <2>1, EnteringData DEF Read
    <2>4. e.mount = Data <=> l.mount = "data"
      BY <2>1, <2>2, AboutIs
    <2>5. l.mount = "data" => l.fs \in {"files", "image"}
      BY <1>13 DEF Refused
    <2>6. ASSUME NEW i \in 1 .. Len(U)
          PROVE  IF IsChild(U[i])
                 THEN /\ \E j \in 1 .. Len(U) :
                            ~IsChild(U[j]) /\ U[j].mount = U[i].sub /\ U[j].sysfs = None
                      /\ \A d \in Disk :
                            U[i].dev \in PartsOf[d] => \A b \in B : b.dev # BusOf[d]
                 ELSE \E k \in 1 .. n :
                         /\ U[i].mount.auto = 0 => U[i].mount = PathOf(start.fstab[k])
                         /\ U[i].sysfs # None =>
                               start.fstab[k].sysfs /\ U[i].sysfs = start.fstab[k].dev
      <3>1. /\ Len(U) \in Nat /\ Len(T) < Len(U) /\ U[Len(U)] = e /\ ~IsChild(e)
            /\ \A j \in 1 .. Len(T) : U[j] = T[j] /\ j \in 1 .. Len(U)
            /\ \A j \in Len(T) + 1 .. Len(U) - 1 :
                  /\ IsChild(U[j]) /\ U[j].sub = e.mount /\ e.sysfs = None
                  /\ \A d \in Disk : U[j].dev \in PartsOf[d] => \A b \in B : b.dev # BusOf[d]
        BY <1>3, <1>9, <2>1 DEF Entering, Read
      <3>2. i \in 1 .. Len(T) \/ i \in Len(T) + 1 .. Len(U) - 1 \/ i = Len(U)
        BY <1>3, <3>1
      <3>3. CASE i \in 1 .. Len(T)
        <4>1. U[i] = T[i]
          BY <3>1, <3>3
        <4>2. CASE IsChild(T[i])
          <5>1. PICK j \in 1 .. Len(T) :
                     ~IsChild(T[j]) /\ T[j].mount = T[i].sub /\ T[j].sysfs = None
            BY <1>2, <3>3, <4>2 DEF OfFstab
          <5>2. \A d \in Disk : T[i].dev \in PartsOf[d] => \A b \in B : b.dev # BusOf[d]
            BY <1>2, <3>3, <4>2 DEF OfFstab
          <5> QED
            BY <3>1, <4>1, <4>2, <5>1, <5>2
        <4>3. CASE ~IsChild(T[i])
          <5>1. PICK k \in 1 .. pos :
                     /\ T[i].mount.auto = 0 => T[i].mount = PathOf(start.fstab[k])
                     /\ T[i].sysfs # None =>
                           start.fstab[k].sysfs /\ T[i].sysfs = start.fstab[k].dev
            BY <1>2, <3>3, <4>3 DEF OfFstab
          <5> QED
            BY <1>11, <4>1, <4>3, <5>1
        <4> QED
          BY <4>2, <4>3
      <3>4. CASE i \in Len(T) + 1 .. Len(U) - 1
        <4>1. Len(U) \in 1 .. Len(U)
          BY <1>3, <3>1
        <4> QED
          BY <3>1, <3>4, <4>1
      <3>5. CASE i = Len(U)
        <4>1. n \in 1 .. n /\ l = start.fstab[n]
          BY <1>1 DEF l
        <4>2. l.mount = "auto" => e.mount.auto # 0
          <5>1. AutoPath(auto_index + 1).auto = auto_index + 1 /\ auto_index \in Nat
            BY <1>2 DEF AutoPath, Read
          <5> QED
            BY <2>1, <5>1
        <4>3. e.sysfs # None => l.sysfs /\ e.sysfs = l.dev
          BY <2>1
        <4> QED
          BY <2>1, <3>1, <3>5, <4>1, <4>2, <4>3
      <3> QED
        BY <3>2, <3>3, <3>4, <3>5
    <2>7. OfFstab(U, B, start.fstab, n)
      BY <2>6 DEF OfFstab
    <2> QED
      BY <1>2, <1>9, <1>10, <2>2, <2>3, <2>4, <2>5, <2>7 DEF B
  <1> QED
    BY <1>12, <1>13 DEF B

\* Reading a line of twrp.flags.
LEMMA ReadFlagsOK ==
    ASSUME TableInv, ReadFlags
    PROVE  /\ Read(Partitions', Buses, auto_index')
           /\ data_entry => HasData(Partitions')
           /\ HasData(Partitions') /\ ~data_entry => DataIn(start.flags)
  <1> DEFINE T == Partitions
             U == Partitions'
             B == Buses
             n == pos + 1
             l == start.flags[n]
  <1>1. /\ phase = "flags" /\ pos \in Nat /\ n \in 1 .. Len(start.flags)
        /\ IF Find_Partition_By_Path(T, Path(l.mount)) = 0
           THEN Process_Fstab_Line(l, T, <<>>)
           ELSE UNCHANGED <<Partitions, auto_index>>
    BY DEF ReadFlags, Reading, TableInv, TableTypeOK
  <1>2. /\ Read(T, B, auto_index) /\ (data_entry => HasData(T))
        /\ (HasData(T) /\ ~data_entry => DataIn(start.flags))
    BY <1>1 DEF TableInv, Parsing, Pointer, Reads
  <1>3. T \in Seq(Entries) /\ Len(T) \in Nat
    BY <1>2 DEF Read
  <1>4. BusesOK(B) /\ FlagsOK(start.flags, B) /\ FlagsOK(<<>>, B)
    BY StartOK DEF TableInv, TableTypeOK
  <1>5. /\ LineOK(l, B) /\ ~l.sysfs /\ l \in Lines /\ n \in DOMAIN start.flags
    BY <1>1, <1>4 DEF FlagsOK, LineOK
  <1>6. l.mount = "data" /\ l.fs \in {"files", "image"} => DataIn(start.flags)
    BY <1>5 DEF DataIn
  <1> HIDE DEF l, B
  <1>7. CASE Find_Partition_By_Path(T, Path(l.mount)) # 0
    BY <1>1, <1>2, <1>7 DEF B
  <1>8. CASE Find_Partition_By_Path(T, Path(l.mount)) = 0
    <2>1. \A j \in 1 .. Len(T) : T[j].mount # PathOf(l)
      BY <1>3, <1>5, <1>8, NotThere
    <2>2. /\ Read(U, B, auto_index')
          /\ Refused(l, T) => U = T
          /\ ~Refused(l, T) => \E e \in Entries :
                /\ Entering(T, U, e, B)
                /\ IF l.mount = "auto" THEN e.mount = AutoPath(auto_index + 1)
                   ELSE e.mount = PathOf(l)
      BY <1>1, <1>2, <1>4, <1>5, <1>8, <2>1, LineRead
    <2>3. CASE Refused(l, T)
      BY <1>2, <2>2, <2>3 DEF B
    <2>4. CASE ~Refused(l, T)
      <3>1. PICK e \in Entries :
                /\ Entering(T, U, e, B)
                /\ IF l.mount = "auto" THEN e.mount = AutoPath(auto_index + 1)
                   ELSE e.mount = PathOf(l)
        BY <2>2, <2>4
      <3>2. HasData(U) <=> HasData(T) \/ e.mount = Data
        BY <1>3, <2>2, <3>1, EnteringData DEF Read
      <3>3. e.mount = Data => l.mount = "data"
        BY <1>5, <3>1, AboutIs
      <3>4. l.mount = "data" => l.fs \in {"files", "image"}
        BY <2>4 DEF Refused
      <3> QED
        BY <1>2, <1>6, <2>2, <3>2, <3>3, <3>4 DEF B
    <2> QED
      BY <2>3, <2>4
  <1> QED
    BY <1>7, <1>8

\* Reading a line of the fstab of the vendor partition: it stands for /data
\* once it has been read.
LEMMA ReadVendorOK ==
    ASSUME TableInv, ReadVendor
    PROVE  /\ Read(Partitions', Buses, auto_index')
           /\ data_entry' \in BOOLEAN /\ (data_entry' => HasData(Partitions'))
           /\ DataIn(start.fstab) \/ ~DataIn(start.flags) => (HasData(Partitions') => data_entry')
           /\ VendorSays(Partitions', pos + 1)
  <1> DEFINE T == Partitions
             U == Partitions'
             B == Buses
             n == pos + 1
             l == start.vendor[n]
             old == \/ About(l) = Data /\ data_entry
                    \/ About(l) = Metadata /\ meta_entry
             V == IF old THEN Erase(T, About(l)) ELSE T
             new == About(l) # NoPath /\ Added(l, V)
             cond == DataIn(start.fstab) \/ ~DataIn(start.flags)
  <1>1. /\ phase = "vendor" /\ pos \in Nat /\ n \in 1 .. Len(start.vendor)
        /\ IF About(l) = NoPath THEN UNCHANGED <<Partitions, auto_index>>
           ELSE Process_Fstab_Line(l, V, <<>>)
        /\ data_entry' = IF new /\ l.mount = "data" THEN TRUE ELSE data_entry /\ About(l) # Data
    BY DEF ReadVendor, Reading, TableInv, TableTypeOK
  <1>2. /\ Read(T, B, auto_index) /\ data_entry \in BOOLEAN /\ (data_entry => HasData(T))
        /\ cond => (HasData(T) => data_entry)
        /\ VendorSays(T, pos)
    BY <1>1 DEF TableInv, Parsing, Pointer, Reads, Vendor
  <1>3. T \in Seq(Entries) /\ Len(T) \in Nat
    BY <1>2 DEF Read
  <1>4. start \in Starts /\ BusesOK(B) /\ FlagsOK(<<>>, B)
    BY StartOK DEF TableInv, TableTypeOK
  <1>5. l \in Lines
    BY <1>1, <1>4 DEF Starts
  <1>6. About(l) # NoPath => LineOK(l, B) /\ l.v2 /\ ~l.sysfs
    BY <1>1, StartOK DEF TableInv, TableTypeOK
  <1>7. /\ About(l) = Data <=> l.mount \in {"data", "datadata"}
        /\ About(l) = Metadata <=> l.mount = "metadata"
        /\ About(l) \in {Data, Metadata, NoPath} /\ Data # Metadata
        /\ Data # NoPath /\ Metadata # NoPath
        /\ Data.part = 0 /\ Metadata.part = 0
        /\ PathOf(l) = Data <=> l.mount = "data"
    BY <1>5, AboutIs
  <1>a. \A m \in 1 .. pos : m \in 1 .. n
    BY <1>1
  <1> DEFINE Newest(k, m) == \A i \in k + 1 .. m : About(start.vendor[i]) # Data
             SaysSo(k) == start.vendor[k].mount = "data" /\ start.vendor[k].fs = "files"
  <1>8. cond => \A k \in 1 .. pos : SaysSo(k) /\ Newest(k, n) => SaysData(T, start.vendor[k].dev)
    <2>1. \A k \in 1 .. pos : Newest(k, n) => Newest(k, pos)
      BY <1>1
    <2> QED
      BY <1>2, <2>1 DEF VendorSays
  <1>9. \A k \in 1 .. pos : Newest(k, n) => About(l) # Data
    <2>1. \A k \in 1 .. pos : n \in k + 1 .. n
      BY <1>1
    <2> QED
      BY <2>1
  <1>10. \A k \in 1 .. n : k \in 1 .. pos \/ k = n
    BY <1>1
  <1>11. ASSUME cond => /\ SaysSo(n) => SaysData(U, l.dev)
                        /\ About(l) # Data => \A dev : SaysData(T, dev) => SaysData(U, dev)
         PROVE  VendorSays(U, n)
    <2>1. ASSUME cond, NEW k \in 1 .. n, SaysSo(k), Newest(k, n)
          PROVE  SaysData(U, start.vendor[k].dev)
      <3>1. CASE k \in 1 .. pos
        BY <1>8, <1>9, <1>11, <2>1, <3>1
      <3>2. CASE k = n
        BY <1>11, <2>1, <3>2
      <3> QED
        BY <1>10, <3>1, <3>2
    <2> QED
      BY <2>1 DEF VendorSays
  <1> HIDE DEF l, B, cond
  <1>12. CASE About(l) = NoPath
    <2>1. U = T /\ auto_index' = auto_index /\ ~new /\ data_entry' = data_entry
      BY <1>1, <1>2, <1>7, <1>12
    <2>2. ~SaysSo(n)
      BY <1>7, <1>12 DEF l
    <2>3. VendorSays(U, n)
      BY <1>11, <2>1, <2>2
    <2> QED
      BY <1>2, <2>1, <2>3 DEF B, cond
  <1>13. CASE About(l) # NoPath
    <2>1. /\ Read(V, B, auto_index)
          /\ About(l) = Data => ~(cond /\ HasData(V))
          /\ About(l) # Data => /\ HasData(V) <=> HasData(T)
                                /\ \A dev : SaysData(T, dev) => SaysData(V, dev)
      <3>1. CASE old
        <4>1. V = Erase(T, About(l)) /\ About(l).part = 0
          BY <1>7, <3>1
        <4> HIDE DEF V
        <4>2. /\ Read(V, B, auto_index)
              /\ HasData(V) <=> HasData(T) /\ About(l) # Data
              /\ About(l) # Data => \A dev : SaysData(T, dev) => SaysData(V, dev)
          BY <1>2, <4>1, EraseKeeps
        <4> QED
          BY <4>2
      <3>2. CASE ~old
        <4>1. V = T
          BY <3>2
        <4> HIDE DEF V
        <4> QED
          BY <1>2, <3>2, <4>1
      <3> QED
        BY <3>1, <3>2
    <2> HIDE DEF V, old
    <2>2. V \in Seq(Entries) /\ Len(V) \in Nat
      BY <2>1 DEF Read
    <2>3. LineOK(l, B) /\ l.v2 /\ ~l.sysfs /\ l.mount # "auto"
      BY <1>6, <1>7, <1>13
    <2>4. ~Refused(l, V) => \A j \in 1 .. Len(V) : V[j].mount # PathOf(l)
      BY <2>2, <2>3, NotThere DEF Refused
    <2>5. /\ Read(U, B, auto_index')
          /\ Refused(l, V) => U = V
          /\ ~Refused(l, V) => \E e \in Entries :
                Entering(V, U, e, B) /\ e.mount = PathOf(l) /\ e.dev = l.dev
      BY <1>1, <1>4, <1>13, <2>1, <2>3, <2>4, LineRead
    <2>6. new <=> ~Refused(l, V)
      BY <1>13 DEF Added
    <2>7. l.mount = "data" /\ l.fs = "files" /\ Refused(l, V) => HasData(V)
      <3>1. SUFFICES ASSUME l.mount = "data", l.fs = "files", Refused(l, V) PROVE HasData(V)
        OBVIOUS
      <3>2. Find_Partition_By_Path(V, Path("data")) # 0
        BY <3>1 DEF Refused
      <3>3. Path("data") # Path("system")
        BY DEF Path
      <3>4. PICK i \in 1 .. Len(V) : Path("data") \in {V[i].mount, V[i].link}
        BY <2>2, <3>2, <3>3, FindPath
      <3>5. V[i].link = NoPath /\ NoPath # Path("data")
        BY <2>1 DEF Read, NoPath, Path
      <3> QED
        BY <3>4, <3>5 DEF HasData, Data
    <2> HIDE DEF new
    <2>8. CASE Refused(l, V)
      <3>1. U = V /\ ~new /\ data_entry' = (data_entry /\ About(l) # Data)
        BY <1>1, <1>2, <2>5, <2>6, <2>8
      <3>2. cond => (SaysSo(n) => SaysData(U, l.dev))
        BY <1>7, <2>1, <2>7, <2>8 DEF l
      <3>3. VendorSays(U, n)
        BY <1>11, <2>1, <3>1, <3>2
      <3>4. Read(U, B, auto_index')
        BY <2>5
      <3>5. data_entry' \in BOOLEAN /\ (data_entry' => HasData(U))
        BY <1>2, <1>7, <2>1, <3>1
      <3>6. cond => (HasData(U) => data_entry')
        BY <1>2, <1>7, <2>1, <3>1
      <3> QED
        BY <3>3, <3>4, <3>5, <3>6 DEF B, cond
    <2>9. CASE ~Refused(l, V)
      <3>1. PICK e \in Entries :
                 Entering(V, U, e, B) /\ e.mount = PathOf(l) /\ e.dev = l.dev
        BY <2>5, <2>9
      <3>2. U \in Seq(Entries)
        BY <2>5 DEF Read
      <3>3. /\ HasData(U) <=> HasData(V) \/ e.mount = Data
            /\ \A dev : SaysData(V, dev) => SaysData(U, dev)
            /\ e.mount = Data => SaysData(U, e.dev)
        BY <2>2, <3>1, <3>2, EnteringData
      <3>4. data_entry' = IF l.mount = "data" THEN TRUE ELSE data_entry /\ About(l) # Data
        BY <1>1, <2>6, <2>9
      <3>5. e.mount = Data <=> l.mount = "data"
        BY <1>7, <3>1
      <3>6. SaysSo(n) => SaysData(U, l.dev)
        BY <3>1, <3>3, <3>5 DEF l
      <3>7. VendorSays(U, n)
        BY <1>11, <2>1, <3>3, <3>6
      <3>8. data_entry' \in BOOLEAN /\ (data_entry' => HasData(U))
        BY <1>2, <2>1, <3>3, <3>4, <3>5
      <3>9. cond => (HasData(U) => data_entry')
        BY <1>2, <1>7, <2>1, <3>3, <3>4, <3>5
      <3> QED
        BY <2>5, <3>7, <3>8, <3>9 DEF B, cond
    <2> QED
      BY <2>8, <2>9
  <1> QED
    BY <1>12, <1>13

\* The buses are those of the start.
LEMMA BusesSame == start' = start => Buses' = Buses
  BY DEF Buses, LinesOf

\* /data is on no bus.
LEMMA BusesData == start \in Boots => \A b \in Buses : b.mount # "data"
  BY StartOK DEF BusesOK

\* What the lines of the vendor said is kept when the device of /data is.
LEMMA VendorKeeps ==
    ASSUME NEW n, NEW T, VendorSays(T, n), NEW U, \A dev : SaysData(T, dev) => SaysData(U, dev)
    PROVE  VendorSays(U, n)
  BY DEF VendorSays

\* What the lines of the vendor said is about the start, which no step
\* changes.
LEMMA VendorSame ==
    ASSUME NEW n, NEW T, VendorSays(T, n), start' = start
    PROVE  VendorSays(T, n)'
  BY DEF VendorSays, DataIn, SaysData, About

\* A start.
LEMMA TableStarts == TableInit => TableInv
  <1> SUFFICES ASSUME TableInit PROVE TableInv
    OBVIOUS
  <1>1. /\ start \in Boots /\ phase = "fstab" /\ pos = 0 /\ Partitions = <<>>
        /\ data_entry = FALSE /\ meta_entry = FALSE /\ auto_index = 0
        /\ storageid = 0 /\ settings = NoPath /\ plugged = start.plugged
        /\ nodes = start.there \cup UNION {Nodes(d) : d \in plugged}
        /\ events = <<>> /\ plugs = 0 /\ stuck = FALSE /\ late = FALSE
        /\ DOMAIN mounts = {} /\ mounts = [m \in DOMAIN mounts |-> mounts[m]]
        /\ shared \in BOOLEAN
    BY DEF TableInit
  <1>2. start \in Starts
    BY <1>1, StartOK
  <1>3. TableTypeOK
    <2>1. Partitions \in Seq(Entries)
      BY <1>1
    <2>2. events \in Seq([action : {"add", "remove"}, disk : Disk])
      BY <1>1
    <2>3. settings \in Paths /\ plugged \subseteq Disk /\ MaxPlugs \in Nat
      BY <1>1, <1>2, PathsAre, DiskAssumption DEF Starts
    <2>4. DOMAIN mounts \subseteq Paths /\ plugs \in 0 .. MaxPlugs
      BY <1>1, <2>3
    <2>5. {data_entry, meta_entry, stuck, shared, late} \subseteq BOOLEAN
      BY <1>1
    <2>6. /\ nodes \subseteq start.there \cup UNION {Nodes(d) : d \in plugged}
          /\ pos \in Nat /\ auto_index \in Nat /\ storageid \in Nat /\ start \in Boots
          /\ mounts = [m \in DOMAIN mounts |-> mounts[m]]
          /\ phase \in {"fstab", "flags", "vendor", "setup", "update", "bind", "coldboot", "ready",
                        "remove", "refresh"}
      BY <1>1
    <2> QED
      BY <2>1, <2>2, <2>3, <2>4, <2>5, <2>6 DEF TableTypeOK
  <1>4. Len(Partitions) = 0 /\ Partitions \in Seq(Entries)
    BY <1>1
  <1>5. TableOK(Partitions, Buses)
    BY <1>4 DEF TableOK
  <1>6. Parsing
    BY <1>1, <1>4, <1>5 DEF Parsing, Read, NoDisk, OfFstab
  <1>7. Pointer
    <2>1. ~HasData(Partitions)
      BY <1>4 DEF HasData
    <2>2. ~DataBy(start.fstab, 0)
      BY DEF DataBy
    <2> QED
      BY <1>1, <2>1, <2>2 DEF Pointer
  <1>8. Vendor /\ Setting /\ Storages
    BY <1>1 DEF Vendor, Setting, Storages, Reads, AfterSetup
  <1>9. Queue
    BY <1>1, <1>4 DEF Queue, Listening
  <1> QED
    BY <1>3, <1>5, <1>6, <1>7, <1>8, <1>9 DEF TableInv

\* The steps that read a line.
LEMMA LineStep ==
    ASSUME TableInv, ReadFstab \/ ReadFlags \/ ReadVendor
    PROVE  TableInv'
  <1>1. /\ start' = start /\ phase' = phase /\ phase \in Reads /\ pos' = pos + 1
        /\ storageid' = storageid /\ settings' = settings
        /\ UNCHANGED world /\ UNCHANGED seen
        /\ meta_entry' \in BOOLEAN
    BY DEF ReadFstab, ReadFlags, ReadVendor, Reading, Reads, storages, TableInv, TableTypeOK
  <1>2. /\ Read(Partitions', Buses, auto_index') /\ data_entry' \in BOOLEAN
        /\ phase = "fstab" => OfFstab(Partitions', Buses, start.fstab, pos + 1)
        /\ phase = "fstab" => /\ HasData(Partitions') <=> data_entry'
                              /\ data_entry' <=> DataBy(start.fstab, pos + 1)
        /\ phase = "flags" => /\ data_entry' = data_entry
                              /\ data_entry => HasData(Partitions')
                              /\ HasData(Partitions') /\ ~data_entry => DataIn(start.flags)
        /\ phase = "vendor" =>
              /\ data_entry' => HasData(Partitions')
              /\ DataIn(start.fstab) \/ ~DataIn(start.flags) =>
                    (HasData(Partitions') => data_entry')
              /\ VendorSays(Partitions', pos + 1)
    <2>1. CASE ReadFstab
      <3>1. phase = "fstab"
        BY <2>1 DEF ReadFstab, Reading
      <3> QED
        BY <2>1, <3>1, ReadFstabOK
    <2>2. CASE ReadFlags
      <3>1. phase = "flags" /\ data_entry' = data_entry /\ data_entry \in BOOLEAN
        BY <2>2 DEF ReadFlags, Reading, TableInv, Pointer
      <3> QED
        BY <2>2, <3>1, ReadFlagsOK
    <2>3. CASE ReadVendor
      <3>1. phase = "vendor"
        BY <2>3 DEF ReadVendor, Reading
      <3> QED
        BY <2>3, <3>1, ReadVendorOK
    <2> QED
      BY <2>1, <2>2, <2>3
  <1>3. /\ Buses' = Buses /\ pos \in Nat /\ storageid \in Nat /\ settings \in Paths
        /\ start \in Boots
    BY <1>1, BusesSame DEF TableInv, TableTypeOK
  <1>4. Partitions' \in Seq(Entries) /\ TableOK(Partitions', Buses) /\ auto_index' \in Nat
        /\ NoDisk(Partitions')
    BY <1>2 DEF Read
  <1>5. TableTypeOK'
    <2>1. TableTypeOK
      BY DEF TableInv
    <2>2. pos + 1 \in Nat
      BY <1>3
    <2> QED
      BY <1>1, <1>2, <1>4, <2>1, <2>2 DEF TableTypeOK, world, seen
  <1>6. Parsing'
    <2>1. settings = NoPath /\ storageid = 0
      BY <1>1 DEF TableInv, Parsing
    <2> QED
      BY <1>1, <1>2, <1>3, <2>1 DEF Parsing
  <1>7. Pointer'
    <2>1. phase = "flags" => (data_entry <=> DataIn(start.fstab))
      BY <1>1 DEF TableInv, Pointer
    <2>2. DataIn(start.fstab)' = DataIn(start.fstab) /\ DataIn(start.flags)' = DataIn(start.flags)
      BY <1>1 DEF DataIn
    <2>3. DataBy(start.fstab, pos)' = DataBy(start.fstab, pos + 1)
      BY <1>1 DEF DataBy
    <2> QED
      BY <1>1, <1>2, <2>1, <2>2, <2>3 DEF Pointer
  <1>8. Vendor' /\ Setting' /\ Storages'
    <2>1. phase = "vendor" => VendorSays(Partitions, pos)'
      BY <1>1, <1>2 DEF VendorSays, DataIn, SaysData, About
    <2>2. phase' \in Reads /\ phase' # "setup" /\ phase' \notin AfterSetup
      BY <1>1 DEF Reads, AfterSetup
    <2>3. Vendor'
      BY <1>1, <2>1, <2>2 DEF Vendor, Reads
    <2> QED
      BY <2>2, <2>3 DEF Setting, Storages
  <1>9. Queue'
    <2>1. ~Listening /\ phase # "remove"
      BY <1>1 DEF Reads, Listening
    <2>2. events = <<>> /\ DOMAIN mounts = {}
      BY <2>1 DEF TableInv, Queue
    <2>3. events' = <<>> /\ DOMAIN mounts' = {}
      BY <1>1, <2>2 DEF world, seen
    <2>4. Len(<<>>) = 0
      OBVIOUS
    <2>5. \A i \in 1 .. Len(Partitions') : Partitions'[i].sysfs # None => Partitions'[i].dev = None
      BY <1>4 DEF NoDisk
    <2> QED
      BY <1>1, <2>1, <2>3, <2>4, <2>5 DEF Queue, Listening
  <1>10. TableOK(Partitions, Buses)'
    BY <1>3, <1>4
  <1> QED
    BY <1>5, <1>6, <1>7, <1>8, <1>9, <1>10 DEF TableInv

\* The end of a file: the next one is read, or the storages are set up.
LEMMA EndStep ==
    ASSUME TableInv, EndOfFile
    PROVE  TableInv'
  <1>1. /\ start' = start /\ pos' = 0 /\ UNCHANGED <<Partitions, pointers, storages>>
        /\ UNCHANGED world /\ UNCHANGED seen /\ phase \in Reads
        /\ \/ phase = "fstab" /\ pos = Len(start.fstab) /\ phase' = "flags"
           \/ phase = "flags" /\ phase' = "vendor" /\ start.found
           \/ phase = "flags" /\ phase' = "setup" /\ ~start.found
           \/ phase = "vendor" /\ pos = Len(start.vendor) /\ phase' = "setup"
    BY DEF EndOfFile, Reads
  <1>2. /\ Partitions' = Partitions /\ data_entry' = data_entry /\ meta_entry' = meta_entry
        /\ auto_index' = auto_index /\ storageid' = storageid /\ settings' = settings
        /\ events' = events /\ mounts' = mounts
    BY <1>1 DEF pointers, storages, world, seen
  <1>3. Buses' = Buses /\ TableTypeOK /\ TableOK(Partitions, Buses)
    BY <1>1, BusesSame DEF TableInv
  <1>4. /\ Read(Partitions, Buses, auto_index) /\ settings = NoPath /\ storageid = 0
    BY <1>1 DEF TableInv, Parsing
  <1>5. TableTypeOK'
    BY <1>1, <1>2, <1>3 DEF TableTypeOK, world, seen
  <1>6. Parsing'
    BY <1>1, <1>2, <1>3, <1>4 DEF Parsing
  <1>7. Pointer'
    <2>1. DataIn(start.fstab)' = DataIn(start.fstab) /\ DataIn(start.flags)' = DataIn(start.flags)
      BY <1>1 DEF DataIn
    <2>2. HasData(Partitions)' = HasData(Partitions) /\ data_entry \in BOOLEAN
      BY <1>2 DEF TableInv, Pointer
    <2>3. CASE phase = "fstab"
      <3>1. DataBy(start.fstab, pos) <=> DataIn(start.fstab)
        <4>1. start.fstab \in Seq(Lines)
          BY <1>3, StartOK DEF TableTypeOK, Starts
        <4> QED
          BY <1>1, <2>3, <4>1 DEF DataBy, DataIn
      <3>2. (HasData(Partitions) <=> data_entry) /\ (data_entry <=> DataIn(start.fstab))
        BY <2>3, <3>1 DEF TableInv, Pointer
      <3>3. phase' = "flags"
        BY <1>1, <2>3
      <3> QED
        BY <1>2, <2>1, <2>2, <3>2, <3>3 DEF Pointer
    <2>4. CASE phase = "flags"
      <3>1. /\ data_entry <=> DataIn(start.fstab)
            /\ data_entry => HasData(Partitions)
            /\ HasData(Partitions) /\ ~data_entry => DataIn(start.flags)
        BY <2>4 DEF TableInv, Pointer
      <3>2. phase' \in {"vendor", "setup"}
        BY <1>1, <2>4
      <3>3. DataIn(start.fstab) \/ ~DataIn(start.flags) => (HasData(Partitions) => data_entry)
        BY <3>1
      <3> QED
        BY <1>2, <2>1, <2>2, <3>1, <3>2, <3>3 DEF Pointer
    <2>5. CASE phase = "vendor"
      <3>1. phase' = "setup"
        BY <1>1, <2>5
      <3> QED
        BY <1>2, <2>2, <3>1 DEF Pointer
    <2> QED
      BY <1>1, <2>3, <2>4, <2>5 DEF Reads
  <1>8. Vendor'
    <2>1. CASE phase = "fstab"
      BY <1>1, <2>1 DEF Vendor, Reads
    <2>2. CASE phase = "flags"
      <3>1. VendorSays(Partitions, pos)'
        BY <1>1, <2>2 DEF VendorSays
      <3> QED
        BY <1>1, <2>2, <3>1 DEF Vendor, Reads
    <2>3. CASE phase = "vendor"
      <3>1. VendorSays(Partitions, pos) /\ pos = Len(start.vendor)
        BY <1>1, <2>3 DEF TableInv, Vendor
      <3>2. VendorSays(Partitions, Len(start.vendor))'
        BY <1>1, <1>2, <3>1 DEF VendorSays, DataIn, SaysData, About
      <3> QED
        BY <1>1, <2>3, <3>2 DEF Vendor, Reads
    <2> QED
      BY <1>1, <2>1, <2>2, <2>3 DEF Reads
  <1>9. Setting'
    <2>1. Chosen(Partitions, 0, settings, storageid)
      <3>1. 0 \in 0 .. Len(Partitions)
        BY <1>3 DEF TableTypeOK
      <3> QED
        BY <1>4, <3>1 DEF Chosen, Settled, Read
    <2> QED
      BY <1>1, <1>2, <2>1 DEF Setting
  <1>10. Storages' /\ Queue'
    <2>1. ~Listening /\ phase' \notin AfterSetup /\ ~Listening' /\ phase' # "remove"
      BY <1>1 DEF Reads, Listening, AfterSetup
    <2> QED
      BY <1>1, <1>2, <2>1 DEF TableInv, Storages, Queue
  <1> QED
    BY <1>2, <1>3, <1>5, <1>6, <1>7, <1>8, <1>9, <1>10 DEF TableInv

\* What the hot-plug reads of a table is the same in another.
LEMMA SteadyDevices ==
    ASSUME NEW T, NEW U, Steady(T, U),
           \A i \in 1 .. Len(T) : T[i].sysfs # None => T[i].dev = None
    PROVE  \A i \in 1 .. Len(U) : U[i].sysfs # None => U[i].dev = None
  BY DEF Steady

\* A table whose entries stay in place keeps the device of /data.
LEMMA SteadyData ==
    ASSUME NEW T, NEW U, Steady(T, U)
    PROVE  \A dev : SaysData(T, dev) => SaysData(U, dev)
  BY DEF Steady, SaysData

\* The storages are set up.
LEMMA SetupStep ==
    ASSUME TableInv, SetupOne \/ Setup_Fstab_Partitions
    PROVE  TableInv'
  <1>1. /\ start' = start /\ phase = "setup" /\ phase' \in {"setup", "update"}
        /\ UNCHANGED <<pointers, world, seen>>
    BY DEF SetupOne, Setup_Fstab_Partitions
  <1>2. /\ data_entry' = data_entry /\ meta_entry' = meta_entry /\ auto_index' = auto_index
        /\ events' = events /\ mounts' = mounts
    BY <1>1 DEF pointers, world, seen
  <1>3. Buses' = Buses /\ TableTypeOK /\ TableOK(Partitions, Buses)
    BY <1>1, BusesSame DEF TableInv
  <1>4. /\ pos \in Nat /\ storageid \in Nat /\ settings \in Paths /\ Partitions \in Seq(Entries)
        /\ Chosen(Partitions, pos, settings, storageid)
    BY <1>1, <1>3 DEF TableInv, TableTypeOK, Setting
  <1>5. /\ Partitions' \in Seq(Entries) /\ TableOK(Partitions', Buses)
        /\ Steady(Partitions, Partitions') /\ settings' \in Paths /\ storageid' \in Nat
        /\ pos' \in Nat
        /\ \/ phase' = "setup" /\ Chosen(Partitions', pos', settings', storageid')
           \/ phase' = "update" /\ Ids(Partitions') /\ Default(Partitions', settings')
    <2>1. CASE SetupOne
      <3>1. phase' = "setup" /\ pos' = pos + 1
        BY <2>1 DEF SetupOne
      <3> QED
        BY <1>3, <1>4, <2>1, <3>1, SetupOneOK
    <2>2. CASE Setup_Fstab_Partitions
      <3>1. phase' = "update" /\ pos' = 0
        BY <2>2 DEF Setup_Fstab_Partitions
      <3> QED
        BY <1>3, <1>4, <2>2, <3>1, SetupAllOK
    <2> QED
      BY <2>1, <2>2
  <1>6. TableTypeOK'
    BY <1>1, <1>2, <1>3, <1>5 DEF TableTypeOK, world, seen
  <1>7. Parsing' /\ Pointer'
    <2>1. phase' \notin Reads /\ phase' # "fstab" /\ phase' # "flags" /\ phase' # "vendor"
      BY <1>1 DEF Reads
    <2>2. data_entry \in BOOLEAN
      BY DEF TableInv, Pointer
    <2> QED
      BY <1>2, <2>1, <2>2 DEF Parsing, Pointer
  <1>8. Vendor'
    <2>1. phase' \notin Reads /\ phase' # "vendor" /\ phase \notin Reads
      BY <1>1 DEF Reads
    <2>2. ASSUME start.found PROVE VendorSays(Partitions, Len(start.vendor))'
      <3>1. VendorSays(Partitions, Len(start.vendor))
        BY <2>1, <2>2 DEF TableInv, Vendor
      <3>2. \A dev : SaysData(Partitions, dev) => SaysData(Partitions', dev)
        BY <1>5, SteadyData
      <3>3. VendorSays(Partitions', Len(start.vendor))
        BY <3>1, <3>2, VendorKeeps
      <3> QED
        BY <1>1, <3>3 DEF VendorSays, DataIn, SaysData, About
    <2> QED
      BY <1>1, <2>1, <2>2 DEF Vendor
  <1>9. Setting' /\ Storages'
    BY <1>5 DEF Setting, Storages, AfterSetup
  <1>10. Queue'
    <2>1. ~Listening /\ ~Listening' /\ phase' # "remove"
      BY <1>1 DEF Listening
    <2>2. \A i \in 1 .. Len(Partitions') : Partitions'[i].sysfs # None => Partitions'[i].dev = None
      BY <1>5, <2>1, SteadyDevices DEF TableInv, Queue
    <2>3. events = <<>> /\ DOMAIN mounts = {} /\ Len(<<>>) = 0
      BY <2>1 DEF TableInv, Queue
    <2> QED
      BY <1>2, <2>1, <2>2, <2>3 DEF Queue
  <1> QED
    BY <1>3, <1>5, <1>6, <1>7, <1>8, <1>9, <1>10 DEF TableInv

\* The parts of the invariant that say nothing of the world outside.
Inside == TableOK(Partitions, Buses) /\ Parsing /\ Pointer /\ Vendor /\ Setting /\ Storages

\* A step that leaves the table and where the program is keeps Inside.
LEMMA Stays ==
    ASSUME TableInv, UNCHANGED <<start, phase, pos, Partitions, pointers, storages>>
    PROVE  Inside'
  <1>1. /\ start' = start /\ phase' = phase /\ pos' = pos /\ Partitions' = Partitions
        /\ data_entry' = data_entry /\ meta_entry' = meta_entry /\ auto_index' = auto_index
        /\ storageid' = storageid /\ settings' = settings
    BY DEF pointers, storages
  <1>2. Buses' = Buses /\ TableOK(Partitions, Buses)
    BY <1>1, BusesSame DEF TableInv
  <1>3. Parsing'
    BY <1>1, <1>2 DEF TableInv, Parsing
  <1>4. Pointer'
    <2>1. DataIn(start.fstab)' = DataIn(start.fstab) /\ DataIn(start.flags)' = DataIn(start.flags)
          /\ DataBy(start.fstab, pos)' = DataBy(start.fstab, pos)
          /\ HasData(Partitions)' = HasData(Partitions)
      BY <1>1 DEF DataIn, DataBy, HasData
    <2> QED
      BY <1>1, <2>1 DEF TableInv, Pointer
  <1>5. Vendor'
    <2>1. VendorSays(Partitions, pos) => VendorSays(Partitions, pos)'
      BY <1>1 DEF VendorSays, DataIn, SaysData, About
    <2>2. VendorSays(Partitions, Len(start.vendor)) => VendorSays(Partitions, Len(start.vendor))'
      BY <1>1 DEF VendorSays, DataIn, SaysData, About
    <2> QED
      BY <1>1, <2>1, <2>2 DEF TableInv, Vendor, Reads
  <1>6. Setting' /\ Storages'
    BY <1>1 DEF TableInv, Setting, Storages, AfterSetup
  <1> QED
    BY <1>1, <1>2, <1>3, <1>4, <1>5, <1>6 DEF Inside

\* After Setup_Settings_Storage, a step that keeps the table sound, the
\* storage ids, the default storage and the device of /data keeps Inside.
LEMMA Later ==
    ASSUME TableInv, phase \in AfterSetup, phase' \in AfterSetup, start' = start,
           UNCHANGED <<pointers, storages>>, TableOK(Partitions', Buses),
           Ids(Partitions) => Ids(Partitions'),
           \A s : Default(Partitions, s) => Default(Partitions', s),
           \A dev : SaysData(Partitions, dev) => SaysData(Partitions', dev)
    PROVE  Inside'
  <1>1. /\ data_entry' = data_entry /\ meta_entry' = meta_entry /\ auto_index' = auto_index
        /\ storageid' = storageid /\ settings' = settings
    BY DEF pointers, storages
  <1>2. Buses' = Buses
    BY <1>1, BusesSame
  <1>3. /\ phase' \notin Reads /\ phase' \notin {"fstab", "flags", "vendor", "setup"}
        /\ phase \notin Reads
    BY DEF Reads, AfterSetup
  <1>4. Parsing' /\ Pointer' /\ Setting'
    <2>1. data_entry \in BOOLEAN
      BY DEF TableInv, Pointer
    <2> QED
      BY <1>1, <1>3, <2>1 DEF Parsing, Pointer, Setting
  <1>5. Vendor'
    <2>1. ASSUME start.found PROVE VendorSays(Partitions, Len(start.vendor))'
      <3>1. VendorSays(Partitions, Len(start.vendor))
        BY <1>3, <2>1 DEF TableInv, Vendor
      <3>2. VendorSays(Partitions', Len(start.vendor))
        BY <3>1, VendorKeeps
      <3> QED
        BY <3>2 DEF VendorSays, DataIn, SaysData, About
    <2> QED
      BY <1>3, <2>1 DEF Vendor
  <1>6. Storages'
    BY <1>1 DEF TableInv, Storages
  <1> QED
    BY <1>2, <1>4, <1>5, <1>6 DEF Inside

\* After Setup_Settings_Storage, a table that only grows keeps Inside.
LEMMA LaterGrew ==
    ASSUME TableInv, phase \in AfterSetup, phase' \in AfterSetup, start' = start,
           UNCHANGED <<pointers, storages>>,
           Partitions' \in Seq(Entries), TableOK(Partitions', Buses), Grew(Partitions, Partitions')
    PROVE  Inside'
  <1>1. start \in Boots /\ Partitions \in Seq(Entries) /\ TableOK(Partitions, Buses)
    BY DEF TableInv, TableTypeOK
  <1>2. /\ Ids(Partitions) => Ids(Partitions')
        /\ \A s : Default(Partitions, s) => Default(Partitions', s)
        /\ \A dev : SaysData(Partitions, dev) => SaysData(Partitions', dev)
    BY <1>1, GrewKeeps, BusesData
  <1> QED
    BY <1>2, Later

\* After Setup_Settings_Storage, a step that leaves the table keeps Inside.
LEMMA LaterSame ==
    ASSUME TableInv, phase \in AfterSetup, phase' \in AfterSetup, start' = start,
           UNCHANGED <<Partitions, pointers, storages>>
    PROVE  Inside'
  <1>1. TableOK(Partitions', Buses) /\ Partitions' = Partitions
    BY DEF TableInv
  <1> QED
    BY <1>1, Later

\* The parts of the invariant make the whole.
LEMMA WholeInv == TableTypeOK' /\ Inside' /\ Queue' => TableInv'
  BY DEF Inside, TableInv

\* The steps of the world, and those that only go on.
LEMMA WorldStep ==
    ASSUME TableInv, NEW d \in Disk, Plug(d) \/ MakeNode(d) \/ Unplug(d)
    PROVE  TableInv'
  <1>1. UNCHANGED <<start, phase, pos, Partitions, pointers, storages, mounts>>
    BY DEF Plug, MakeNode, Unplug, seen
  <1>2. /\ start' = start /\ phase' = phase /\ pos' = pos /\ Partitions' = Partitions
        /\ data_entry' = data_entry /\ meta_entry' = meta_entry /\ auto_index' = auto_index
        /\ storageid' = storageid /\ settings' = settings /\ mounts' = mounts
    BY <1>1 DEF pointers, storages
  <1>3. Inside'
    BY <1>1, Stays
  <1>4. TableTypeOK
    BY DEF TableInv
  <1>5. PartsOf \in [Disk -> SUBSET Text] /\ MaxPlugs \in Nat
    BY DiskAssumption
  <1>6. CASE Plug(d)
    <2>1. /\ Listening /\ Watched(d) /\ plugs < MaxPlugs /\ plugged' = plugged \cup {d}
          /\ events' = Append(events, Uevent("add", d)) /\ plugs' = plugs + 1
          /\ nodes' = nodes /\ stuck' = stuck /\ late' = late /\ shared' \in BOOLEAN
      BY <1>4, <1>6 DEF Plug, TableTypeOK
    <2>2. events' \in Seq([action : {"add", "remove"}, disk : Disk])
          /\ Len(events') = Len(events) + 1 /\ events'[Len(events')].disk = d
          /\ \A k \in 1 .. Len(events) : events'[k] = events[k]
      <3>1. Uevent("add", d) \in [action : {"add", "remove"}, disk : Disk] /\ Uevent("add", d).disk = d
        BY DEF Uevent
      <3>2. events \in Seq([action : {"add", "remove"}, disk : Disk])
        BY <1>4 DEF TableTypeOK
      <3> QED
        BY <2>1, <3>1, <3>2
    <2>3. TableTypeOK'
      <3>1. nodes' \subseteq start.there \cup UNION {Nodes(e) : e \in plugged'}
        BY <1>4, <2>1 DEF TableTypeOK
      <3>2. plugs' \in 0 .. MaxPlugs
        BY <1>4, <1>5, <2>1 DEF TableTypeOK
      <3>3. {data_entry', meta_entry', stuck', shared', late'} \subseteq BOOLEAN
        BY <1>2, <1>4, <2>1 DEF TableTypeOK
      <3> QED
        BY <1>2, <1>4, <2>1, <2>2, <3>1, <3>2, <3>3 DEF TableTypeOK
    <2>4. Queue'
      <3>1. \A k \in 1 .. Len(events') : Watched(events[k].disk)'
        <4>1. \A k \in 1 .. Len(events') : k \in 1 .. Len(events) \/ k = Len(events')
          BY <1>4, <2>2 DEF TableTypeOK
        <4>2. \A k \in 1 .. Len(events') : Watched(events'[k].disk)
          BY <2>1, <2>2, <4>1 DEF TableInv, Queue
        <4> QED
          BY <1>2, <4>2 DEF Watched
      <3>2. Listening'
        BY <1>2, <2>1 DEF Listening
      <3>3. phase = "remove" => events' # <<>> /\ events'[1] = events[1]
        <4>1. ASSUME phase = "remove" PROVE events' # <<>> /\ events'[1] = events[1]
          <5>1. events # <<>> /\ events \in Seq([action : {"add", "remove"}, disk : Disk])
            BY <1>4, <4>1 DEF TableInv, Queue, TableTypeOK
          <5>2. 1 \in 1 .. Len(events)
            BY <5>1
          <5> QED
            BY <2>2, <5>1, <5>2
        <4> QED
          BY <4>1
      <3> QED
        BY <1>2, <3>1, <3>2, <3>3 DEF TableInv, Queue
    <2> QED
      BY <1>3, <2>3, <2>4, WholeInv
  <1>7. CASE MakeNode(d)
    <2>1. d \in plugged /\ nodes' \subseteq nodes \cup Nodes(d)
          /\ UNCHANGED <<plugged, events, plugs, seen>>
      BY <1>7 DEF MakeNode
    <2>2. TableTypeOK'
      <3>1. nodes' \subseteq start.there \cup UNION {Nodes(e) : e \in plugged}
        BY <1>4, <2>1 DEF TableTypeOK
      <3> QED
        BY <1>2, <1>4, <2>1, <3>1 DEF TableTypeOK, seen
    <2>3. Queue'
      BY <1>2, <2>1 DEF TableInv, Queue, Watched, Listening
    <2> QED
      BY <1>3, <2>2, <2>3, WholeInv
  <1>8. CASE Unplug(d)
    <2>1. /\ Listening /\ Watched(d) /\ plugs < MaxPlugs /\ plugged' = plugged \ {d}
          /\ nodes' = nodes \ Nodes(d)
          /\ events' = Append(events, Uevent("remove", d)) /\ plugs' = plugs + 1
          /\ UNCHANGED seen
      BY <1>4, <1>8 DEF Unplug, TableTypeOK
    <2>2. events' \in Seq([action : {"add", "remove"}, disk : Disk])
          /\ Len(events') = Len(events) + 1 /\ events'[Len(events')].disk = d
          /\ \A k \in 1 .. Len(events) : events'[k] = events[k]
      <3>1. Uevent("remove", d) \in [action : {"add", "remove"}, disk : Disk]
            /\ Uevent("remove", d).disk = d
        BY DEF Uevent
      <3>2. events \in Seq([action : {"add", "remove"}, disk : Disk])
        BY <1>4 DEF TableTypeOK
      <3> QED
        BY <2>1, <3>1, <3>2
    <2>3. TableTypeOK'
      <3>1. nodes' \subseteq start.there \cup UNION {Nodes(e) : e \in plugged'}
        BY <1>4, <2>1 DEF TableTypeOK
      <3>2. plugs' \in 0 .. MaxPlugs
        BY <1>4, <1>5, <2>1 DEF TableTypeOK
      <3>3. stuck' = stuck /\ shared' = shared /\ late' = late
        BY <2>1 DEF seen
      <3> QED
        BY <1>2, <1>4, <2>1, <2>2, <3>1, <3>2, <3>3 DEF TableTypeOK
    <2>4. Queue'
      <3>1. \A k \in 1 .. Len(events') : Watched(events[k].disk)'
        <4>1. \A k \in 1 .. Len(events') : k \in 1 .. Len(events) \/ k = Len(events')
          BY <1>4, <2>2 DEF TableTypeOK
        <4>2. \A k \in 1 .. Len(events') : Watched(events'[k].disk)
          BY <2>1, <2>2, <4>1 DEF TableInv, Queue
        <4> QED
          BY <1>2, <4>2 DEF Watched
      <3>2. Listening'
        BY <1>2, <2>1 DEF Listening
      <3>3. phase = "remove" => events' # <<>> /\ events'[1] = events[1]
        <4>1. ASSUME phase = "remove" PROVE events' # <<>> /\ events'[1] = events[1]
          <5>1. events # <<>> /\ events \in Seq([action : {"add", "remove"}, disk : Disk])
            BY <1>4, <4>1 DEF TableInv, Queue, TableTypeOK
          <5>2. 1 \in 1 .. Len(events)
            BY <5>1
          <5> QED
            BY <2>2, <5>1, <5>2
        <4> QED
          BY <4>1
      <3> QED
        BY <1>2, <3>1, <3>2, <3>3 DEF TableInv, Queue
    <2> QED
      BY <1>3, <2>3, <2>4, WholeInv
  <1> QED
    BY <1>6, <1>7, <1>8

-----------------------------------------------------------------------------
(***************************************************************************)
(* The steps after the setup.                                              *)
(***************************************************************************)
\* What a search of entry i makes of a table: its devices stay, and every node
\* of the disk behind the entry has an entry.
Searched(T, U, i) ==
    /\ Len(T) <= Len(U)
    /\ \A j \in 1 .. Len(T) : /\ U[j].mount = T[j].mount /\ U[j].sub = T[j].sub
                              /\ U[j].sysfs = T[j].sysfs /\ U[j].dev = T[j].dev
    /\ \A j \in Len(T) + 1 .. Len(U) :
          /\ U[j].sub = T[i].mount /\ U[j].sysfs = None /\ U[j].mount.part = j - Len(T)
          /\ T[i].wild /\ T[i].dev \in Disk /\ U[j].dev \in PartsOf[T[i].dev] \cap nodes
    /\ T[i].wild /\ T[i].dev \in Disk => \A node \in PartsOf[T[i].dev] \cap nodes :
          \E j \in 1 .. Len(U) : U[j].dev = node

\* An entry has the node it is found by as its device.
LEMMA DeviceIs ==
    ASSUME NEW B, NEW p, EntryOK(p, B), NEW node \in Parts, node \in {p.dev, p.actual}
    PROVE  p.dev = node /\ IsChild(p)
  <1>1. node # None /\ node \notin Disk
    BY DiskAssumption
  <1>2. CASE IsChild(p)
    BY <1>2 DEF EntryOK, ChildOK
  <1>3. CASE ~IsChild(p)
    <2>1. FileOK(p, B)
      BY <1>3 DEF EntryOK
    <2>2. p.dev = node
      BY <1>1, <2>1 DEF FileOK
    <2>3. p.dev \notin Parts
      BY <1>1, <2>1, <2>2 DEF FileOK
    <2> QED
      BY <2>2, <2>3
  <1> QED
    BY <1>2, <1>3

\* What searching for the device of an entry finds.
LEMMA LocatedFinds ==
    ASSUME NEW B, NEW T \in Seq(Entries), TableOK(T, B), NEW i \in 1 .. Len(T),
           NEW found \in Find_Wildcard_Block_Devices(T[i], T),
           NEW U, U = Located(T, i, found)
    PROVE  Searched(T, U, i)
  <1> DEFINE p == T[i]
             n == Len(T)
  <1>1. p \in Entries /\ EntryOK(p, B) /\ n \in Nat
    BY DEF TableOK
  <1>2. p.dev \in Disk \/ ~p.wild \/ p.dev = None
    BY <1>1 DEF EntryOK, ChildOK, FileOK
  <1>3. /\ U \in Seq(Entries) /\ found \in Seq(Text) /\ Len(U) = n + Len(found)
        /\ \A j \in 1 .. n : j # i => U[j] = T[j]
        /\ Refound(U[i], p)
        /\ \A k \in 1 .. Len(found) : NewChild(U[n + k], p, found[k], k)
    BY <1>1, LocatedIs
  <1>4. /\ \A k \in 1 .. Len(found) :
              /\ p.wild /\ p.dev \in Disk /\ found[k] \in PartsOf[p.dev] \cap nodes
        /\ p.wild /\ p.dev # None => \A node \in PartsOf[p.dev] \cap nodes :
                 \/ Find_Partition_By_Block_Device(T, node)
                 \/ \E k \in 1 .. Len(found) : found[k] = node
    BY <1>1, <1>2, Searching
  <1>5. n <= Len(U) /\ Len(found) \in Nat
    BY <1>1, <1>3
  <1>6. ASSUME NEW j \in 1 .. n
        PROVE  /\ U[j].mount = T[j].mount /\ U[j].sub = T[j].sub
               /\ U[j].sysfs = T[j].sysfs /\ U[j].dev = T[j].dev
    BY <1>3 DEF Refound, Same
  <1>7. ASSUME NEW j \in n + 1 .. Len(U)
        PROVE  /\ U[j].sub = p.mount /\ U[j].sysfs = None /\ U[j].mount.part = j - n
               /\ p.wild /\ p.dev \in Disk /\ U[j].dev \in PartsOf[p.dev] \cap nodes
    <2>1. j - n \in 1 .. Len(found) /\ n + (j - n) = j /\ j - n \in Nat
      BY <1>1, <1>3, <1>5
    <2>2. NewChild(U[j], p, found[j - n], j - n)
      BY <1>3, <2>1
    <2>3. p.mount \in Paths
      BY <1>1 DEF Entries
    <2>4. Numbered(p.mount, j - n).part = j - n
      BY <2>1, <2>3, NumberedIs
    <2> QED
      BY <1>4, <2>1, <2>2, <2>4 DEF NewChild
  <1>8. ASSUME p.wild, p.dev \in Disk, NEW node \in PartsOf[p.dev] \cap nodes
        PROVE  \E j \in 1 .. Len(U) : U[j].dev = node
    <2>1. node \in Parts /\ p.dev # None
      BY <1>8, DiskAssumption DEF Parts
    <2>2. CASE Find_Partition_By_Block_Device(T, node)
      <3>1. PICK j \in 1 .. n : node \in {T[j].dev, T[j].actual}
        BY <2>2 DEF Find_Partition_By_Block_Device
      <3>2. EntryOK(T[j], B)
        BY DEF TableOK
      <3>3. T[j].dev = node
        BY <2>1, <3>1, <3>2, DeviceIs
      <3>4. j \in 1 .. Len(U)
        BY <1>1, <1>3, <1>5
      <3> QED
        BY <1>6, <3>3, <3>4
    <2>3. CASE \E k \in 1 .. Len(found) : found[k] = node
      <3>1. PICK k \in 1 .. Len(found) : found[k] = node
        BY <2>3
      <3>2. U[n + k].dev = node
        BY <1>3, <3>1 DEF NewChild
      <3>3. n + k \in 1 .. Len(U)
        BY <1>1, <1>3, <1>5
      <3> QED
        BY <3>2, <3>3
    <2> QED
      BY <1>4, <1>8, <2>1, <2>2, <2>3
  <1> QED
    BY <1>5, <1>6, <1>7, <1>8 DEF Searched

\* A search of an entry of the table, by Update_Size.
LEMMA SizeUpdated ==
    ASSUME TableInv, NEW i \in DOMAIN Partitions, Update_Size(i)
    PROVE  /\ Partitions' \in Seq(Entries) /\ TableOK(Partitions', Buses)
           /\ Grew(Partitions, Partitions') /\ Searched(Partitions, Partitions', i)
  <1>1. Partitions \in Seq(Entries) /\ TableOK(Partitions, Buses)
    BY DEF TableInv, TableTypeOK
  <1>2. PICK found \in Find_Wildcard_Block_Devices(Partitions[i], Partitions) :
             Partitions' = Located(Partitions, i, found)
    BY DEF Update_Size
  <1>3. i \in 1 .. Len(Partitions)
    BY <1>1
  <1> QED
    BY <1>1, <1>2, <1>3, LocatedOK, LocatedFinds

\* The steps that leave the table.
LEMMA GoOnStep ==
    ASSUME TableInv, \/ Refresh \/ setup_uevent \/ Coldboot \/ Remove_Uevent_Devices
                     \/ \E m \in DOMAIN mounts : UnMount(m)
    PROVE  TableInv'
  <1>1. /\ start' = start /\ pos' = pos /\ UNCHANGED <<Partitions, pointers, storages>>
        /\ nodes' = nodes /\ plugged' = plugged /\ plugs' = plugs
        /\ stuck' = stuck /\ shared' = shared /\ late' = late
        /\ phase \in AfterSetup /\ phase' \in AfterSetup
    BY DEF Refresh, setup_uevent, Coldboot, Remove_Uevent_Devices, UnMount, world, seen, AfterSetup
  <1>2. /\ Partitions' = Partitions
        /\ data_entry' = data_entry /\ meta_entry' = meta_entry /\ auto_index' = auto_index
        /\ storageid' = storageid /\ settings' = settings
    BY <1>1 DEF pointers, storages
  <1>3. Inside'
    BY <1>1, LaterSame
  <1>4. TableTypeOK /\ Queue
    BY DEF TableInv
  <1>5. events \in Seq([action : {"add", "remove"}, disk : Disk])
    BY <1>4 DEF TableTypeOK
  <1>6. TableTypeOK' /\ Queue'
    <2>1. CASE Refresh
      <3>1. UNCHANGED <<world, seen>> /\ phase = "ready" /\ phase' = "refresh"
        BY <2>1 DEF Refresh
      <3>2. events' = events /\ mounts' = mounts
        BY <3>1 DEF world, seen
      <3>3. TableTypeOK'
        BY <1>1, <1>2, <1>4, <3>1, <3>2 DEF TableTypeOK
      <3>4. Queue'
        BY <1>2, <1>4, <3>1, <3>2 DEF Queue, Listening, Watched
      <3> QED
        BY <3>3, <3>4
    <2>2. CASE setup_uevent
      <3>1. UNCHANGED <<world, seen>> /\ phase = "bind" /\ phase' = "coldboot"
        BY <2>2 DEF setup_uevent
      <3>2. events' = events /\ mounts' = mounts
        BY <3>1 DEF world, seen
      <3>3. TableTypeOK'
        BY <1>1, <1>2, <1>4, <3>1, <3>2 DEF TableTypeOK
      <3>4. Queue'
        BY <1>2, <1>4, <3>1, <3>2 DEF Queue, Listening, Watched
      <3> QED
        BY <3>3, <3>4
    <2>3. CASE Coldboot
      <3> DEFINE S == {d \in plugged : Watched(d)}
      <3>1. UNCHANGED seen /\ phase = "coldboot" /\ phase' = "ready"
        BY <2>3 DEF Coldboot
      <3>2. PICK disks \in SetToSeqs(S) :
                 events' = events \o [k \in DOMAIN disks |-> Uevent("add", disks[k])]
        BY <2>3 DEF Coldboot
      <3>3. disks \in Seq(S)
        <4>1. IsFiniteSet(S)
          <5>1. S \subseteq Disk
            BY <1>4 DEF TableTypeOK
          <5> QED
            BY <5>1, DiskAssumption, FS_Subset
        <4>2. Cardinality(S) \in Nat
          BY <4>1, FS_CardinalityType
        <4>3. disks \in [1 .. Cardinality(S) -> S]
          BY DEF SetToSeqs
        <4> DEFINE n == Cardinality(S)
        <4>4. n \in Nat /\ disks \in [1 .. n -> S]
          BY <4>2, <4>3
        <4> HIDE DEF n, S
        <4> QED
          BY <4>4
      <3> DEFINE new == [k \in DOMAIN disks |-> Uevent("add", disks[k])]
      <3>4. /\ new \in Seq([action : {"add", "remove"}, disk : Disk]) /\ Len(new) = Len(disks)
            /\ \A k \in 1 .. Len(new) : Watched(new[k].disk)
        <4>1. \A k \in 1 .. Len(disks) : /\ disks[k] \in Disk /\ Watched(disks[k])
          BY <1>4, <3>3 DEF TableTypeOK
        <4>2. \A k \in 1 .. Len(disks) :
                 /\ Uevent("add", disks[k]) \in [action : {"add", "remove"}, disk : Disk]
                 /\ Uevent("add", disks[k]).disk = disks[k]
          BY <4>1 DEF Uevent
        <4>3. DOMAIN disks = 1 .. Len(disks) /\ Len(disks) \in Nat
          BY <3>3
        <4> HIDE DEF S
        <4>4. new \in [1 .. Len(disks) -> [action : {"add", "remove"}, disk : Disk]]
          BY <4>2, <4>3
        <4>5. Len(new) = Len(disks)
          BY <4>3, <4>4
        <4>6. \A k \in 1 .. Len(new) : new[k] = Uevent("add", disks[k])
          BY <4>3, <4>5
        <4> QED
          BY <4>1, <4>2, <4>3, <4>4, <4>5, <4>6
      <3> HIDE DEF new
      <3>5. /\ events' \in Seq([action : {"add", "remove"}, disk : Disk])
            /\ \A k \in 1 .. Len(events') : Watched(events'[k].disk)
        <4>1. events' = events \o new
          BY <3>2 DEF new
        <4>2. /\ events' \in Seq([action : {"add", "remove"}, disk : Disk])
              /\ Len(events') = Len(events) + Len(new)
              /\ \A k \in 1 .. Len(events) + Len(new) :
                    events'[k] = IF k <= Len(events) THEN events[k] ELSE new[k - Len(events)]
          BY <1>5, <3>4, <4>1, ConcatProperties
        <4>3. ASSUME NEW k \in 1 .. Len(events') PROVE Watched(events'[k].disk)
          <5>1. CASE k <= Len(events)
            <6>1. k \in 1 .. Len(events) /\ events'[k] = events[k]
              BY <1>5, <3>4, <4>2, <5>1
            <6> QED
              BY <1>4, <6>1 DEF Queue
          <5>2. CASE ~(k <= Len(events))
            <6>1. k - Len(events) \in 1 .. Len(new) /\ events'[k] = new[k - Len(events)]
              BY <1>5, <3>4, <4>2, <5>2
            <6> QED
              BY <3>4, <6>1
          <5> QED
            BY <5>1, <5>2
        <4> QED
          BY <4>2, <4>3
      <3>6. TableTypeOK'
        BY <1>1, <1>2, <1>4, <3>1, <3>5 DEF TableTypeOK, seen
      <3>7. Queue'
        <4>1. \A k \in 1 .. Len(events') : Watched(events[k].disk)'
          BY <1>2, <3>5 DEF Watched
        <4> QED
          BY <3>1, <4>1 DEF Queue, Listening
      <3> QED
        BY <3>6, <3>7
    <2>4. CASE Remove_Uevent_Devices
      <3>1. UNCHANGED seen /\ phase = "remove" /\ phase' = "ready" /\ events' = Tail(events)
        BY <2>4 DEF Remove_Uevent_Devices
      <3>2. events # <<>>
        BY <1>4, <3>1 DEF Queue
      <3>3. /\ events' \in Seq([action : {"add", "remove"}, disk : Disk])
            /\ \A k \in 1 .. Len(events') : k + 1 \in 1 .. Len(events) /\ events'[k] = events[k + 1]
        BY <1>5, <3>1, <3>2
      <3>4. TableTypeOK'
        BY <1>1, <1>2, <1>4, <3>1, <3>3 DEF TableTypeOK, seen
      <3>5. Queue'
        <4>1. \A k \in 1 .. Len(events') : Watched(events'[k].disk)
          BY <1>4, <3>3 DEF Queue
        <4>2. \A k \in 1 .. Len(events') : Watched(events[k].disk)'
          BY <1>2, <4>1 DEF Watched
        <4> QED
          BY <3>1, <4>2 DEF Queue, Listening
      <3> QED
        BY <3>4, <3>5
    <2>5. CASE \E m \in DOMAIN mounts : UnMount(m)
      <3>1. PICK m \in DOMAIN mounts : UnMount(m)
        BY <2>5
      <3>2. /\ phase = "ready" /\ phase' = phase /\ events' = events
            /\ mounts' = Without(mounts, {m})
        BY <3>1 DEF UnMount, world
      <3>3. DOMAIN mounts' \subseteq DOMAIN mounts /\ mounts' = [k \in DOMAIN mounts' |-> mounts'[k]]
        BY <3>2 DEF Without
      <3>4. TableTypeOK'
        BY <1>1, <1>2, <1>4, <3>2, <3>3 DEF TableTypeOK
      <3>5. Queue'
        BY <1>2, <1>4, <3>2 DEF Queue, Listening, Watched
      <3> QED
        BY <3>4, <3>5
    <2> QED
      BY <2>1, <2>2, <2>3, <2>4, <2>5
  <1> QED
    BY <1>3, <1>6, WholeInv

\* Queue, when the devices and buses stay.
LEMMA QueueKeeps ==
    ASSUME TableInv, NEW U \in Seq(Entries), U = Partitions',
           Len(Partitions) <= Len(U),
           \A j \in 1 .. Len(Partitions) :
               U[j].sysfs = Partitions[j].sysfs /\ U[j].dev = Partitions[j].dev,
           \A j \in Len(Partitions) + 1 .. Len(U) : U[j].sysfs = None,
           events' = events, (Listening <=> Listening'), phase' # "remove",
           ~Listening => mounts' = mounts
    PROVE  Queue'
  <1>1. Partitions \in Seq(Entries) /\ Queue
    BY DEF TableInv, TableTypeOK
  <1>2. \A j \in 1 .. Len(U) : j \in 1 .. Len(Partitions) \/ j \in Len(Partitions) + 1 .. Len(U)
    BY <1>1
  <1>3. \A k \in 1 .. Len(events) : Watched(events[k].disk)'
    <2>1. ASSUME NEW k \in 1 .. Len(events) PROVE Watched(events[k].disk)'
      <3>1. PICK i \in 1 .. Len(Partitions) : Partitions[i].sysfs = BusOf[events[k].disk]
        BY <1>1 DEF Queue, Watched
      <3>2. i \in 1 .. Len(U) /\ U[i].sysfs = BusOf[events[k].disk]
        BY <1>1, <3>1
      <3> QED
        BY <3>2 DEF Watched
    <2> QED
      BY <2>1
  <1>4. ~Listening => \A j \in 1 .. Len(U) : U[j].sysfs # None => U[j].dev = None
    BY <1>1, <1>2 DEF Queue
  <1> QED
    BY <1>1, <1>3, <1>4 DEF Queue

\* The steps that search, and the fstab that is written.
LEMMA SearchStep ==
    ASSUME TableInv, \/ UpdateOne \/ Update_System_Details
                     \/ \E i \in DOMAIN Partitions : Mount(i)
    PROVE  TableInv'
  <1> DEFINE T == Partitions
             U == Partitions'
  <1>1. /\ start' = start /\ UNCHANGED <<pointers, storages, world>>
        /\ stuck' = stuck /\ shared' = shared /\ late' = late
        /\ phase \in {"update", "refresh", "ready"} /\ pos' \in Nat
        /\ \/ phase' = phase
           \/ phase = "update" /\ phase' = "bind"
           \/ phase = "refresh" /\ phase' = "ready"
        /\ phase = "update" => mounts' = mounts
    <2>1. pos \in Nat
      BY DEF TableInv, TableTypeOK
    <2>2. CASE UpdateOne
      BY <2>1, <2>2 DEF UpdateOne, seen
    <2>3. CASE Update_System_Details
      BY <2>3 DEF Update_System_Details, seen
    <2>4. CASE \E i \in DOMAIN T : Mount(i)
      BY <2>1, <2>4 DEF Mount
    <2> QED
      BY <2>2, <2>3, <2>4
  <1>2. /\ data_entry' = data_entry /\ meta_entry' = meta_entry /\ auto_index' = auto_index
        /\ storageid' = storageid /\ settings' = settings /\ events' = events
        /\ nodes' = nodes /\ plugged' = plugged /\ plugs' = plugs
    BY <1>1 DEF pointers, storages, world
  <1>3. T \in Seq(Entries) /\ TableOK(T, Buses) /\ TableTypeOK
    BY DEF TableInv, TableTypeOK
  <1>4. /\ U \in Seq(Entries) /\ TableOK(U, Buses) /\ Grew(T, U) /\ Len(T) <= Len(U)
        /\ \A j \in 1 .. Len(T) : U[j].sysfs = T[j].sysfs /\ U[j].dev = T[j].dev
        /\ \A j \in Len(T) + 1 .. Len(U) : U[j].sysfs = None
    <2>1. CASE UpdateOne
      <3>1. pos + 1 \in DOMAIN T /\ Update_Size(pos + 1)
        BY <1>3, <2>1 DEF UpdateOne, TableTypeOK
      <3> QED
        BY <3>1, SizeUpdated DEF Searched
    <2>2. CASE Update_System_Details
      <3>1. U = Write_Fstab(T)
        BY <2>2 DEF Update_System_Details
      <3>2. U \in Seq(Entries) /\ TableOK(U, Buses) /\ Grew(T, U) /\ Steady(T, U)
        BY <1>3, <3>1, WriteOK
      <3>3. Len(U) = Len(T) /\ Len(T) \in Nat
        BY <1>3, <3>2 DEF Steady
      <3> QED
        BY <3>2, <3>3 DEF Steady
    <2>3. CASE \E i \in DOMAIN T : Mount(i)
      <3>1. PICK i \in DOMAIN T : Update_Size(i)
        BY <2>3 DEF Mount
      <3> QED
        BY <3>1, SizeUpdated DEF Searched
    <2> QED
      BY <2>1, <2>2, <2>3
  <1>5. phase \in AfterSetup /\ phase' \in AfterSetup /\ (Listening <=> Listening')
        /\ phase' # "remove" /\ (~Listening => mounts' = mounts)
    BY <1>1 DEF AfterSetup, Listening
  <1>6. Inside'
    BY <1>1, <1>4, <1>5, LaterGrew
  <1>7. Queue'
    BY <1>2, <1>4, <1>5, QueueKeeps
  <1>8. DOMAIN mounts' \subseteq Paths /\ mounts' = [m \in DOMAIN mounts' |-> mounts'[m]]
    <2>1. CASE mounts' = mounts
      BY <1>3, <2>1 DEF TableTypeOK
    <2>2. CASE mounts' # mounts
      <3>1. PICK i \in DOMAIN T : Mount(i)
        BY <2>2 DEF UpdateOne, Update_System_Details, seen
      <3>2. mounts' = [m \in DOMAIN mounts \cup {U[i].mount} |->
                          IF m = U[i].mount THEN U[i].actual ELSE mounts[m]]
        BY <2>2, <3>1 DEF Mount
      <3>3. U[i] \in Entries
        BY <1>3, <1>4
      <3>4. U[i].mount \in Paths
        BY <3>3 DEF Entries
      <3> QED
        BY <1>3, <3>2, <3>4 DEF TableTypeOK
    <2> QED
      BY <2>1, <2>2
  <1>9. TableTypeOK'
    BY <1>1, <1>2, <1>3, <1>4, <1>5, <1>8 DEF TableTypeOK, AfterSetup
  <1> QED
    BY <1>6, <1>7, <1>9, WholeInv

\* The device of entry i comes or goes.
Behind(T, U, i, dev) ==
    /\ Len(U) = Len(T)
    /\ \A j \in 1 .. Len(T) : /\ U[j].mount = T[j].mount /\ U[j].sub = T[j].sub
                              /\ U[j].sysfs = T[j].sysfs
                              /\ U[j].dev = IF j = i THEN dev ELSE T[j].dev

\* A bus has its disk or none.
LEMMA BehindOK ==
    ASSUME NEW B, NEW T \in Seq(Entries), TableOK(T, B), NEW i \in 1 .. Len(T),
           T[i].sysfs # None, NEW p \in Entries, Same(p, T[i]),
           \/ p.dev \in Disk /\ BusOf[p.dev] = p.sysfs
           \/ p.dev = None /\ ~p.present,
           p.actual \in {None, T[i].actual},
           NEW U, U = [T EXCEPT ![i] = p]
    PROVE  /\ U \in Seq(Entries) /\ TableOK(U, B) /\ Grew(T, U) /\ Behind(T, U, i, p.dev)
  <1>1. /\ U \in Seq(Entries) /\ Len(U) = Len(T) /\ U[i] = p /\ Len(T) \in Nat
        /\ \A j \in 1 .. Len(T) : j # i => U[j] = T[j]
    BY ExceptSeq
  <1>2. EntryOK(T[i], B) /\ ~IsChild(T[i])
    BY DEF TableOK, EntryOK, ChildOK
  <1>3. FileOK(T[i], B)
    BY <1>2 DEF EntryOK
  <1>4. ~IsChild(p) /\ FromBus(p, B)
    BY <1>2, <1>3 DEF Same, IsChild, FileOK, FromBus
  <1>a. T[i].actual \in {None, T[i].dev} \cup Disk /\ (T[i].dev # None => T[i].dev \in Disk)
    BY <1>3 DEF FileOK
  <1>5. FileOK(p, B)
    <2>1. p.actual \in {None, p.dev} \cup Disk
      BY <1>a
    <2>2. p.dev = None => ~p.present
      BY DiskAssumption
    <2>3. p.dev # None => p.dev \in Disk /\ BusOf[p.dev] = p.sysfs
      OBVIOUS
    <2> QED
      BY <1>3, <1>4, <2>1, <2>2, <2>3 DEF FileOK, Same
  <1>6. ASSUME NEW j \in 1 .. Len(T) PROVE Kept(U[j], T[j]) /\ EntryOK(U[j], B)
    <2>1. CASE j = i
      BY <1>1, <1>2, <1>4, <1>5, <2>1 DEF Kept, Same, EntryOK
    <2>2. CASE j # i
      BY <1>1, <2>2 DEF Kept, TableOK
    <2> QED
      BY <2>1, <2>2
  <1>7. TableOK(U, B)
    BY <1>1, <1>6, KeptOK
  <1>8. ASSUME NEW j \in 1 .. Len(T)
        PROVE  Same(U[j], T[j]) /\ (T[j].sysfs = None => U[j].dev = T[j].dev)
    <2>1. CASE j = i
      BY <1>1, <2>1
    <2>2. CASE j # i
      BY <1>1, <2>2 DEF Same
    <2> QED
      BY <2>1, <2>2
  <1>9. Grew(T, U)
    <2>1. Len(T) <= Len(U) /\ \A j \in Len(T) + 1 .. Len(U) : FALSE
      BY <1>1
    <2> QED
      BY <1>8, <2>1 DEF Grew
  <1>10. Behind(T, U, i, p.dev)
    BY <1>1, <1>8 DEF Behind, Same
  <1> QED
    BY <1>1, <1>7, <1>9, <1>10

\* A table that grew from one that grew in place has grown.
LEMMA GrewAfter ==
    ASSUME NEW P, NEW T, NEW U, Grew(P, T), Len(T) = Len(P), Len(P) \in Nat, Grew(T, U)
    PROVE  Grew(P, U)
  <1>1. ASSUME NEW j \in 1 .. Len(P)
        PROVE  Same(U[j], P[j]) /\ (P[j].sysfs = None => U[j].dev = P[j].dev)
    BY DEF Grew, Same
  <1>2. ASSUME NEW j \in Len(P) + 1 .. Len(U)
        PROVE  \E h \in 1 .. Len(P), k \in Nat \ {0} : P[h].wild /\ NewChild(U[j], P[h], U[j].dev, k)
    <2>1. PICK h \in 1 .. Len(T), k \in Nat \ {0} : T[h].wild /\ NewChild(U[j], T[h], U[j].dev, k)
      BY <1>2 DEF Grew
    <2>2. Same(T[h], P[h]) /\ h \in 1 .. Len(P)
      BY <2>1 DEF Grew
    <2>3. P[h].wild /\ NewChild(U[j], P[h], U[j].dev, k)
      BY <2>1, <2>2 DEF Same, NewChild
    <2> QED
      BY <2>2, <2>3
  <1>3. Len(P) <= Len(U)
    BY DEF Grew
  <1> QED
    BY <1>1, <1>2, <1>3 DEF Grew

\* The first event, and its entry.
LEMMA HeadIs ==
    ASSUME TableInv, NEW action, Event(action) \/ phase = "remove"
    PROVE  /\ events # <<>> /\ Head(events) = events[1] /\ Len(events) \in Nat \ {0}
           /\ events[1].disk \in Disk /\ Watched(events[1].disk)
           /\ events[1].action = IF phase = "remove" THEN "remove" ELSE action
           /\ Entry(Head(events)) \in 1 .. Len(Partitions)
           /\ Partitions[Entry(Head(events))].sysfs = BusOf[events[1].disk]
           /\ BusOf[events[1].disk] # None
  <1>1. events # <<>> /\ events \in Seq([action : {"add", "remove"}, disk : Disk])
        /\ Partitions \in Seq(Entries)
    BY DEF Event, TableInv, Queue, TableTypeOK
  <1>2. Head(events) = events[1] /\ Len(events) \in Nat \ {0} /\ 1 \in 1 .. Len(events)
        /\ events[1] \in [action : {"add", "remove"}, disk : Disk]
    <2> DEFINE S == [action : {"add", "remove"}, disk : Disk]
    <2>1. events \in Seq(S) /\ events # <<>>
      BY <1>1
    <2> HIDE DEF S
    <2>2. Len(events) \in Nat \ {0} /\ Head(events) = events[1]
      BY <2>1
    <2>3. 1 \in 1 .. Len(events) /\ events[1] \in S
      BY <2>1, <2>2
    <2> QED
      BY <2>2, <2>3 DEF S
  <1>3. events[1].disk \in Disk /\ Watched(events[1].disk)
    BY <1>2 DEF TableInv, Queue
  <1>4. events[1].action = IF phase = "remove" THEN "remove" ELSE action
    BY <1>2 DEF Event, TableInv, Queue
  <1>5. /\ Entry(Head(events)) \in DOMAIN Partitions
        /\ Partitions[Entry(Head(events))].sysfs = BusOf[events[1].disk]
    BY <1>1, <1>2, <1>3, EntryIs
  <1>6. BusOf[events[1].disk] # None
    BY <1>3, DiskAssumption
  <1> QED
    BY <1>1, <1>2, <1>3, <1>4, <1>5, <1>6

\* Handle_Uevent of "add" puts the disk behind its entry, and searches it.
LEMMA AddIs ==
    ASSUME TableInv, HandleAdd, NEW i, i = Entry(Head(events))
    PROVE  /\ Partitions' \in Seq(Entries) /\ TableOK(Partitions', Buses)
           /\ Grew(Partitions, Partitions')
           /\ \E T \in Seq(Entries) : /\ TableOK(T, Buses) /\ T[i].wild
                                      /\ Behind(Partitions, T, i, Head(events).disk)
                                      /\ Searched(T, Partitions', i)
  <1> DEFINE P == Partitions
             d == Head(events).disk
             p == [P[i] EXCEPT !.dev = d, !.present = TRUE]
             T == [P EXCEPT ![i] = p]
  <1>1. /\ events # <<>> /\ d \in Disk /\ i \in 1 .. Len(P) /\ P[i].sysfs = BusOf[d]
        /\ BusOf[d] # None
    BY HeadIs DEF HandleAdd
  <1>2. P \in Seq(Entries) /\ TableOK(P, Buses)
    BY DEF TableInv, TableTypeOK
  <1>3. P[i] \in Entries /\ d \in Text
    BY <1>1, <1>2, DiskAssumption
  <1>4. p \in Entries /\ Same(p, P[i]) /\ p.dev = d /\ p.actual = P[i].actual /\ p.sysfs = BusOf[d]
    BY <1>1, <1>3 DEF Entries, Same
  <1>5. T = [P EXCEPT ![i].dev = d, ![i].present = TRUE]
    BY <1>1, <1>2
  <1>6. PICK found \in Find_Wildcard_Block_Devices(T[i], T) : Partitions' = Located(T, i, found)
    BY <1>5 DEF HandleAdd
  <1> HIDE DEF p, T
  <1>7. /\ T \in Seq(Entries) /\ TableOK(T, Buses) /\ Grew(P, T) /\ Behind(P, T, i, d)
    BY <1>1, <1>2, <1>4, BehindOK DEF T
  <1>8. i \in 1 .. Len(T) /\ Len(T) = Len(P) /\ Len(P) \in Nat
    BY <1>1, <1>2, <1>7 DEF Behind
  <1>9. /\ Partitions' \in Seq(Entries) /\ TableOK(Partitions', Buses)
        /\ Grew(T, Partitions') /\ Searched(T, Partitions', i)
    BY <1>6, <1>7, <1>8, LocatedOK, LocatedFinds
  <1>10. Grew(P, Partitions')
    BY <1>7, <1>8, <1>9, GrewAfter
  <1>11. T[i].wild
    <2>1. EntryOK(T[i], Buses) /\ T[i].sysfs # None
      BY <1>1, <1>7, <1>8 DEF TableOK, Behind
    <2> QED
      BY <2>1 DEF EntryOK, ChildOK, FileOK
  <1> QED
    BY <1>7, <1>9, <1>10, <1>11

\* Handle_Uevent of "remove" takes the device of the entry.
LEMMA RemoveIs ==
    ASSUME TableInv, HandleRemove, NEW i, i = Entry(Head(events))
    PROVE  /\ Partitions' \in Seq(Entries) /\ TableOK(Partitions', Buses)
           /\ Grew(Partitions, Partitions') /\ Behind(Partitions, Partitions', i, None)
  <1> DEFINE P == Partitions
             p == Emptied(P[i])
  <1>1. i \in 1 .. Len(P) /\ P[i].sysfs # None
    BY HeadIs DEF HandleRemove
  <1>2. P \in Seq(Entries) /\ TableOK(P, Buses)
    BY DEF TableInv, TableTypeOK
  <1>3. P[i] \in Entries /\ None \in Text
    BY <1>1, <1>2, PathsAre
  <1>4. p \in Entries /\ Same(p, P[i]) /\ p.dev = None /\ ~p.present /\ p.actual = None
    BY <1>3 DEF Entries, Same, Emptied
  <1>5. Partitions' = [P EXCEPT ![i] = p]
    BY DEF HandleRemove
  <1> HIDE DEF p
  <1> QED
    BY <1>1, <1>2, <1>4, <1>5, BehindOK

\* What is erased was found on the disk that was pulled out.
LEMMA EraseOneIs ==
    ASSUME TableInv, EraseOne
    PROVE  LET P == Partitions
               i == Leftover IN
           /\ i \in 1 .. Len(P) /\ IsChild(P[i])
           /\ P[i].sub = P[Entry(Head(events))].mount
           /\ Partitions' = RemoveAt(P, i)
           /\ Partitions' \in Seq(Entries) /\ TableOK(Partitions', Buses)
           /\ Len(Partitions') = Len(P) - 1
           /\ \A j \in 1 .. Len(Partitions') : \E h \in 1 .. Len(P) :
                 h # i /\ Partitions'[j] = P[h] /\ h = Before(j, i)
           /\ \A h \in 1 .. Len(P) : h # i => \E j \in 1 .. Len(Partitions') :
                 Partitions'[j] = P[h] /\ j = After(h, i)
  <1> DEFINE P == Partitions
             i == Leftover
             m == P[Entry(Head(events))].mount
             I == {j \in 1 .. Len(P) : P[j].sub = m}
  <1>1. P \in Seq(Entries) /\ TableOK(P, Buses) /\ i # 0 /\ Partitions' = RemoveAt(P, i)
        /\ phase = "remove"
    BY DEF TableInv, TableTypeOK, EraseOne
  <1>2. i = IF I # {} THEN Min(I) ELSE 0
    BY DEF Leftover, SelectInSeq
  <1>3. I \in SUBSET Nat /\ I # {}
    BY <1>1, <1>2
  <1>4. Min(I) \in I
    BY <1>3, MinIsLeast
  <1>5. i \in 1 .. Len(P) /\ P[i].sub = m
    BY <1>2, <1>3, <1>4
  <1>6. Entry(Head(events)) \in 1 .. Len(P) /\ P[Entry(Head(events))].sysfs # None
    BY <1>1, HeadIs
  <1>7. IsChild(P[i])
    <2>1. SUFFICES ASSUME ~IsChild(P[i]) PROVE FALSE
      OBVIOUS
    <2>2. EntryOK(P[Entry(Head(events))], Buses) /\ EntryOK(P[i], Buses)
      BY <1>1, <1>5, <1>6 DEF TableOK
    <2>3. FileOK(P[Entry(Head(events))], Buses) /\ FileOK(P[i], Buses)
      BY <1>6, <2>1, <2>2 DEF EntryOK, ChildOK
    <2> QED
      BY <1>5, <1>6, <2>3, NoSub
  <1> HIDE DEF i
  <1>8. Partitions' \in Seq(Entries) /\ TableOK(Partitions', Buses)
    BY <1>1, <1>5, CutIs, CutOK
  <1>9. /\ Len(Partitions') = Len(P) - 1
        /\ \A j \in 1 .. Len(Partitions') : \E h \in 1 .. Len(P) :
                 h # i /\ Partitions'[j] = P[h] /\ h = Before(j, i)
        /\ \A h \in 1 .. Len(P) : h # i => \E j \in 1 .. Len(Partitions') :
                 Partitions'[j] = P[h] /\ j = After(h, i)
    BY <1>1, <1>5, CutIs
  <1> QED
    BY <1>1, <1>5, <1>7, <1>8, <1>9 DEF i

\* The steps of the hot-plug that change the table.
LEMMA HandleAddStep ==
    ASSUME TableInv, HandleAdd
    PROVE  TableInv'
  <1> DEFINE P == Partitions
             U == Partitions'
             i == Entry(Head(events))
             S == [action : {"add", "remove"}, disk : Disk]
  <1>1. /\ phase = "ready" /\ phase' = phase /\ start' = start /\ pos' = pos
        /\ UNCHANGED <<pointers, storages>> /\ events' = Tail(events) /\ mounts' = mounts
        /\ nodes' = nodes /\ plugged' = plugged /\ plugs' = plugs
        /\ stuck' = stuck /\ shared' = shared /\ late' \in BOOLEAN
    BY DEF HandleAdd, Event, TableInv, TableTypeOK
  <1>2. /\ data_entry' = data_entry /\ meta_entry' = meta_entry /\ auto_index' = auto_index
        /\ storageid' = storageid /\ settings' = settings
    BY <1>1 DEF pointers, storages
  <1>3. /\ U \in Seq(Entries) /\ TableOK(U, Buses) /\ Grew(P, U)
    BY AddIs
  <1>4. Inside'
    BY <1>1, <1>3, LaterGrew DEF AfterSetup
  <1>5. TableTypeOK /\ events \in Seq(S) /\ events # <<>> /\ P \in Seq(Entries)
    BY HeadIs DEF TableInv, TableTypeOK, HandleAdd
  <1> HIDE DEF S
  <1>6. /\ events' \in Seq(S)
        /\ \A k \in 1 .. Len(events') : k + 1 \in 1 .. Len(events) /\ events'[k] = events[k + 1]
    BY <1>1, <1>5
  <1>7. TableTypeOK'
    BY <1>1, <1>2, <1>3, <1>5, <1>6 DEF TableTypeOK, S
  <1>8. Queue'
    <2>1. ASSUME NEW k \in 1 .. Len(events') PROVE Watched(events[k].disk)'
      <3>1. Watched(events'[k].disk)
        BY <1>6 DEF TableInv, Queue
      <3>2. PICK j \in 1 .. Len(P) : P[j].sysfs = BusOf[events'[k].disk]
        BY <1>5, <3>1 DEF Watched
      <3>3. j \in 1 .. Len(U) /\ U[j].sysfs = P[j].sysfs
        BY <1>3, <1>5 DEF Grew, Same
      <3> QED
        BY <1>3, <3>2, <3>3 DEF Watched
    <2> QED
      BY <1>1, <2>1 DEF Queue, Listening
  <1> QED
    BY <1>4, <1>7, <1>8, WholeInv

\* Handle_Uevent on a removal keeps the invariant.
LEMMA HandleRemoveStep ==
    ASSUME TableInv, HandleRemove
    PROVE  TableInv'
  <1> DEFINE P == Partitions
             U == Partitions'
             i == Entry(Head(events))
  <1>1. /\ phase = "ready" /\ phase' = "remove" /\ start' = start /\ pos' = pos
        /\ UNCHANGED <<pointers, storages, world, seen>>
    BY DEF HandleRemove, Event
  <1>2. /\ data_entry' = data_entry /\ meta_entry' = meta_entry /\ auto_index' = auto_index
        /\ storageid' = storageid /\ settings' = settings /\ events' = events /\ mounts' = mounts
    BY <1>1 DEF pointers, storages, world, seen
  <1>3. /\ U \in Seq(Entries) /\ TableOK(U, Buses) /\ Grew(P, U) /\ Behind(P, U, i, None)
    BY RemoveIs
  <1>4. Inside'
    BY <1>1, <1>3, LaterGrew DEF AfterSetup
  <1>5. TableTypeOK /\ P \in Seq(Entries) /\ TableOK(P, Buses)
    BY DEF TableInv, TableTypeOK
  <1>6. TableTypeOK'
    BY <1>1, <1>2, <1>3, <1>5 DEF TableTypeOK, world, seen
  <1>7. /\ events # <<>> /\ events[1].action = "remove" /\ i \in 1 .. Len(P)
        /\ P[i].sysfs = BusOf[events[1].disk] /\ P[i].sysfs # None
    BY <1>1, HeadIs DEF HandleRemove
  <1>8. Queue'
    <2>1. ASSUME NEW k \in 1 .. Len(events') PROVE Watched(events[k].disk)'
      <3>1. Watched(events[k].disk)
        BY <1>2 DEF TableInv, Queue
      <3>2. PICK j \in 1 .. Len(P) : P[j].sysfs = BusOf[events[k].disk]
        BY <1>5, <3>1 DEF Watched
      <3>3. j \in 1 .. Len(U) /\ U[j].sysfs = P[j].sysfs
        BY <1>3, <1>5 DEF Behind
      <3> QED
        BY <1>2, <1>3, <3>2, <3>3 DEF Watched
    <2>2. ASSUME NEW j \in 1 .. Len(U), U[j].sysfs = BusOf[events[1].disk]
          PROVE  U[j].dev = None
      <3>1. j \in 1 .. Len(P) /\ P[j].sysfs = P[i].sysfs
        BY <1>3, <1>7, <2>2 DEF Behind
      <3>2. j = i
        BY <1>5, <1>7, <3>1 DEF TableOK, Apart
      <3> QED
        BY <1>3, <3>1, <3>2 DEF Behind
    <2> QED
      BY <1>1, <1>2, <1>7, <2>1, <2>2 DEF Queue, Listening
  <1> QED
    BY <1>4, <1>6, <1>8, WholeInv

\* Erasing one entry of a disk that is gone keeps the invariant.
LEMMA EraseStep ==
    ASSUME TableInv, EraseOne
    PROVE  TableInv'
  <1> DEFINE P == Partitions
             U == Partitions'
             i == Leftover
  <1>1. /\ phase = "remove" /\ phase' = phase /\ start' = start /\ pos' = pos
        /\ UNCHANGED <<pointers, storages, world, shared, late>>
        /\ stuck' \in BOOLEAN
    <2>1. stuck \in BOOLEAN
      BY DEF TableInv, TableTypeOK
    <2> QED
      BY <2>1 DEF EraseOne
  <1>2. /\ data_entry' = data_entry /\ meta_entry' = meta_entry /\ auto_index' = auto_index
        /\ storageid' = storageid /\ settings' = settings /\ events' = events
    BY <1>1 DEF pointers, storages, world
  <1>3. /\ i \in 1 .. Len(P) /\ IsChild(P[i]) /\ U = RemoveAt(P, i)
        /\ U \in Seq(Entries) /\ TableOK(U, Buses)
        /\ \A j \in 1 .. Len(U) : \E h \in 1 .. Len(P) : h # i /\ U[j] = P[h]
        /\ \A h \in 1 .. Len(P) : h # i => \E j \in 1 .. Len(U) : U[j] = P[h]
    BY EraseOneIs
  <1> HIDE DEF i
  <1>4. TableTypeOK /\ P \in Seq(Entries) /\ TableOK(P, Buses) /\ Queue
    BY DEF TableInv, TableTypeOK
  <1>5. /\ Ids(P) => Ids(U)
        /\ \A s : Default(P, s) => Default(U, s)
        /\ \A dev : SaysData(P, dev) => SaysData(U, dev)
    BY <1>3, <1>4, CutKeeps
  <1>6. Inside'
    BY <1>1, <1>3, <1>5, Later DEF AfterSetup
  <1>7. DOMAIN mounts' \subseteq Paths /\ mounts' = [m \in DOMAIN mounts' |-> mounts'[m]]
    <2>1. CASE mounts' = mounts
      BY <1>4, <2>1 DEF TableTypeOK
    <2>2. CASE mounts' # mounts
      <3>1. mounts' = Without(mounts, {P[Leftover].mount})
        BY <2>2 DEF EraseOne
      <3> QED
        BY <1>4, <3>1 DEF Without, TableTypeOK
    <2> QED
      BY <2>1, <2>2
  <1>8. TableTypeOK'
    BY <1>1, <1>2, <1>3, <1>4, <1>7 DEF TableTypeOK, world
  <1>9. Queue'
    <2>1. ASSUME NEW k \in 1 .. Len(events') PROVE Watched(events[k].disk)'
      <3>1. Watched(events[k].disk)
        BY <1>2, <1>4 DEF Queue
      <3>2. PICK h \in 1 .. Len(P) : P[h].sysfs = BusOf[events[k].disk]
        BY <1>4, <3>1 DEF Watched
      <3> DEFINE S == [action : {"add", "remove"}, disk : Disk]
      <3>3. events \in Seq(S)
        BY <1>4 DEF TableTypeOK
      <3> HIDE DEF S
      <3>a. k \in 1 .. Len(events)
        BY <1>2
      <3>4. events[k] \in S
        BY <3>3, <3>a
      <3>5. BusOf[events[k].disk] # None
        BY <3>4, DiskAssumption DEF S
      <3>6. h # i
        BY <1>3, <1>4, <3>2, <3>5 DEF TableOK, EntryOK, ChildOK
      <3>7. PICK j \in 1 .. Len(U) : U[j] = P[h]
        BY <1>3, <3>6
      <3> QED
        BY <1>2, <1>3, <3>2, <3>7 DEF Watched
    <2>2. ASSUME NEW j \in 1 .. Len(U), U[j].sysfs = BusOf[events[1].disk]
          PROVE  U[j].dev = None
      <3>1. PICK h \in 1 .. Len(P) : U[j] = P[h]
        BY <1>3
      <3>2. P[h].sysfs = BusOf[events[1].disk]
        BY <2>2, <3>1
      <3>3. P[h].dev = None
        BY <1>1, <1>4, <3>2 DEF Queue
      <3> QED
        BY <3>1, <3>3
    <2> QED
      BY <1>1, <1>2, <1>4, <2>1, <2>2 DEF Queue, Listening
  <1> QED
    BY <1>6, <1>8, <1>9, WholeInv

\* A step of the rest of the program keeps the invariant.
LEMMA TableStays == TableInv /\ UNCHANGED tableVars => TableInv'
  <1> SUFFICES ASSUME TableInv, UNCHANGED tableVars PROVE TableInv'
    OBVIOUS
  <1>1. UNCHANGED <<start, phase, pos, Partitions, pointers, storages, world, seen>>
    BY DEF tableVars
  <1>2. Inside'
    BY <1>1, Stays
  <1>3. TableTypeOK' /\ Queue'
    BY <1>1 DEF TableInv, TableTypeOK, Queue, world, seen, pointers, storages, Watched, Listening
  <1> QED
    BY <1>2, <1>3, WholeInv

\* Every step keeps the invariant.
LEMMA TableStep == TableInv /\ [TableNext]_tableVars => TableInv'
  <1> SUFFICES ASSUME TableInv, [TableNext]_tableVars PROVE TableInv'
    OBVIOUS
  <1> QED
    BY LineStep, EndStep, SetupStep, GoOnStep, SearchStep, HandleAddStep, HandleRemoveStep,
       EraseStep, WorldStep, TableStays DEF TableNext

\* The default storage is the one with the settings.
LEMMA DefaultIs ==
    ASSUME Partitions \in Seq(Entries), Default(Partitions, settings)
    PROVE  Get_Default_Storage_Partition = settings
  <1> DEFINE P == Partitions
             F == {j \in 1 .. Len(P) : P[j].storage /\ P[j].settings}
             S == {j \in 1 .. Len(P) : P[j].storage}
             flagged == IF F # {} THEN Min(F) ELSE 0
             first == IF S # {} THEN Min(S) ELSE 0
             res == IF flagged # 0 THEN flagged ELSE first
  <1>1. /\ SelectInSeq(P, LAMBDA p : p.storage /\ p.settings) = flagged
        /\ SelectInSeq(P, LAMBDA p : p.storage) = first
    BY DEF SelectInSeq
  <1>2. Get_Default_Storage_Partition = IF res = 0 THEN NoPath ELSE P[res].mount
    BY <1>1 DEF Get_Default_Storage_Partition
  <1>3. F \in SUBSET Nat /\ S \in SUBSET Nat
    OBVIOUS
  <1>4. CASE Flagged(P, settings)
    <2>1. PICK i \in 1 .. Len(P) : /\ P[i].settings /\ P[i].storage /\ P[i].mount = settings
                                   /\ \A j \in 1 .. Len(P) : P[j].settings => j = i
      BY <1>4 DEF Flagged
    <2>2. i \in F /\ \A j \in F : j = i
      BY <2>1
    <2>3. Min(F) \in F
      BY <1>3, <2>2, MinIsLeast
    <2>4. flagged = i /\ i # 0
      BY <2>2, <2>3
    <2> HIDE DEF flagged, first
    <2>5. res = i
      BY <2>4
    <2> QED
      BY <1>2, <2>1, <2>4, <2>5
  <1>5. CASE FirstOne(P, settings)
    <2>1. PICK i \in 1 .. Len(P) : /\ P[i].storage /\ P[i].mount = settings
                                   /\ \A j \in 1 .. i - 1 : ~P[j].storage
      BY <1>5 DEF FirstOne
    <2>2. F = {}
      BY <1>5 DEF FirstOne
    <2>3. i \in S /\ Min(S) \in S /\ Min(S) <= i
      BY <1>3, <2>1, MinIsLeast
    <2>4. Min(S) = i
      <3>1. Min(S) \in 1 .. Len(P) /\ ~(Min(S) \in 1 .. i - 1)
        BY <2>1, <2>3
      <3> QED
        BY <2>1, <2>3, <3>1
    <2>5. flagged = 0 /\ first = i /\ i # 0
      BY <2>2, <2>3, <2>4
    <2> HIDE DEF flagged, first
    <2> QED
      BY <1>2, <2>1, <2>5
  <1>6. CASE NoStorage(P, settings)
    <2>1. F = {} /\ S = {} /\ settings = NoPath
      BY <1>6 DEF NoStorage
    <2>2. flagged = 0 /\ first = 0
      BY <2>1
    <2> HIDE DEF flagged, first
    <2> QED
      BY <1>2, <2>1, <2>2
  <1> QED
    BY <1>4, <1>5, <1>6 DEF Default

\* The invariant implies TableSound.
LEMMA InvIsSound == TableInv => TableSound
  <1> SUFFICES ASSUME TableInv PROVE TableSound
    OBVIOUS
  <1> DEFINE P == Partitions
             files == {i \in DOMAIN P : ~IsChild(P[i])}
  <1>1. TableTypeOK /\ P \in Seq(Entries) /\ TableOK(P, Buses)
    BY DEF TableInv, TableTypeOK
  <1> SUFFICES ASSUME phase \in {"bind", "coldboot", "ready", "remove", "refresh"}
      PROVE  /\ \A i, j \in files : i # j => P[i].mount # P[j].mount
             /\ \A k \in DOMAIN start.vendor :
                   LET l == start.vendor[k] IN
                   (/\ LastAboutData(k) /\ l.mount = "data" /\ l.fs = "files"
                    /\ DataIn(start.fstab) \/ ~DataIn(start.flags))
                      => \E i \in files : P[i].mount = Data /\ P[i].dev = l.dev
             /\ \A i, j \in files : P[i].storage =>
                   P[i].id # 0 /\ (i # j => P[i].id # P[j].id)
             /\ Get_Default_Storage_Partition = settings
    BY <1>1 DEF TableSound
  <1>2. phase \in AfterSetup /\ phase \notin Reads
    BY DEF AfterSetup, Reads
  <1>3. Ids(P) /\ Default(P, settings)
    BY <1>2 DEF TableInv, Storages
  <1>4. \A i \in files : i \in 1 .. Len(P) /\ ~IsChild(P[i])
    BY <1>1
  <1>5. \A i, j \in files : i # j => P[i].mount # P[j].mount
    BY <1>1, <1>4 DEF TableOK, Apart
  <1>6. ASSUME NEW k \in DOMAIN start.vendor, LastAboutData(k), start.vendor[k].mount = "data",
               start.vendor[k].fs = "files", DataIn(start.fstab) \/ ~DataIn(start.flags)
        PROVE  \E i \in files : P[i].mount = Data /\ P[i].dev = start.vendor[k].dev
    <2>1. start.found /\ \A m \in k + 1 .. Len(start.vendor) : About(start.vendor[m]) # Data
      BY <1>6 DEF LastAboutData
    <2>2. VendorSays(P, Len(start.vendor))
      BY <1>2, <2>1 DEF TableInv, Vendor
    <2>3. start.vendor \in Seq(Lines)
      BY <1>1, StartOK DEF TableTypeOK, Starts
    <2>4. k \in 1 .. Len(start.vendor)
      BY <2>3
    <2>5. SaysData(P, start.vendor[k].dev)
      BY <1>6, <2>1, <2>2, <2>4 DEF VendorSays
    <2>6. PICK i \in 1 .. Len(P) : P[i].mount = Data /\ P[i].dev = start.vendor[k].dev
      BY <2>5 DEF SaysData
    <2>7. ~IsChild(P[i])
      BY <2>6 DEF IsChild, Data, Path
    <2> QED
      BY <1>1, <2>6, <2>7
  <1>7. \A i, j \in files : P[i].storage => P[i].id # 0 /\ (i # j => P[i].id # P[j].id)
    BY <1>3, <1>4 DEF Ids
  <1>8. Get_Default_Storage_Partition = settings
    BY <1>1, <1>3, DefaultIs
  <1> HIDE DEF files
  <1> QED
    BY <1>5, <1>6, <1>7, <1>8

\* TableSound, for every text, disk and start the assumptions allow: from
\* the end of the parse on, whatever is plugged in and pulled out, the
\* entries of the lines have mount points of their own, /data is on the
\* device the vendor's last line about it gives, each MTP storage has an id
\* of its own that is not zero, and the settings are on the storage
\* Get_Default_Storage_Path finds (Process_Fstab, Setup_Settings_Storage,
\* Handle_Uevent and Remove_Uevent_Devices of partitionmanager.cpp).
THEOREM TableIsSound == TableSpec => []TableSound
  <1>1. TableSpec => []TableInv
    BY TableStarts, TableStep, PTL DEF TableSpec
  <1> QED
    BY <1>1, InvIsSound, PTL

=============================================================================
