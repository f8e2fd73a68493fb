--------------------------- MODULE UsbStorageProofs ---------------------------
(***************************************************************************)
(* Proofs about UsbStorage, for any storages in any order, any faults that *)
(* come together and any number of operations: what the MTP server serves  *)
(* is mounted, what mass storage was switched on with is not, and every    *)
(* killed server that is left stands for a child reaped in its place.  Each operation is a sequence of steps, and the invariant is    *)
(* about its first step, given which steps may follow which.               *)
(***************************************************************************)
EXTENDS UsbStorage, SequenceTheorems, WellFoundedInduction, TLAPS

(***************************************************************************)
(* Sequences of steps                                                      *)
(***************************************************************************)
AStep == [do : Kind, s : Storage \cup {None}, l : 0..2]

\* The steps about a storage, and those of Open_Lun_File.
AboutStorage == {"mount", "mount all", "add", "add all", "remove", "umount",
                 "erase", "select", "lun"}
Opens(a) == a.do \in {"remove", "umount", "lun"} /\ a.l < 2

\* A step by itself, given the lun files there are.
Fit(a, files) ==
    /\ a \in AStep
    /\ a.do \in AboutStorage => a.s \in Storage
    /\ a.do \in AboutStorage \ {"remove", "umount", "lun"} => a.l = 2
    /\ a.do \in {"lun", "clear"} => a.l < 2
    /\ a.do \in {"kill", "wait", "adb", "export", "unexport"} => a.l = 2
    /\ a.do = "start" => a.l # 0
    /\ Opens(a) => a.l \in files

SamePlace(a, b) == a.s = b.s /\ a.l = b.l

\* b may follow a.
Follows(a, b) ==
    \/ a.do = "kill" /\ b.do = "wait"
    \/ a.do \in {"wait", "adb"} /\ b.do = "select"
    \/ a.do = "remove" /\ b.do = "umount" /\ SamePlace(a, b)
    \/ a.do = "umount" /\ b.do = "lun" /\ SamePlace(a, b)
    \/ a.do \in {"remove", "umount"} /\ b.do = "erase" /\ SamePlace(a, b)
    \/ a.do = "lun" /\ (b.do = "export" \/ (b.do = "remove" /\ b.l = 1))
    \/ a.do = "erase" /\ b.do \in {"mount", "add"}
    \/ a.do = "mount" /\ b.do \in {"mount", "add"}
    \/ a.do = "mount" /\ b.do = "remove" /\ b.l = 2
    \/ a.do = "mount all" /\ b.do \in {"mount all", "add all", "unexport"}
    \/ a.do = "add all" /\ b.do = "mount all"

\* No operation ends with these.
MayEnd(a) == a.do # "kill" /\ ~Opens(a)

\* A part of an operation, and one that is its end.
Part(t, files) ==
    /\ t \in Seq(AStep)
    /\ \A k \in 1..Len(t) : Fit(t[k], files)
    /\ \A k \in 1..Len(t) - 1 : Follows(t[k], t[k + 1])

End(t, files) == Part(t, files) /\ (t # <<>> => MayEnd(t[Len(t)]))

Luns == IF luns THEN {0, 1} ELSE {0}

(***************************************************************************)
(* The invariant                                                           *)
(***************************************************************************)
Served == \A s \in Storage : WillServe(s) => s \in mounted

\* The step under way comes after those it relies on.
Ready ==
    /\ Steps("umount") \/ Steps("erase") => ~WillServe(This.s)
    /\ Steps("lun") => This.s \notin mounted
    /\ Steps("wait") => mtppid = None

\* A lun file is about to be opened, or mass storage to be switched on.
ToLun(t) == t # <<>> /\ (Head(t).do = "export" \/ Opens(Head(t)))

\* From the first lun file to the end of mass storage, nothing mounts what was
\* written.
LunsApart ==
    ToLun(todo) \/ (ums_enabled /\ (Idle \/ Steps("clear"))) =>
        \A l \in fresh : lun[l] \notin mounted

\* While mass storage is on, what runs is its end, which goes on to "unexport".
Reclaims(t) ==
    /\ t # <<>> /\ t[Len(t)].do = "unexport"
    /\ \A k \in 1..Len(t) : t[k].do \in {"mount all", "unexport"}
UmsEnds == ums_enabled => Idle \/ Steps("clear") \/ Reclaims(todo)

\* Killed servers that are not waited for: each stands for another child that
\* was reaped.
Lost == IF Steps("wait") THEN zombies - 1 ELSE zombies
Zombies == Lost = stolen

IInv ==
    /\ TypeOK
    /\ End(todo, Luns)
    /\ Served /\ Ready
    /\ LunsApart /\ UmsEnds
    /\ Zombies

-----------------------------------------------------------------------------
(***************************************************************************)
(* Facts about sequences of steps                                          *)
(***************************************************************************)
\* What is left of an operation after its first step.
LEMMA TailEnd ==
    ASSUME NEW t, NEW files, End(t, files), t # <<>>
    PROVE  /\ End(Tail(t), files)
           /\ Fit(Head(t), files)
           /\ Tail(t) # <<>> => Follows(Head(t), Head(Tail(t)))
           /\ Tail(t) = <<>> => MayEnd(Head(t))
<1>. DEFINE u == Tail(t)
<1>1. /\ t \in Seq(AStep) /\ Len(t) \in Nat \ {0}
      /\ u \in Seq(AStep) /\ Len(u) = Len(t) - 1
      /\ \A k \in 1..Len(u) : u[k] = t[k + 1]
      /\ Head(t) = t[1]
  BY DEF End, Part
<1>2. \A k \in 1..Len(u) : Fit(u[k], files)
  BY <1>1 DEF End, Part
<1>3. \A k \in 1..Len(u) - 1 : Follows(u[k], u[k + 1])
  <2>. SUFFICES ASSUME NEW k \in 1..Len(u) - 1 PROVE Follows(u[k], u[k + 1])
    OBVIOUS
  <2>1. u[k] = t[k + 1] /\ u[k + 1] = t[k + 2] /\ k + 1 \in 1..Len(t) - 1 /\ (k + 1) + 1 = k + 2
    BY <1>1
  <2>. QED
    BY <2>1 DEF End, Part
<1>4. u # <<>> => MayEnd(u[Len(u)])
  <2>. SUFFICES ASSUME u # <<>> PROVE MayEnd(u[Len(u)])
    OBVIOUS
  <2>1. Len(u) \in 1..Len(u) /\ u[Len(u)] = t[Len(t)]
    BY <1>1
  <2>. QED
    BY <2>1 DEF End
<1>5. u # <<>> => Follows(Head(t), Head(u))
  <2>. SUFFICES ASSUME u # <<>> PROVE Follows(Head(t), Head(u))
    OBVIOUS
  <2>1. Head(u) = t[2] /\ 1 \in 1..Len(t) - 1 /\ 1 + 1 = 2
    BY <1>1
  <2>. QED
    BY <1>1, <2>1 DEF End, Part
<1>6. u = <<>> => MayEnd(Head(t))
  <2>. SUFFICES ASSUME u = <<>> PROVE MayEnd(Head(t))
    OBVIOUS
  <2>1. Len(t) = 1
    BY <1>1
  <2>. QED
    BY <1>1, <2>1 DEF End
<1>7. Fit(Head(t), files)
  BY <1>1 DEF End, Part
<1>. QED
  BY <1>1, <1>2, <1>3, <1>4, <1>5, <1>6, <1>7 DEF End, Part

\* Parts are joined where the one's last step may be followed by the other's first.
LEMMA JoinedParts ==
    ASSUME NEW t, NEW u, NEW files, Part(t, files), Part(u, files), u # <<>>,
           t # <<>> => Follows(t[Len(t)], u[1])
    PROVE  /\ Part(t \o u, files) /\ t \o u # <<>>
           /\ (t \o u)[Len(t \o u)] = u[Len(u)]
           /\ t # <<>> => Head(t \o u) = t[1] /\ (t \o u)[1] = t[1]
<1>. DEFINE v == t \o u
<1>1. /\ t \in Seq(AStep) /\ u \in Seq(AStep) /\ v \in Seq(AStep)
      /\ Len(t) \in Nat /\ Len(u) \in Nat \ {0} /\ Len(v) = Len(t) + Len(u)
      /\ \A k \in 1..Len(t) : v[k] = t[k]
      /\ \A k \in 1..Len(u) : v[Len(t) + k] = u[k]
  BY DEF Part
<1>2. ASSUME NEW k \in 1..Len(v) PROVE Fit(v[k], files)
  <2>1. CASE k <= Len(t)
    BY <1>1, <2>1 DEF Part
  <2>2. CASE k > Len(t)
    <3>1. k - Len(t) \in 1..Len(u) /\ v[k] = u[k - Len(t)]
      <4>1. k - Len(t) \in 1..Len(u) /\ Len(t) + (k - Len(t)) = k
        BY <1>1, <2>2
      <4>. QED
        BY <1>1, <4>1
    <3>. QED
      BY <3>1 DEF Part
  <2>. QED
    BY <1>1, <2>1, <2>2
<1>3. ASSUME NEW k \in 1..Len(v) - 1 PROVE Follows(v[k], v[k + 1])
  <2>1. CASE k < Len(t)
    <3>1. k \in 1..Len(t) - 1 /\ v[k] = t[k] /\ v[k + 1] = t[k + 1]
      BY <1>1, <2>1
    <3>. QED
      BY <3>1 DEF Part
  <2>2. CASE k = Len(t)
    <3>1. v[k] = t[Len(t)] /\ v[k + 1] = u[1] /\ t # <<>>
      BY <1>1, <2>2
    <3>. QED
      BY <3>1
  <2>3. CASE k > Len(t)
    <3>. DEFINE j == k - Len(t)
    <3>1. j \in 1..Len(u) - 1 /\ Len(t) + j = k /\ Len(t) + (j + 1) = k + 1
      BY <1>1, <2>3
    <3>2. v[k] = u[j] /\ v[k + 1] = u[j + 1]
      BY <1>1, <3>1
    <3>. QED
      BY <3>1, <3>2 DEF Part
  <2>. QED
    BY <1>1, <2>1, <2>2, <2>3
<1>4. v # <<>> /\ v[Len(v)] = u[Len(u)]
  BY <1>1
<1>5. t # <<>> => Head(v) = t[1] /\ v[1] = t[1]
  BY <1>1
<1>. QED
  BY <1>1, <1>2, <1>3, <1>4, <1>5 DEF Part

LEMMA Joined ==
    ASSUME NEW t, NEW u, NEW files, Part(t, files), End(u, files), u # <<>>,
           t # <<>> => Follows(t[Len(t)], u[1])
    PROVE  /\ End(t \o u, files) /\ t \o u # <<>>
           /\ t # <<>> => Head(t \o u) = t[1]
<1>1. Part(u, files) /\ MayEnd(u[Len(u)])
  BY DEF End
<1>. QED
  BY <1>1, JoinedParts DEF End

\* Short parts.
LEMMA OneStep ==
    ASSUME NEW a, NEW files, Fit(a, files)
    PROVE  /\ Part(<<a>>, files) /\ (MayEnd(a) => End(<<a>>, files))
           /\ <<a>> # <<>> /\ Head(<<a>>) = a /\ Tail(<<a>>) = <<>>
  BY DEF Part, End, Fit

LEMMA TwoSteps ==
    ASSUME NEW a, NEW b, NEW files, Fit(a, files), Fit(b, files), Follows(a, b)
    PROVE  Part(<<a, b>>, files) /\ (MayEnd(b) => End(<<a, b>>, files))
<1>1. <<a, b>> \in Seq(AStep)
  BY DEF Fit
<1>. QED
  BY <1>1 DEF Part, End

LEMMA ThreeSteps ==
    ASSUME NEW a, NEW b, NEW c, NEW files, Fit(a, files), Fit(b, files), Fit(c, files),
           Follows(a, b), Follows(b, c)
    PROVE  Part(<<a, b, c>>, files) /\ (MayEnd(c) => End(<<a, b, c>>, files))
<1>1. <<a, b, c>> \in Seq(AStep)
  BY DEF Fit
<1>2. \A k \in 1..3 : Fit(<<a, b, c>>[k], files)
  OBVIOUS
<1>3. \A k \in 1..2 : Follows(<<a, b, c>>[k], <<a, b, c>>[k + 1])
  OBVIOUS
<1>. QED
  BY <1>1, <1>2, <1>3 DEF Part, End

-----------------------------------------------------------------------------
(***************************************************************************)
(* What the server will serve                                              *)
(***************************************************************************)
\* Nothing, when it is gone.
LEMMA NothingServed ==
    ASSUME pipe = <<>>, served = {}, NEW s PROVE ~WillServe(s)
  BY DEF WillServe

\* Reading a message does not change it.
LEMMA ServeKeeps ==
    ASSUME TypeOK, Serve, NEW s PROVE WillServe(s)' => WillServe(s)
<1>. SUFFICES ASSUME WillServe(s)' PROVE WillServe(s)
  OBVIOUS
<1>. DEFINE Message == {"add", "remove"} \X Storage
<1>0. pipe \in Seq(Message)
  BY DEF TypeOK
<1>. HIDE DEF Message
<1>1. /\ pipe # <<>> /\ pipe' = Tail(pipe)
      /\ served' = IF pipe[1][1] = "add" THEN served \cup {pipe[1][2]}
                   ELSE served \ {pipe[1][2]}
      /\ Len(pipe) \in Nat \ {0} /\ Len(pipe') = Len(pipe) - 1
      /\ \A k \in 1..Len(pipe') : pipe'[k] = pipe[k + 1]
  <2>1. pipe # <<>> /\ pipe' = Tail(pipe)
    BY DEF Serve
  <2>2. Head(pipe) = pipe[1]
    BY <1>0, <2>1
  <2>3. /\ Len(pipe) \in Nat \ {0} /\ Len(pipe') = Len(pipe) - 1
        /\ \A k \in 1..Len(pipe') : pipe'[k] = pipe[k + 1]
    BY <1>0, <2>1
  <2>. QED
    BY <2>1, <2>2, <2>3 DEF Serve
<1>2. ASSUME NEW k \in 0..Len(pipe'), Stays(s, k)'
      PROVE  Stays(s, k + 1)
  <2>. SUFFICES ASSUME NEW j \in k + 2..Len(pipe) PROVE pipe[j] # <<"remove", s>>
    BY <1>1 DEF Stays
  <2>1. j - 1 \in k + 1..Len(pipe') /\ (j - 1) + 1 = j /\ j - 1 \in 1..Len(pipe')
    BY <1>1
  <2>2. pipe'[j - 1] = pipe[j]
    BY <1>1, <2>1
  <2>. QED
    BY <1>2, <2>1, <2>2 DEF Stays
<1>3. CASE \E k \in 1..Len(pipe') : pipe'[k] = <<"add", s>> /\ Stays(s, k)'
  <2>1. PICK k \in 1..Len(pipe') : pipe'[k] = <<"add", s>> /\ Stays(s, k)'
    BY <1>3
  <2>2. Stays(s, k + 1)
    BY <1>1, <1>2, <2>1
  <2>. QED
    BY <1>1, <2>1, <2>2 DEF WillServe
<1>4. CASE s \in served' /\ Stays(s, 0)'
  <2>1. Stays(s, 1)
    <3>1. 0 \in 0..Len(pipe') /\ 0 + 1 = 1
      BY <1>1
    <3>. QED
      BY <1>2, <1>4, <3>1
  <2>2. CASE pipe[1] = <<"add", s>>
    BY <1>1, <2>1, <2>2 DEF WillServe
  <2>3. CASE pipe[1] # <<"add", s>>
    <3>1. pipe[1] \in {"add", "remove"} \X Storage
      BY <1>0, <1>1 DEF Message
    <3>2. s \in served /\ pipe[1] # <<"remove", s>>
      BY <1>1, <1>4, <2>3, <3>1
    <3>3. Stays(s, 0)
      BY <1>1, <2>1, <3>2 DEF Stays
    <3>. QED
      BY <3>2, <3>3 DEF WillServe
  <2>. QED
    BY <2>2, <2>3
<1>. QED
  BY <1>3, <1>4 DEF WillServe

\* A message that is sent changes it for its storage only.
LEMMA Sent ==
    ASSUME TypeOK, NEW what \in {"add", "remove"}, NEW a \in Storage, NEW s,
           pipe' = Append(pipe, <<what, a>>), served' = served, WillServe(s)'
    PROVE  IF what = "add" THEN WillServe(s) \/ s = a ELSE WillServe(s) /\ s # a
<1>1. /\ pipe \in Seq({"add", "remove"} \X Storage)
      /\ Len(pipe) \in Nat /\ Len(pipe') = Len(pipe) + 1
      /\ \A k \in 1..Len(pipe) : pipe'[k] = pipe[k]
      /\ pipe'[Len(pipe')] = <<what, a>>
  <2>. DEFINE Message == {"add", "remove"} \X Storage
  <2>1. pipe \in Seq(Message) /\ <<what, a>> \in Message
    BY DEF TypeOK
  <2>. HIDE DEF Message
  <2>2. /\ Len(pipe) \in Nat /\ Len(pipe') = Len(pipe) + 1
        /\ \A k \in 1..Len(pipe) : pipe'[k] = pipe[k]
        /\ pipe'[Len(pipe')] = <<what, a>>
    BY <2>1
  <2>. QED
    BY <2>1, <2>2 DEF Message
<1>2. ASSUME NEW k \in 0..Len(pipe), Stays(s, k)'
      PROVE  Stays(s, k) /\ <<what, a>> # <<"remove", s>>
  <2>1. \A j \in k + 1..Len(pipe) : j \in k + 1..Len(pipe') /\ pipe'[j] = pipe[j]
    BY <1>1
  <2>2. Len(pipe') \in k + 1..Len(pipe')
    BY <1>1
  <2>. QED
    BY <1>1, <1>2, <2>1, <2>2 DEF Stays
<1>3. CASE s \in served' /\ Stays(s, 0)'
  BY <1>1, <1>2, <1>3 DEF WillServe
<1>4. CASE \E k \in 1..Len(pipe') : pipe'[k] = <<"add", s>> /\ Stays(s, k)'
  <2>1. PICK k \in 1..Len(pipe') : pipe'[k] = <<"add", s>> /\ Stays(s, k)'
    BY <1>4
  <2>2. CASE k <= Len(pipe)
    BY <1>1, <1>2, <2>1, <2>2 DEF WillServe
  <2>3. CASE k = Len(pipe')
    BY <1>1, <2>1, <2>3
  <2>. QED
    BY <1>1, <2>2, <2>3
<1>. QED
  BY <1>3, <1>4 DEF WillServe

LEMMA SameServed ==
    ASSUME pipe' = pipe, served' = served, NEW s PROVE WillServe(s)' <=> WillServe(s)
  BY DEF WillServe, Stays

-----------------------------------------------------------------------------
(***************************************************************************)
(* The invariant holds initially                                           *)
(***************************************************************************)
LEMMA Initially == Init => IInv
<1>. SUFFICES ASSUME Init PROVE IInv
  OBVIOUS
<1>. USE PartitionsAssumption DEF Init
<1>1. TypeOK
  <2>1. DataMedia \subseteq Storage /\ Removable \subseteq Storage /\ present \subseteq Storage
        /\ mounted \subseteq Storage
    OBVIOUS
  <2>2. pipe \in Seq({"add", "remove"} \X Storage) /\ todo \in Seq(AStep)
    OBVIOUS
  <2>3. lun \in [{0, 1} -> Storage \cup {None}]
    OBVIOUS
  <2>4. ops \in 0..MaxOps /\ faulty \in Faults /\ fresh \subseteq {0, 1} /\ other \in {"none", "alive", "zombie"}
    OBVIOUS
  <2>5. luns \in BOOLEAN /\ ums_enabled \in BOOLEAN /\ tw_mtp_enabled \in BOOLEAN
        /\ mtp_was_enabled \in BOOLEAN /\ mtp_write_fd \in BOOLEAN
    OBVIOUS
  <2>. QED
    BY <2>1, <2>2, <2>3, <2>4, <2>5 DEF TypeOK, AStep
<1>2. End(todo, Luns)
  BY DEF End, Part
<1>3. Served /\ Ready
  BY NothingServed DEF Served, Ready, Steps
<1>4. LunsApart /\ UmsEnds
  BY DEF LunsApart, UmsEnds
<1>5. Zombies
  BY DEF Zombies, Lost, Steps
<1>. QED
  BY <1>1, <1>2, <1>3, <1>4, <1>5 DEF IInv

-----------------------------------------------------------------------------
(***************************************************************************)
(* Operations keep it: each starts a whole sequence of steps               *)
(***************************************************************************)
LEMMA FourSteps ==
    ASSUME NEW a, NEW b, NEW c, NEW d, NEW files,
           Fit(a, files), Fit(b, files), Fit(c, files), Fit(d, files),
           Follows(a, b), Follows(b, c), Follows(c, d), MayEnd(d)
    PROVE  End(<<a, b, c, d>>, files)
<1>1. <<a, b, c, d>> \in Seq(AStep)
  BY DEF Fit
<1>2. \A k \in 1..4 : Fit(<<a, b, c, d>>[k], files)
  OBVIOUS
<1>3. \A k \in 1..3 : Follows(<<a, b, c, d>>[k], <<a, b, c, d>>[k + 1])
  OBVIOUS
<1>. QED
  BY <1>1, <1>2, <1>3 DEF Part, End

\* The steps operations are made of.
LEMMA AboutFits ==
    ASSUME NEW a \in AStep, NEW files,
           a.do \in AboutStorage => a.s \in Storage,
           a.do \in AboutStorage \ {"remove", "umount", "lun"} => a.l = 2,
           a.do \in {"kill", "wait", "adb", "export", "unexport"} => a.l = 2,
           a.do \in {"lun", "clear"} => a.l < 2, a.do = "start" => a.l # 0,
           Opens(a) => a.l \in files
    PROVE  Fit(a, files)
  BY DEF Fit

LEMMA OnFits ==
    ASSUME NEW s \in Storage, NEW files, NEW what \in AboutStorage \ {"lun"}
    PROVE  Fit(On(what, s), files)
<1>1. On(what, s).do = what /\ On(what, s).s = s /\ On(what, s).l = 2
  BY DEF On
<1>2. what \in Kind
  BY DEF Kind, AboutStorage
<1>3. On(what, s) \in AStep
  BY <1>2 DEF On, AStep
<1>4. what \notin {"kill", "wait", "adb", "export", "unexport", "lun", "clear", "start"}
  BY DEF AboutStorage
<1>5. ~Opens(On(what, s))
  BY <1>1 DEF Opens
<1>. QED
  BY <1>1, <1>3, <1>4, <1>5, AboutFits

LEMMA StepFits ==
    ASSUME NEW files, NEW what \in {"kill", "wait", "adb", "export", "unexport", "start"}
    PROVE  Fit(Step(what), files)
<1>1. Step(what).do = what /\ Step(what).l = 2
  BY DEF Step
<1>2. what \in Kind /\ what \notin AboutStorage /\ what \notin {"lun", "clear"}
  BY DEF Kind, AboutStorage
<1>3. Step(what) \in AStep
  BY <1>2 DEF Step, AStep
<1>4. ~Opens(Step(what))
  BY <1>1 DEF Opens
<1>. QED
  BY <1>1, <1>2, <1>3, <1>4, AboutFits

LEMMA ForFits ==
    ASSUME NEW files, NEW what, NEW l,
           \/ what = "start" /\ l = 1
           \/ what = "clear" /\ l \in {0, 1}
    PROVE  Fit(For(what, None, l), files)
<1>1. For(what, None, l).do = what /\ For(what, None, l).l = l
  BY DEF For
<1>a. what \in Kind /\ what \notin AboutStorage
  BY DEF Kind, AboutStorage
<1>b. l \in {0, 1}
  OBVIOUS
<1>2. what \in Kind /\ l \in 0..2 /\ l < 2 /\ what \notin AboutStorage
  BY <1>a, <1>b
<1>3. For(what, None, l) \in AStep
  BY <1>2 DEF For, AStep
<1>4. ~Opens(For(what, None, l))
  BY <1>1 DEF Opens
<1>5. what \notin {"kill", "wait", "adb", "export", "unexport"} /\ (what = "start" => l # 0)
  OBVIOUS
<1>6. For(what, None, l).do \notin AboutStorage
  BY <1>1, <1>2
<1>7. For(what, None, l).do \notin {"kill", "wait", "adb", "export", "unexport"}
  BY <1>1, <1>5
<1>8. For(what, None, l).l < 2 /\ (For(what, None, l).do = "start" => For(what, None, l).l # 0)
  BY <1>1, <1>2, <1>5
<1>. QED
  BY <1>3, <1>4, <1>6, <1>7, <1>8, AboutFits

LEMMA OpenFits ==
    ASSUME NEW files, NEW s \in Storage, NEW l \in files \cap {0, 1},
           NEW what \in {"remove", "umount", "lun"}
    PROVE  Fit(For(what, s, l), files)
<1>1. For(what, s, l).do = what /\ For(what, s, l).s = s /\ For(what, s, l).l = l
  BY DEF For
<1>a. what \in Kind /\ what \in AboutStorage
  BY DEF Kind, AboutStorage
<1>b. l \in {0, 1}
  OBVIOUS
<1>2. what \in Kind /\ l \in 0..2 /\ l < 2 /\ what \in AboutStorage
  BY <1>a, <1>b
<1>3. For(what, s, l) \in AStep
  BY <1>2 DEF For, AStep
<1>5. what \notin {"kill", "wait", "adb", "export", "unexport", "start"}
  OBVIOUS
<1>6. For(what, s, l).s \in Storage /\ For(what, s, l).l \in files /\ For(what, s, l).l < 2
  BY <1>1, <1>2
<1>7. For(what, s, l).do \notin {"kill", "wait", "adb", "export", "unexport", "start"}
  BY <1>1, <1>5
<1>8. For(what, s, l).do \notin AboutStorage \ {"remove", "umount", "lun"}
  BY <1>1
<1>. QED
  BY <1>3, <1>6, <1>7, <1>8, AboutFits

\* What an operation may begin with.
Begins(a) ==
    \/ a.do \in {"kill", "start", "mount", "remove"} /\ ~Opens(a) /\ ~ums_enabled
    \/ a = For("clear", None, 0) /\ ums_enabled

LEMMA Started ==
    ASSUME IInv, NEW steps, Starts(steps), End(steps, Luns), steps # <<>>, Begins(Head(steps)),
           tw_mtp_enabled' \in BOOLEAN, mtp_was_enabled' \in BOOLEAN
    PROVE  IInv'
<1>1. /\ todo = <<>> /\ ops < MaxOps /\ ops' = ops + 1 /\ todo' = steps
      /\ UNCHANGED <<present, mounted, mtppid, mtp_write_fd, zombies, other, stolen, pipe,
                     served, config, ums_enabled, lun, luns, fresh, faulty>>
  BY DEF Starts, mtp, table, usb
<1>2. TypeOK'
  <2>1. ops' \in 0..MaxOps
    <3>1. ops \in 0..MaxOps /\ MaxOps \in Nat
      BY PartitionsAssumption DEF IInv, TypeOK
    <3>. QED
      BY <1>1, <3>1
  <2>2. todo' \in Seq(AStep)
    BY <1>1 DEF End, Part
  <2>. QED
    BY <1>1, <2>1, <2>2 DEF IInv, TypeOK, AStep
<1>3. End(todo, Luns)'
  BY <1>1 DEF Luns
<1>4. Served'
  BY <1>1, SameServed DEF IInv, Served
<1>5. Steps("umount")' = FALSE /\ Steps("erase")' = FALSE /\ Steps("lun")' = FALSE /\ Steps("wait")' = FALSE
  BY <1>1 DEF Steps, Begins, For
<1>6. Ready'
  BY <1>5 DEF Ready
<1>7. UmsEnds'
  <2>1. ums_enabled => Head(steps) = For("clear", None, 0)
    BY DEF Begins
  <2>. QED
    BY <1>1, <2>1 DEF UmsEnds, Steps, For
<1>8. LunsApart'
  <2>1. CASE ums_enabled
    <3>1. \A l \in fresh : lun[l] \notin mounted
      BY <1>1, <2>1 DEF IInv, LunsApart, Idle
    <3>. QED
      BY <1>1, <3>1 DEF LunsApart
  <2>2. CASE ~ums_enabled
    <3>1. Head(steps).do # "export" /\ ~Opens(Head(steps))
      BY <2>2 DEF Begins
    <3>2. ~ToLun(todo')
      BY <1>1, <3>1 DEF ToLun
    <3>. QED
      BY <1>1, <2>2, <3>2 DEF LunsApart
  <2>. QED
    BY <2>1, <2>2
<1>9. Zombies'
  BY <1>1, <1>5 DEF IInv, Zombies, Lost, Steps
<1>. QED
  BY <1>2, <1>3, <1>4, <1>6, <1>7, <1>8, <1>9 DEF IInv

\* The steps that follow each other in an operation on one storage.
LEMMA Orders ==
    ASSUME NEW s
    PROVE  /\ Follows(On("remove", s), On("umount", s)) /\ Follows(On("umount", s), On("erase", s))
           /\ Follows(On("remove", s), On("erase", s))
           /\ Follows(On("erase", s), On("mount", s)) /\ Follows(On("erase", s), On("add", s))
           /\ Follows(On("mount", s), On("mount", s)) /\ Follows(On("mount", s), On("add", s))
           /\ Follows(On("mount", s), On("remove", s))
           /\ MayEnd(On("umount", s)) /\ MayEnd(On("mount", s)) /\ MayEnd(On("add", s))
           /\ ~ums_enabled => Begins(On("mount", s)) /\ Begins(On("remove", s))
<1>1. ASSUME NEW what PROVE ~Opens(On(what, s)) /\ On(what, s).do = what
  BY DEF Opens, On
<1>2. /\ Follows(On("remove", s), On("umount", s)) /\ Follows(On("umount", s), On("erase", s))
      /\ Follows(On("remove", s), On("erase", s))
  BY DEF Follows, SamePlace, On
<1>3. /\ Follows(On("erase", s), On("mount", s)) /\ Follows(On("erase", s), On("add", s))
      /\ Follows(On("mount", s), On("mount", s)) /\ Follows(On("mount", s), On("add", s))
  BY DEF Follows, SamePlace, On
<1>4. Follows(On("mount", s), On("remove", s))
  BY DEF Follows, SamePlace, On
<1>5. MayEnd(On("umount", s)) /\ MayEnd(On("mount", s)) /\ MayEnd(On("add", s))
  BY <1>1 DEF MayEnd
<1>6. ~ums_enabled => Begins(On("mount", s)) /\ Begins(On("remove", s))
  BY <1>1 DEF Begins
<1>. QED
  BY <1>2, <1>3, <1>4, <1>5, <1>6

LEMMA OnFitsAll ==
    ASSUME NEW s \in Storage, NEW files
    PROVE  /\ Fit(On("mount", s), files) /\ Fit(On("add", s), files) /\ Fit(On("remove", s), files)
           /\ Fit(On("umount", s), files) /\ Fit(On("erase", s), files) /\ Fit(On("select", s), files)
           /\ Fit(On("mount all", s), files) /\ Fit(On("add all", s), files)
  BY OnFits DEF AboutStorage

\* The end of a wipe.
LEMMA AddedEnds ==
    ASSUME NEW s \in Storage, NEW files
    PROVE  End(Added(s), files) /\ Added(s) # <<>> /\ Added(s)[1] = On("mount", s)
<1>1. End(<<On("mount", s)>>, files) /\ End(<<On("mount", s), On("add", s)>>, files)
  BY OneStep, TwoSteps, Orders, OnFitsAll
<1>. QED
  BY <1>1 DEF Added

LEMMA DisableMtpPart ==
    ASSUME NEW files
    PROVE  Part(Disable_MTP, files) /\ End(Disable_MTP, files) /\ Disable_MTP # <<>>
           /\ Disable_MTP[Len(Disable_MTP)] = Step("wait") /\ Head(Disable_MTP) = Step("kill")
           /\ Disable_MTP[1] = Step("kill") /\ Head(Disable_MTP).do = "kill"
<1>1. Fit(Step("kill"), files) /\ Fit(Step("wait"), files)
  BY StepFits
<1>2. Step("kill").do = "kill" /\ Step("wait").do = "wait"
  BY DEF Step
<1>3. Follows(Step("kill"), Step("wait")) /\ MayEnd(Step("wait"))
  BY <1>2 DEF Follows, MayEnd, Opens
<1>4. Part(<<Step("kill"), Step("wait")>>, files) /\ End(<<Step("kill"), Step("wait")>>, files)
  BY <1>1, <1>3, TwoSteps
<1>. QED
  BY <1>2, <1>4 DEF Disable_MTP

LEMMA SameSequence ==
    ASSUME NEW S, NEW u \in Seq(S), NEW v \in Seq(S), NEW w \in Seq(S),
           Len(w) = Len(u) + Len(v),
           \A k \in 1..Len(u) : w[k] = u[k],
           \A k \in 1..Len(v) : w[Len(u) + k] = v[k]
    PROVE  u \o v = w
<1>. DEFINE x == u \o v
<1>1. /\ x \in Seq(S) /\ Len(u) \in Nat /\ Len(v) \in Nat /\ Len(x) = Len(u) + Len(v)
      /\ \A k \in 1..Len(u) : x[k] = u[k]
      /\ \A k \in 1..Len(v) : x[Len(u) + k] = v[k]
  OBVIOUS
<1>2. ASSUME NEW k \in 1..Len(w) PROVE x[k] = w[k]
  <2>1. CASE k <= Len(u)
    BY <1>1, <2>1
  <2>2. CASE k > Len(u)
    <3>1. k - Len(u) \in 1..Len(v) /\ Len(u) + (k - Len(u)) = k
      BY <1>1, <2>2
    <3>. QED
      BY <1>1, <3>1
  <2>. QED
    BY <1>1, <2>1, <2>2
<1>. HIDE DEF x
<1>3. x = w
  BY <1>1, <1>2, SeqEqual
<1>. QED
  BY <1>3 DEF x

LEMMA OneAndOne == ASSUME NEW a, NEW b PROVE <<a>> \o <<b>> = <<a, b>> /\ <<a>> \o <<>> = <<a>>
<1>. DEFINE S == {a, b}
<1>1. <<a>> \in Seq(S) /\ <<b>> \in Seq(S) /\ <<a, b>> \in Seq(S) /\ <<>> \in Seq(S)
  OBVIOUS
<1>2. Len(<<a, b>>) = Len(<<a>>) + Len(<<b>>) /\ Len(<<a>>) = Len(<<a>>) + Len(<<>>)
  OBVIOUS
<1>3. \A k \in 1..Len(<<a>>) : <<a, b>>[k] = <<a>>[k]
  OBVIOUS
<1>5. \A k \in 1..Len(<<b>>) : <<a, b>>[Len(<<a>>) + k] = <<b>>[k]
  OBVIOUS
<1>4. \A k \in 1..Len(<<>>) : <<a>>[Len(<<a>>) + k] = <<>>[k]
  OBVIOUS
<1>. HIDE DEF S
<1>. QED
  BY <1>1, <1>2, <1>3, <1>4, <1>5, SameSequence

LEMMA TwoAndOne == ASSUME NEW a, NEW b, NEW c PROVE <<a, b>> \o <<c>> = <<a, b, c>>
<1>. DEFINE S == {a, b, c}
<1>1. <<a, b>> \in Seq(S) /\ <<c>> \in Seq(S) /\ <<a, b, c>> \in Seq(S)
  OBVIOUS
<1>2. Len(<<a, b, c>>) = Len(<<a, b>>) + Len(<<c>>)
  OBVIOUS
<1>3. \A k \in 1..Len(<<a, b>>) : <<a, b, c>>[k] = <<a, b>>[k]
  OBVIOUS
<1>4. \A k \in 1..Len(<<c>>) : <<a, b, c>>[Len(<<a, b>>) + k] = <<c>>[k]
  OBVIOUS
<1>. HIDE DEF S
<1>. QED
  BY <1>1, <1>2, <1>3, <1>4, SameSequence

LEMMA OperationKeeps == ASSUME IInv, Operation PROVE IInv'
<1>. DEFINE Kept == tw_mtp_enabled' \in BOOLEAN /\ mtp_was_enabled' \in BOOLEAN
<1>0. UNCHANGED flags => Kept
  BY DEF IInv, TypeOK, flags
<1>. HIDE DEF Kept
<1>k. ASSUME NEW steps, Starts(steps), End(steps, Luns), steps # <<>>, Begins(Head(steps)), Kept
      PROVE  IInv'
  BY <1>k, Started DEF Kept
<1>1. CASE EnableMtp
  <2>1. Fit(Step("start"), Luns) /\ Step("start").do = "start"
    BY StepFits DEF Step
  <2>2. MayEnd(Step("start")) /\ (~ums_enabled => Begins(Step("start")))
    BY <2>1 DEF MayEnd, Opens, Begins
  <2>3. End(<<Step("start")>>, Luns) /\ Head(<<Step("start")>>) = Step("start")
    BY <2>1, <2>2, OneStep
  <2>4. Starts(<<Step("start")>>) /\ ~ums_enabled /\ Kept
    BY <1>0, <1>1 DEF EnableMtp
  <2>. QED
    BY <1>k, <2>2, <2>3, <2>4
<1>2. CASE DisableMtp
  <2>1. ~ums_enabled => Begins(Head(Disable_MTP))
    BY DisableMtpPart DEF Begins, Opens
  <2>2. Starts(Disable_MTP) /\ ~ums_enabled /\ Kept
    BY <1>0, <1>2 DEF DisableMtp
  <2>. QED
    BY <1>k, <2>1, <2>2, DisableMtpPart
<1>3. CASE usb_storage_disable
  <2>. DEFINE a == For("clear", None, 0)
  <2>1. Fit(a, Luns) /\ a.do = "clear" /\ a.l = 0
    BY ForFits DEF For
  <2>2. MayEnd(a) /\ (ums_enabled => Begins(a))
    BY <2>1 DEF MayEnd, Opens, Begins
  <2>. HIDE DEF a
  <2>3. End(<<a>>, Luns) /\ Head(<<a>>) = a
    BY <2>1, <2>2, OneStep
  <2>4. Starts(<<a>>) /\ ums_enabled /\ Kept
    BY <1>0, <1>3 DEF usb_storage_disable, a
  <2>. QED
    BY <1>k, <2>2, <2>3, <2>4
<1>4. ASSUME NEW s \in Storage, MountStorage(s) PROVE IInv'
  <2>1. End(<<On("mount", s), On("add", s)>>, Luns)
    BY TwoSteps, Orders, OnFitsAll
  <2>2. Starts(<<On("mount", s), On("add", s)>>) /\ ~ums_enabled /\ Kept
    BY <1>0, <1>4 DEF MountStorage
  <2>3. Head(<<On("mount", s), On("add", s)>>) = On("mount", s)
    OBVIOUS
  <2>. QED
    BY <1>k, <2>1, <2>2, <2>3, Orders
<1>5. ASSUME NEW s \in Storage, UnMountStorage(s) PROVE IInv'
  <2>1. End(UnMount(s), Luns)
    BY TwoSteps, Orders, OnFitsAll DEF UnMount
  <2>2. Starts(UnMount(s)) /\ ~ums_enabled /\ Kept
    BY <1>0, <1>5 DEF UnMountStorage
  <2>3. Head(UnMount(s)) = On("remove", s) /\ UnMount(s) # <<>>
    BY DEF UnMount
  <2>. QED
    BY <1>k, <2>1, <2>2, <2>3, Orders
<1>6. ASSUME NEW s \in Storage, Wipe(s) PROVE IInv'
  <2>0. ~ums_enabled /\ Kept
    BY <1>0, <1>6 DEF Wipe
  <2>1. ASSUME NEW t, Part(t, Luns), t # <<>>, Follows(t[Len(t)], On("mount", s)),
               Begins(t[1]), Starts(t \o Added(s))
        PROVE  IInv'
    BY <1>k, <2>0, <2>1, Joined, AddedEnds
  <2>2. CASE Starts(UnMount(s) \o <<On("erase", s)>> \o Added(s))
    <3>. DEFINE t == <<On("remove", s), On("umount", s), On("erase", s)>>
    <3>1. UnMount(s) \o <<On("erase", s)>> = t
      BY TwoAndOne DEF UnMount
    <3>2. Part(t, Luns)
      BY ThreeSteps, Orders, OnFitsAll
    <3>3. t # <<>> /\ t[Len(t)] = On("erase", s) /\ t[1] = On("remove", s)
      OBVIOUS
    <3>. HIDE DEF t
    <3>. QED
      BY <2>0, <2>1, <2>2, <3>1, <3>2, <3>3, Orders
  <2>3. CASE Starts(<<On("mount", s), On("remove", s), On("erase", s)>> \o Added(s))
    <3>. DEFINE t == <<On("mount", s), On("remove", s), On("erase", s)>>
    <3>2. Part(t, Luns)
      BY ThreeSteps, Orders, OnFitsAll
    <3>3. t # <<>> /\ t[Len(t)] = On("erase", s) /\ t[1] = On("mount", s)
      OBVIOUS
    <3>. HIDE DEF t
    <3>4. Starts(t \o Added(s))
      BY <2>3 DEF t
    <3>. QED
      BY <2>0, <2>1, <3>2, <3>3, <3>4, Orders
  <2>4. CASE Starts(<<On("mount", s)>> \o Added(s))
    <3>. DEFINE t == <<On("mount", s)>>
    <3>2. Part(t, Luns)
      BY OneStep, OnFitsAll
    <3>3. t # <<>> /\ t[Len(t)] = On("mount", s) /\ t[1] = On("mount", s)
      OBVIOUS
    <3>. HIDE DEF t
    <3>4. Starts(t \o Added(s))
      BY <2>4 DEF t
    <3>. QED
      BY <2>0, <2>1, <3>2, <3>3, <3>4, Orders
  <2>. QED
    BY <1>6, <2>2, <2>3, <2>4 DEF Wipe
<1>7. ASSUME NEW s \in Storage, WipeMedia(s) PROVE IInv'
  <2>. DEFINE t == <<On("mount", s), On("remove", s), On("erase", s), On("add", s)>>
  <2>1. End(t, Luns)
    <3>1. /\ Fit(On("mount", s), Luns) /\ Fit(On("remove", s), Luns)
          /\ Fit(On("erase", s), Luns) /\ Fit(On("add", s), Luns)
      BY OnFitsAll
    <3>2. /\ Follows(On("mount", s), On("remove", s)) /\ Follows(On("remove", s), On("erase", s))
          /\ Follows(On("erase", s), On("add", s)) /\ MayEnd(On("add", s))
      BY Orders
    <3>. QED
      BY <3>1, <3>2, FourSteps
  <2>2. Starts(t) /\ ~ums_enabled /\ Kept
    BY <1>0, <1>7 DEF WipeMedia
  <2>3. Head(t) = On("mount", s) /\ t # <<>>
    OBVIOUS
  <2>. HIDE DEF t
  <2>. QED
    BY <1>k, <2>1, <2>2, <2>3, Orders
<1>8. ASSUME NEW s \in Storage, usb_storage_enable(s) PROVE IInv'
  <2>1. On("select", s).do = "select" /\ On("select", s).l = 2 /\ Fit(On("select", s), Luns)
    BY OnFitsAll DEF On
  <2>2. MayEnd(On("select", s)) /\ Follows(Step("wait"), On("select", s))
    <3>1. Step("wait").do = "wait"
      BY DEF Step
    <3>. QED
      BY <2>1, <3>1 DEF MayEnd, Opens, Follows
  <2>3. End(<<On("select", s)>>, Luns) /\ <<On("select", s)>>[1] = On("select", s) /\ <<On("select", s)>> # <<>>
    BY <2>1, <2>2, OneStep
  <2>. DEFINE u == <<On("select", s)>>
  <2>4. Starts(Disable_MTP \o u) /\ ~ums_enabled /\ Kept
    <3>1. tw_mtp_enabled' \in BOOLEAN /\ mtp_was_enabled' \in BOOLEAN
      BY <1>8 DEF usb_storage_enable, IInv, TypeOK
    <3>. QED
      BY <1>8, <3>1 DEF usb_storage_enable, Kept
  <2>5. End(u, Luns) /\ u # <<>> /\ u[1] = On("select", s)
    BY <2>3
  <2>. HIDE DEF u
  <2>6. /\ End(Disable_MTP \o u, Luns) /\ Disable_MTP \o u # <<>>
        /\ Head(Disable_MTP \o u) = Step("kill")
    BY <2>2, <2>5, Joined, DisableMtpPart
  <2>7. Begins(Step("kill"))
    BY <2>4 DEF Begins, Opens, Step
  <2>. QED
    BY <1>k, <2>4, <2>6, <2>7
<1>. QED
  BY <1>1, <1>2, <1>3, <1>4, <1>5, <1>6, <1>7, <1>8 DEF Operation

-----------------------------------------------------------------------------
(***************************************************************************)
(* What holds while an operation is under way                              *)
(***************************************************************************)
LEMMA Now ==
    ASSUME IInv, todo # <<>>
    PROVE  /\ End(Tail(todo), Luns) /\ Fit(This, Luns) /\ This \in AStep
           /\ Tail(todo) # <<>> => Follows(This, Head(Tail(todo)))
           /\ Tail(todo) = <<>> => MayEnd(This)
  BY TailEnd DEF IInv, This, Fit

\* The step relies on nothing the one before it did.
Calm(t) == t # <<>> => Head(t).do \notin {"umount", "erase", "lun", "wait", "clear"}

LEMMA CalmReady ==
    ASSUME Calm(todo)' PROVE Ready' /\ ~Steps("clear")' /\ ~Steps("wait")'
  BY DEF Calm, Ready, Steps

\* What the next step of the operation may rely on.
LEMMA AfterContinue ==
    ASSUME IInv, todo # <<>>, Continue, luns' = luns
    PROVE  /\ End(todo, Luns)' /\ ~Steps("clear")'
           /\ Steps("wait")' => This.do = "kill"
           /\ (Steps("umount") \/ Steps("erase"))' =>
                  This.do \in {"remove", "umount"} /\ This'.s = This.s
           /\ Steps("lun")' => This.do = "umount" /\ This'.s = This.s
           /\ This.do \notin {"remove", "umount", "kill"} => Calm(todo)'
           /\ ToLun(todo') => Opens(This)
<1>1. todo' = Tail(todo) /\ Luns' = Luns
  BY DEF Continue, Luns
<1>2. todo' # <<>> => Follows(This, Head(todo'))
  BY <1>1, Now
<1>3. End(todo', Luns')
  BY <1>1, Now
<1>4. ASSUME todo' # <<>>, Follows(This, Head(todo'))
      PROVE  LET b == Head(todo') IN
             /\ b.do # "clear" /\ (b.do = "wait" => This.do = "kill")
             /\ b.do \in {"umount", "erase"} => This.do \in {"remove", "umount"} /\ b.s = This.s
             /\ b.do = "lun" => This.do = "umount" /\ b.s = This.s
  <2>. DEFINE b == Head(todo')
  <2>1. Follows(This, b)
    BY <1>4
  <2>. HIDE DEF b
  <2>2. b.do # "clear" /\ (b.do = "wait" => This.do = "kill")
    BY <2>1 DEF Follows
  <2>3. b.do \in {"umount", "erase"} => This.do \in {"remove", "umount"} /\ b.s = This.s
    BY <2>1 DEF Follows, SamePlace
  <2>4. b.do = "lun" => This.do = "umount" /\ b.s = This.s
    BY <2>1 DEF Follows, SamePlace
  <2>. QED
    BY <2>2, <2>3, <2>4 DEF b
<1>5. ASSUME ToLun(todo') PROVE Opens(This)
  <2>. DEFINE b == Head(todo')
  <2>1. Follows(This, b) /\ Fit(This, Luns) /\ Fit(b, Luns) /\ (b.do = "export" \/ Opens(b))
    <3>1. todo' # <<>> /\ End(todo', Luns)
      BY <1>1, <1>3, <1>5 DEF ToLun
    <3>2. Fit(Head(todo'), Luns)
      BY <3>1, TailEnd
    <3>. QED
      BY <1>2, <1>5, <3>1, <3>2, Now DEF ToLun
  <2>. HIDE DEF b
  <2>2. This.do = "lun" => Opens(This)
    BY <2>1 DEF Fit, Opens
  <2>3. CASE b.do = "export"
    BY <2>1, <2>2, <2>3 DEF Follows
  <2>4. CASE Opens(b)
    <3>1. CASE b.do = "remove"
      BY <2>1, <2>2, <2>4, <3>1 DEF Follows, Opens
    <3>2. CASE b.do = "umount"
      BY <2>1, <2>2, <2>4, <3>2 DEF Follows, Opens, SamePlace
    <3>3. CASE b.do = "lun"
      BY <2>1, <2>2, <2>4, <3>3 DEF Follows, Opens, SamePlace
    <3>. QED
      BY <2>4, <3>1, <3>2, <3>3 DEF Opens
  <2>. QED
    BY <2>1, <2>3, <2>4
<1>. QED
  BY <1>2, <1>3, <1>4, <1>5 DEF Steps, Calm, This

LEMMA RestartEnds ==
    ASSUME NEW files
    PROVE  End(Restart, files) /\ Calm(Restart) /\ ~ToLun(Restart)
<1>. DEFINE a == For("start", None, 1)
<1>1. Fit(a, files) /\ a.do = "start"
  BY ForFits DEF For
<1>. HIDE DEF a
<1>2. End(<<a>>, files) /\ Calm(<<a>>) /\ ~ToLun(<<a>>)
  BY <1>1, OneStep DEF MayEnd, Opens, Calm, ToLun
<1>3. End(<<>>, files) /\ Calm(<<>>) /\ ~ToLun(<<>>)
  BY DEF End, Part, Calm, ToLun
<1>. QED
  BY <1>2, <1>3 DEF Restart, a

LEMMA ExportEnds ==
    ASSUME NEW files
    PROVE  /\ End(<<Step("export")>>, files) /\ Calm(<<Step("export")>>)
           /\ <<Step("export")>> # <<>> /\ <<Step("export")>>[1].do = "export"
<1>. DEFINE a == Step("export")
<1>1. Fit(a, files) /\ a.do = "export"
  BY StepFits DEF Step
<1>. HIDE DEF a
<1>2. End(<<a>>, files) /\ Calm(<<a>>) /\ <<a>>[1] = a /\ <<a>> # <<>>
  BY <1>1, OneStep DEF MayEnd, Opens, Calm
<1>. QED
  BY <1>1, <1>2 DEF a

LEMMA AfterFail ==
    ASSUME IInv, todo # <<>>, Fail
    PROVE  /\ End(todo', Luns') /\ Calm(todo)'
           /\ ToLun(todo') => This.l = 1
<1>1. End(<<>>, Luns') /\ Calm(<<>>) /\ ~ToLun(<<>>)
  BY DEF End, Part, Calm, ToLun
<1>2. CASE This.l = 0
  <2>1. todo' = Restart
    BY <1>2 DEF Fail
  <2>. QED
    BY <1>2, <2>1, RestartEnds DEF Calm
<1>3. CASE This.l = 1
  <2>1. todo' = <<Step("export")>>
    BY <1>3 DEF Fail
  <2>. QED
    BY <1>3, <2>1, ExportEnds DEF Calm
<1>4. CASE This.l \notin {0, 1}
  <2>1. todo' = <<>>
    BY <1>4 DEF Fail
  <2>. QED
    BY <1>1, <1>4, <2>1 DEF Calm
<1>. QED
  BY <1>2, <1>3, <1>4

\* The end of mass storage goes on to "unexport".
LEMMA ReclaimsOn ==
    ASSUME NEW t \in Seq(AStep), t # <<>>, Reclaims(t)
    PROVE  /\ Head(t).do \in {"mount all", "unexport"}
           /\ Head(t).do = "mount all" => Reclaims(Tail(t))
<1>. DEFINE u == Tail(t)
<1>1. /\ Len(t) \in Nat \ {0} /\ Head(t) = t[1]
      /\ u \in Seq(AStep) /\ Len(u) = Len(t) - 1
      /\ \A k \in 1..Len(u) : u[k] = t[k + 1]
  OBVIOUS
<1>. HIDE DEF u
<1>2. Head(t).do \in {"mount all", "unexport"}
  <2>1. 1 \in 1..Len(t)
    BY <1>1
  <2>. QED
    BY <1>1, <2>1 DEF Reclaims
<1>3. ASSUME Head(t).do = "mount all" PROVE Reclaims(u)
  <2>1. Len(t) # 1
    BY <1>1, <1>3 DEF Reclaims
  <2>2. Len(u) \in 1..Len(u) /\ Len(u) + 1 = Len(t)
    BY <1>1, <2>1
  <2>3. u # <<>> /\ u[Len(u)] = t[Len(t)]
    BY <1>1, <2>2
  <2>4. \A k \in 1..Len(u) : k + 1 \in 1..Len(t)
    BY <1>1
  <2>. QED
    BY <1>1, <2>3, <2>4 DEF Reclaims
<1>. QED
  BY <1>2, <1>3 DEF u

\* Nothing else runs while mass storage is on.
LEMMA UmsOff ==
    ASSUME IInv, todo # <<>>, This.do \notin {"clear", "mount all", "unexport"}
    PROVE  ~ums_enabled
<1>. SUFFICES ASSUME ums_enabled PROVE FALSE
  OBVIOUS
<1>1. Reclaims(todo)
  BY DEF IInv, UmsEnds, Idle, Steps, This
<1>2. todo \in Seq(AStep)
  BY DEF IInv, End, Part
<1>. QED
  BY <1>1, <1>2, ReclaimsOn DEF This

\* A step that leaves mass storage as it is, and opens no lun file.
LEMMA LunsKept ==
    ASSUME IInv, todo # <<>>, This.do \notin {"clear", "unexport"},
           Continue \/ This.do # "mount all",
           ums_enabled' = ums_enabled, ~ToLun(todo'), ~Steps("clear")'
    PROVE  LunsApart' /\ UmsEnds'
<1>1. CASE ~ums_enabled
  BY <1>1 DEF LunsApart, UmsEnds
<1>2. CASE ums_enabled
  <2>1. This.do = "mount all"
    BY <1>2, UmsOff
  <2>2. Reclaims(todo)
    BY <1>2, <2>1 DEF IInv, UmsEnds, Idle, Steps, This
  <2>3. Reclaims(todo')
    <3>1. todo \in Seq(AStep) /\ todo' = Tail(todo)
      BY <2>1 DEF IInv, End, Part, Continue
    <3>2. Reclaims(Tail(todo))
      BY <2>1, <2>2, <3>1, ReclaimsOn DEF This
    <3>. QED
      BY <3>1, <3>2
  <2>4. ~Idle' /\ todo' # <<>>
    BY <2>3 DEF Reclaims, Idle
  <2>. QED
    BY <2>3, <2>4 DEF LunsApart, UmsEnds
<1>. QED
  BY <1>1, <1>2

\* A step on the way to mass storage that mounts and writes nothing.
LEMMA StillApart ==
    ASSUME IInv, todo # <<>>, Opens(This), UNCHANGED <<ums_enabled, lun, fresh>>,
           mounted' \subseteq mounted
    PROVE  LunsApart' /\ UmsEnds'
<1>1. ~ums_enabled
  BY UmsOff DEF Opens
<1>2. \A l \in fresh : lun[l] \notin mounted
  BY DEF IInv, LunsApart, ToLun, This
<1>. QED
  BY <1>1, <1>2 DEF LunsApart, UmsEnds

\* No server is killed or reaped.
LEMMA ZombiesKept ==
    ASSUME IInv, UNCHANGED <<zombies, stolen>>, ~Steps("wait"), ~Steps("wait")'
    PROVE  Zombies'
  BY DEF IInv, Zombies, Lost

LEMMA ServedKept ==
    ASSUME IInv, UNCHANGED table, mounted \subseteq mounted'
    PROVE  Served'
  BY SameServed DEF IInv, Served, table

\* The storage the step is about was taken from the server.
LEMMA TakenReady ==
    ASSUME NEW x, ~WillServe(x)', (Steps("umount") \/ Steps("erase"))' => This'.s = x,
           Steps("lun")' => This'.s \notin mounted', ~Steps("wait")'
    PROVE  Ready'
  BY DEF Ready, WillServe, Stays

-----------------------------------------------------------------------------
(***************************************************************************)
(* Each step keeps it                                                      *)
(***************************************************************************)
\* The steps that change nothing but what a storage is and what is left to do.
LEMMA EraseKeeps == ASSUME IInv, Erase PROVE IInv'
<1>1. /\ todo # <<>> /\ This.do = "erase" /\ (Continue \/ Fail)
      /\ UNCHANGED <<present, mounted, mtp, table, usb, flags, bounds>>
  BY DEF Erase, Steps, This
<1>2. ~Opens(This) /\ This.l = 2
  BY <1>1, Now DEF Opens, Fit, AboutStorage
<1>3. End(todo, Luns)' /\ Calm(todo)' /\ ~ToLun(todo')
  BY <1>1, <1>2, AfterContinue, AfterFail DEF usb
<1>4. TypeOK'
  <2>1. todo' \in Seq(AStep)
    BY <1>3 DEF End, Part
  <2>. QED
    BY <1>1, <2>1 DEF IInv, TypeOK, AStep, mtp, table, usb, flags, bounds
<1>5. Served'
  BY <1>1, ServedKept
<1>6. Ready' /\ ~Steps("clear")' /\ ~Steps("wait")'
  BY <1>3, CalmReady
<1>7. LunsApart' /\ UmsEnds'
  BY <1>1, <1>3, <1>6, LunsKept DEF usb
<1>8. Zombies'
  BY <1>1, <1>6, ZombiesKept DEF mtp, Steps, This
<1>. QED
  BY <1>3, <1>4, <1>5, <1>6, <1>7, <1>8 DEF IInv

LEMMA AdbKeeps == ASSUME IInv, Adb PROVE IInv'
<1>1. /\ todo # <<>> /\ This.do = "adb" /\ Continue
      /\ config' = "adb" /\ tw_mtp_enabled' = FALSE
      /\ UNCHANGED <<present, mounted, mtp, table, ums_enabled, lun, luns, fresh, mtp_was_enabled, bounds>>
  BY DEF Adb, Steps, This
<1>2. ~Opens(This)
  BY <1>1 DEF Opens
<1>3. End(todo, Luns)' /\ Calm(todo)' /\ ~ToLun(todo')
  BY <1>1, <1>2, AfterContinue
<1>4. TypeOK'
  <2>1. todo' \in Seq(AStep)
    BY <1>3 DEF End, Part
  <2>. QED
    BY <1>1, <2>1 DEF IInv, TypeOK, AStep, mtp, table, bounds
<1>5. Served'
  BY <1>1, ServedKept
<1>6. Ready' /\ ~Steps("clear")' /\ ~Steps("wait")'
  BY <1>3, CalmReady
<1>7. LunsApart' /\ UmsEnds'
  BY <1>1, <1>3, <1>6, LunsKept
<1>8. Zombies'
  BY <1>1, <1>6, ZombiesKept DEF mtp, Steps, This
<1>. QED
  BY <1>3, <1>4, <1>5, <1>6, <1>7, <1>8 DEF IInv

LEMMA MountKeeps == ASSUME IInv, Mount PROVE IInv'
<1>1. /\ todo # <<>> /\ This.do \in {"mount", "mount all"} /\ (Continue \/ (This.do = "mount" /\ Fail))
      /\ mounted' = mounted \cup {This.s} \/ mounted' = mounted
      /\ UNCHANGED <<present, mtp, table, usb, flags, bounds>>
  BY DEF Mount, Steps, This
<1>2. ~Opens(This) /\ This.s \in Storage /\ This.l = 2
  BY <1>1, Now DEF Opens, Fit, AboutStorage
<1>3. End(todo, Luns)' /\ Calm(todo)' /\ ~ToLun(todo')
  <2>1. CASE Continue
    BY <1>1, <1>2, <2>1, AfterContinue DEF usb
  <2>2. CASE Fail
    <3>1. End(todo', Luns') /\ Calm(todo)' /\ (ToLun(todo') => This.l = 1)
      BY <1>1, <2>2, AfterFail
    <3>2. This.l # 1
      BY <1>2
    <3>. QED
      BY <3>1, <3>2
  <2>. QED
    BY <1>1, <2>1, <2>2
<1>4. TypeOK'
  <2>1. todo' \in Seq(AStep)
    BY <1>3 DEF End, Part
  <2>2. mounted' \subseteq Storage
    BY <1>1, <1>2 DEF IInv, TypeOK
  <2>. QED
    BY <1>1, <2>1, <2>2 DEF IInv, TypeOK, AStep, mtp, table, usb, flags, bounds
<1>5. Served'
  BY <1>1, ServedKept
<1>6. Ready' /\ ~Steps("clear")' /\ ~Steps("wait")'
  BY <1>3, CalmReady
<1>7. LunsApart' /\ UmsEnds'
  BY <1>1, <1>3, <1>6, LunsKept DEF usb
<1>8. Zombies'
  BY <1>1, <1>6, ZombiesKept DEF mtp, Steps, This
<1>. QED
  BY <1>3, <1>4, <1>5, <1>6, <1>7, <1>8 DEF IInv

\* Unmounting is told to the server first, so that it serves the storage no more.
LEMMA UnmountKeeps == ASSUME IInv, Unmount PROVE IInv'
<1>1. /\ Steps("umount") /\ todo # <<>> /\ This.do = "umount"
      /\ \/ mounted' = mounted \ {This.s} /\ Continue
         \/ mounted' = mounted /\ Fail
      /\ UNCHANGED <<present, mtp, table, usb, flags, bounds>>
  BY DEF Unmount, Steps, This
<1>2. This.s \in Storage /\ ~WillServe(This.s)
  BY <1>1, Now DEF Fit, AboutStorage, IInv, Ready
<1>3. End(todo, Luns)' /\ ~Steps("clear")' /\ ~Steps("wait")'
  BY <1>1, AfterContinue, AfterFail, CalmReady DEF usb
<1>s. \A s : WillServe(s)' <=> WillServe(s)
  BY <1>1, SameServed DEF table
<1>4. TypeOK'
  <2>1. todo' \in Seq(AStep)
    BY <1>3 DEF End, Part
  <2>2. mounted' \subseteq Storage
    BY <1>1, <1>2 DEF IInv, TypeOK
  <2>. QED
    BY <1>1, <2>1, <2>2 DEF IInv, TypeOK, AStep, mtp, table, usb, flags, bounds
<1>5. Served'
  <2>. SUFFICES ASSUME NEW s \in Storage, WillServe(s)' PROVE s \in mounted'
    BY DEF Served
  <2>1. WillServe(s) /\ s # This.s
    BY <1>2, <1>s
  <2>. QED
    BY <1>1, <2>1 DEF IInv, Served
<1>6. Ready'
  <2>1. CASE Fail
    BY <1>1, <2>1, AfterFail, CalmReady
  <2>2. CASE mounted' = mounted \ {This.s} /\ Continue
    <3>1. /\ (Steps("umount") \/ Steps("erase"))' => This'.s = This.s
          /\ Steps("lun")' => This'.s = This.s
      BY <1>1, <2>2, AfterContinue DEF usb
    <3>2. PICK x : x = This.s /\ ~WillServe(x)
      BY <1>2
    <3>3. ~WillServe(x)' /\ x \notin mounted'
      BY <1>s, <2>2, <3>2
    <3>. QED
      BY <1>3, <3>1, <3>2, <3>3, TakenReady
  <2>. QED
    BY <1>1, <2>1, <2>2
<1>7. LunsApart' /\ UmsEnds'
  <2>1. UNCHANGED <<ums_enabled, lun, fresh>> /\ mounted' \subseteq mounted
    BY <1>1 DEF usb
  <2>2. CASE Opens(This)
    BY <1>1, <2>1, <2>2, StillApart
  <2>3. CASE ~Opens(This)
    <3>1. This.l # 1
      BY <1>1, <2>3 DEF Opens
    <3>2. ~ToLun(todo')
      BY <1>1, <2>3, <3>1, AfterContinue, AfterFail DEF usb
    <3>. QED
      BY <1>1, <1>3, <2>1, <3>2, LunsKept
  <2>. QED
    BY <2>2, <2>3
<1>8. Zombies'
  BY <1>1, <1>3, ZombiesKept DEF mtp, Steps, This
<1>. QED
  BY <1>3, <1>4, <1>5, <1>6, <1>7, <1>8 DEF IInv

\* Nothing that was unmounted will be served: what is served is mounted, and
\* without a server nothing is.
LEMMA NotConnected ==
    ASSUME IInv, NEW s \in Storage, ~Connected \/ s \notin mounted PROVE ~WillServe(s)
<1>1. CASE s \notin mounted
  BY <1>1 DEF IInv, Served
<1>2. CASE ~Connected
  <2>1. pipe = <<>> /\ served = {}
    BY <1>2 DEF Connected, IInv, TypeOK
  <2>. QED
    BY <2>1, NothingServed
<1>. QED
  BY <1>1, <1>2

LEMMA SentType ==
    ASSUME TypeOK, NEW what \in {"add", "remove"}, NEW a \in Storage,
           pipe' = Append(pipe, <<what, a>>)
    PROVE  pipe' \in Seq({"add", "remove"} \X Storage)
<1>. DEFINE Message == {"add", "remove"} \X Storage
<1>1. pipe \in Seq(Message) /\ <<what, a>> \in Message
  BY DEF TypeOK
<1>. HIDE DEF Message
<1>2. pipe' \in Seq(Message)
  BY <1>1
<1>. QED
  BY <1>2 DEF Message

LEMMA AddStorageKeeps == ASSUME IInv, AddStorage PROVE IInv'
<1>1. /\ todo # <<>> /\ This.do \in {"add", "add all"} /\ Continue
      /\ \/ /\ Connected /\ This.s \in mounted
            /\ pipe' = Append(pipe, <<"add", This.s>>)
         \/ pipe' = pipe
      /\ UNCHANGED <<present, mounted, mtp, served, usb, flags, bounds>>
  BY DEF AddStorage, Send, Silent, Steps, This, table
<1>2. ~Opens(This) /\ This.s \in Storage
  BY <1>1, Now DEF Opens, Fit, AboutStorage
<1>3. End(todo, Luns)' /\ Calm(todo)' /\ ~ToLun(todo')
  BY <1>1, <1>2, AfterContinue DEF usb
<1>4. TypeOK'
  <2>1. todo' \in Seq(AStep)
    BY <1>3 DEF End, Part
  <2>2. pipe' \in Seq({"add", "remove"} \X Storage)
    BY <1>1, <1>2, SentType DEF IInv, TypeOK
  <2>3. mtppid' = None => pipe' = <<>>
    BY <1>1 DEF IInv, TypeOK, Connected, mtp
  <2>. QED
    BY <1>1, <2>1, <2>2, <2>3 DEF IInv, TypeOK, AStep, mtp, usb, flags, bounds
<1>5. Served'
  <2>. SUFFICES ASSUME NEW s \in Storage, WillServe(s)' PROVE s \in mounted'
    BY DEF Served
  <2>1. CASE pipe' = pipe
    <3>1. WillServe(s)
      BY <1>1, <2>1, SameServed
    <3>. QED
      BY <1>1, <3>1 DEF IInv, Served
  <2>2. CASE This.s \in mounted /\ pipe' = Append(pipe, <<"add", This.s>>)
    <3>1. WillServe(s) \/ s = This.s
      BY <1>1, <1>2, <2>2, Sent DEF IInv
    <3>. QED
      BY <1>1, <2>2, <3>1 DEF IInv, Served
  <2>. QED
    BY <1>1, <2>1, <2>2
<1>6. Ready' /\ ~Steps("clear")' /\ ~Steps("wait")'
  BY <1>3, CalmReady
<1>7. LunsApart' /\ UmsEnds'
  BY <1>1, <1>3, <1>6, LunsKept DEF usb
<1>8. Zombies'
  BY <1>1, <1>6, ZombiesKept DEF mtp, Steps, This
<1>. QED
  BY <1>3, <1>4, <1>5, <1>6, <1>7, <1>8 DEF IInv

LEMMA RemoveStorageKeeps == ASSUME IInv, RemoveStorage PROVE IInv'
<1>1. /\ todo # <<>> /\ This.do = "remove" /\ Continue
      /\ \/ Connected /\ pipe' = Append(pipe, <<"remove", This.s>>)
         \/ (~Connected \/ This.s \notin mounted) /\ pipe' = pipe
      /\ UNCHANGED <<present, mounted, mtp, served, usb, flags, bounds>>
  BY DEF RemoveStorage, Send, Silent, Steps, This, table
<1>2. This.s \in Storage
  BY <1>1, Now DEF Fit, AboutStorage
<1>3. /\ End(todo, Luns)' /\ ~Steps("clear")' /\ ~Steps("wait")' /\ ~Steps("lun")'
      /\ (Steps("umount") \/ Steps("erase"))' => This'.s = This.s
  BY <1>1, AfterContinue DEF usb
<1>4. TypeOK'
  <2>1. todo' \in Seq(AStep)
    BY <1>3 DEF End, Part
  <2>2. pipe' \in Seq({"add", "remove"} \X Storage)
    BY <1>1, <1>2, SentType DEF IInv, TypeOK
  <2>3. mtppid' = None => pipe' = <<>>
    BY <1>1 DEF IInv, TypeOK, Connected, mtp
  <2>. QED
    BY <1>1, <2>1, <2>2, <2>3 DEF IInv, TypeOK, AStep, mtp, usb, flags, bounds
<1>s. ASSUME NEW s \in Storage, WillServe(s)' PROVE WillServe(s) /\ s # This.s
  <2>1. CASE (~Connected \/ This.s \notin mounted) /\ pipe' = pipe
    BY <1>1, <1>2, <1>s, <2>1, SameServed, NotConnected
  <2>2. CASE pipe' = Append(pipe, <<"remove", This.s>>)
    BY <1>1, <1>2, <1>s, <2>2, Sent DEF IInv
  <2>. QED
    BY <1>1, <2>1, <2>2
<1>5. Served'
  BY <1>1, <1>s DEF Served, IInv
<1>6. Ready'
  <2>1. PICK x \in Storage : x = This.s
    BY <1>2
  <2>2. ~WillServe(x)'
    BY <1>s, <2>1
  <2>. QED
    BY <1>3, <2>1, <2>2, TakenReady
<1>7. LunsApart' /\ UmsEnds'
  <2>1. UNCHANGED <<ums_enabled, lun, fresh, mounted>>
    BY <1>1 DEF usb
  <2>2. CASE Opens(This)
    BY <1>1, <2>1, <2>2, StillApart
  <2>3. CASE ~Opens(This)
    <3>1. ~ToLun(todo')
      BY <1>1, <2>3, AfterContinue DEF usb
    <3>. QED
      BY <1>1, <1>3, <2>1, <3>1, LunsKept
  <2>. QED
    BY <2>2, <2>3
<1>8. Zombies'
  BY <1>1, <1>3, ZombiesKept DEF mtp, Steps, This
<1>. QED
  BY <1>3, <1>4, <1>5, <1>6, <1>7, <1>8 DEF IInv

LEMMA WriteLunKeeps == ASSUME IInv, WriteLun PROVE IInv'
<1>1. /\ Steps("lun") /\ todo # <<>> /\ This.do = "lun"
      /\ \/ /\ lun' = [lun EXCEPT ![This.l] = This.s] /\ fresh' = fresh \cup {This.l}
            /\ Continue
         \/ UNCHANGED <<lun, fresh>> /\ (Continue \/ Fail)
      /\ UNCHANGED <<present, mounted, mtp, table, config, ums_enabled, luns, flags, bounds>>
  BY DEF WriteLun, Steps, This
<1>2. This.s \in Storage /\ This.l \in Luns /\ This.s \notin mounted /\ Opens(This)
  <2>1. Fit(This, Luns) /\ This \in AStep
    BY <1>1, Now
  <2>2. This.l \in 0..2 /\ This.l < 2
    BY <1>1, <2>1 DEF Fit, AStep
  <2>3. Opens(This)
    BY <1>1, <2>2 DEF Opens
  <2>. QED
    BY <1>1, <2>1, <2>3 DEF Fit, AboutStorage, IInv, Ready
<1>3. End(todo, Luns)' /\ Calm(todo)'
  BY <1>1, AfterContinue, AfterFail
<1>l. This.l \in {0, 1} /\ lun \in [{0, 1} -> Storage \cup {None}]
  BY <1>2 DEF Luns, IInv, TypeOK
<1>4. TypeOK'
  <2>1. todo' \in Seq(AStep)
    BY <1>3 DEF End, Part
  <2>2. lun' \in [{0, 1} -> Storage \cup {None}] /\ fresh' \subseteq {0, 1}
    BY <1>1, <1>2, <1>l DEF IInv, TypeOK
  <2>. QED
    BY <1>1, <2>1, <2>2 DEF IInv, TypeOK, AStep, mtp, table, flags, bounds
<1>5. Served'
  BY <1>1, ServedKept
<1>6. Ready' /\ ~Steps("clear")' /\ ~Steps("wait")'
  BY <1>3, CalmReady
<1>7. ~ums_enabled'
  BY <1>1, UmsOff
<1>8. LunsApart' /\ UmsEnds'
  <2>1. \A l \in fresh : lun[l] \notin mounted
    BY <1>1, <1>2 DEF IInv, LunsApart, ToLun, This
  <2>2. \A l \in fresh' : lun'[l] \notin mounted
    <3>1. CASE UNCHANGED <<lun, fresh>>
      BY <2>1, <3>1
    <3>2. CASE lun' = [lun EXCEPT ![This.l] = This.s] /\ fresh' = fresh \cup {This.l}
      <4>1. \A l \in {0, 1} : lun'[l] = IF l = This.l THEN This.s ELSE lun[l]
        BY <1>l, <3>2
      <4>2. fresh \subseteq {0, 1}
        BY DEF IInv, TypeOK
      <4>. QED
        BY <1>2, <1>l, <2>1, <3>2, <4>1, <4>2
    <3>. QED
      BY <1>1, <3>1, <3>2
  <2>. QED
    BY <1>1, <1>7, <2>2 DEF LunsApart, UmsEnds
<1>9. Zombies'
  BY <1>1, <1>6, ZombiesKept DEF mtp, Steps, This
<1>. QED
  BY <1>3, <1>4, <1>5, <1>6, <1>8, <1>9 DEF IInv

LEMMA ExportKeeps == ASSUME IInv, Export PROVE IInv'
<1>1. /\ todo # <<>> /\ This.do = "export" /\ Continue
      /\ ums_enabled' = TRUE /\ config' = "mass_storage,adb"
      /\ UNCHANGED <<present, mounted, mtp, table, lun, luns, fresh, flags, bounds>>
  BY DEF Export, Steps, This
<1>2. todo' = <<>>
  <2>. SUFFICES ASSUME Tail(todo) # <<>> PROVE FALSE
    BY <1>1 DEF Continue
  <2>1. Follows(This, Head(Tail(todo)))
    BY <1>1, Now
  <2>. QED
    BY <1>1, <2>1 DEF Follows
<1>3. End(todo, Luns)' /\ Calm(todo)'
  BY <1>1, AfterContinue
<1>4. TypeOK'
  <2>1. todo' \in Seq(AStep)
    BY <1>3 DEF End, Part
  <2>. QED
    BY <1>1, <2>1 DEF IInv, TypeOK, AStep, mtp, table, flags, bounds
<1>5. Served'
  BY <1>1, ServedKept
<1>6. Ready' /\ ~Steps("clear")' /\ ~Steps("wait")'
  BY <1>3, CalmReady
<1>7. LunsApart' /\ UmsEnds'
  <2>1. \A l \in fresh : lun[l] \notin mounted
    BY <1>1 DEF IInv, LunsApart, ToLun, This
  <2>. QED
    BY <1>1, <1>2, <2>1 DEF LunsApart, UmsEnds, Idle
<1>8. Zombies'
  BY <1>1, <1>6, ZombiesKept DEF mtp, Steps, This
<1>. QED
  BY <1>3, <1>4, <1>5, <1>6, <1>7, <1>8 DEF IInv

\* The sequence usb_storage_disable ends with.
LEMMA ReclaimEnds ==
    ASSUME NEW files
    PROVE  End(Reclaim, files) /\ Calm(Reclaim) /\ ~ToLun(Reclaim) /\ Reclaims(Reclaim)
<1>. DEFINE n == Len(Partitions)
            t == [k \in 1..n |-> On("mount all", Partitions[k])]
            z == Step("unexport")
<1>0. Partitions \in Seq(Storage) /\ n \in Nat
  BY PartitionsAssumption
<1>1. Fit(z, files) /\ z.do = "unexport" /\ z \in AStep
  BY StepFits DEF Step, Fit
<1>2. ASSUME NEW k \in 1..n
      PROVE  Fit(t[k], files) /\ t[k].do = "mount all" /\ t[k] \in AStep
  <2>1. t[k] = On("mount all", Partitions[k]) /\ Partitions[k] \in Storage
    BY <1>0
  <2>2. Fit(On("mount all", Partitions[k]), files)
    BY <2>1, OnFitsAll
  <2>. QED
    BY <2>1, <2>2 DEF Fit, On
<1>3. t \in Seq(AStep) /\ Len(t) = n
  <2>1. t \in [1..n -> AStep]
    BY <1>2
  <2>. HIDE DEF t, n
  <2>. QED
    BY <1>0, <2>1
<1>. HIDE DEF t, z, n
<1>4. Part(t, files)
  <2>1. \A k \in 1..Len(t) - 1 : k \in 1..n /\ k + 1 \in 1..n
    BY <1>0, <1>3
  <2>. QED
    BY <1>2, <1>3, <2>1 DEF Part, Follows
<1>5. /\ Append(t, z) \in Seq(AStep) /\ Len(Append(t, z)) = n + 1
      /\ \A k \in 1..n : Append(t, z)[k] = t[k]
      /\ Append(t, z)[n + 1] = z
  BY <1>0, <1>1, <1>3
<1>. DEFINE u == Append(t, z)
<1>6. \A k \in 1..Len(u) : Fit(u[k], files)
  <2>. SUFFICES ASSUME NEW k \in 1..Len(u) PROVE Fit(u[k], files)
    OBVIOUS
  <2>1. k \in 1..n \/ k = n + 1
    BY <1>0, <1>5
  <2>. QED
    BY <1>1, <1>2, <1>5, <2>1
<1>7. \A k \in 1..Len(u) - 1 : Follows(u[k], u[k + 1])
  <2>. SUFFICES ASSUME NEW k \in 1..Len(u) - 1 PROVE Follows(u[k], u[k + 1])
    OBVIOUS
  <2>1. k \in 1..n /\ (k + 1 \in 1..n \/ k + 1 = n + 1)
    BY <1>0, <1>5
  <2>2. u[k].do = "mount all" /\ u[k + 1].do \in {"mount all", "unexport"}
    BY <1>1, <1>2, <1>5, <2>1
  <2>. QED
    BY <2>2 DEF Follows
<1>8. MayEnd(z)
  BY <1>1 DEF MayEnd, Opens
<1>9. Head(u).do \in {"mount all", "unexport"} /\ u # <<>>
  <2>1. u \in Seq(AStep) /\ Len(u) = n + 1 /\ n + 1 # 0
    BY <1>0, <1>5
  <2>2. 1 \in 1..n \/ 1 = n + 1
    BY <1>0
  <2>3. u[1].do \in {"mount all", "unexport"}
    BY <1>1, <1>2, <1>5, <2>2
  <2>. HIDE DEF u
  <2>4. u # <<>> /\ Head(u) = u[1]
    BY <1>0, <2>1
  <2>. QED
    BY <2>3, <2>4
<1>12. \A k \in 1..Len(u) : u[k].do \in {"mount all", "unexport"}
  <2>. SUFFICES ASSUME NEW k \in 1..Len(u) PROVE u[k].do \in {"mount all", "unexport"}
    OBVIOUS
  <2>1. k \in 1..n \/ k = n + 1
    BY <1>0, <1>5
  <2>. QED
    BY <1>1, <1>2, <1>5, <2>1
<1>10. Reclaim = u
  BY DEF Reclaim, t, z, n
<1>. HIDE DEF u
<1>11. u \in Seq(AStep) /\ u[Len(u)] = z
  BY <1>5 DEF u
<1>. QED
  BY <1>1, <1>6, <1>7, <1>8, <1>9, <1>10, <1>11, <1>12 DEF End, Part, Calm, ToLun, Opens, Reclaims

LEMMA UnexportKeeps == ASSUME IInv, Unexport PROVE IInv'
<1>1. /\ todo # <<>> /\ This.do = "unexport" /\ todo' = Restart
      /\ ums_enabled' = FALSE /\ config' = "adb"
      /\ UNCHANGED <<present, mounted, mtp, table, lun, luns, fresh, flags, bounds>>
  BY DEF Unexport, Steps, This
<1>3. End(todo, Luns)' /\ Calm(todo)' /\ ~ToLun(todo')
  BY <1>1, RestartEnds DEF Calm
<1>4. TypeOK'
  <2>1. todo' \in Seq(AStep)
    BY <1>3 DEF End, Part
  <2>. QED
    BY <1>1, <2>1 DEF IInv, TypeOK, AStep, mtp, table, flags, bounds
<1>5. Served'
  BY <1>1, ServedKept
<1>6. Ready' /\ ~Steps("clear")' /\ ~Steps("wait")'
  BY <1>3, CalmReady
<1>7. LunsApart' /\ UmsEnds'
  BY <1>1, <1>3 DEF LunsApart, UmsEnds
<1>8. Zombies'
  BY <1>1, <1>6, ZombiesKept DEF mtp, Steps, This
<1>. QED
  BY <1>3, <1>4, <1>5, <1>6, <1>7, <1>8 DEF IInv

LEMMA ClearLunKeeps == ASSUME IInv, ClearLun PROVE IInv'
<1>. DEFINE second == For("clear", None, 1)
<1>0. /\ Fit(second, Luns') /\ second.do = "clear" /\ second.l = 1 /\ End(<<second>>, Luns')
      /\ Head(<<second>>) = second /\ <<second>> # <<>>
  <2>1. Fit(second, Luns') /\ second.do = "clear" /\ second.l = 1
    BY ForFits DEF For
  <2>2. MayEnd(second)
    BY <2>1 DEF MayEnd, Opens
  <2>. HIDE DEF second
  <2>. QED
    BY <2>1, <2>2, OneStep
<1>. HIDE DEF second
<1>1. /\ Steps("clear") /\ todo # <<>> /\ This.do = "clear"
      /\ todo' = <<second>> \/ todo' = Reclaim
      /\ UNCHANGED <<present, mounted, mtp, table, usb, flags, bounds>>
  BY DEF ClearLun, Steps, This, second
<1>2. /\ End(todo, Luns)' /\ ~ToLun(todo')
      /\ \/ Calm(todo)' /\ Reclaims(todo')
         \/ Steps("clear")'
  <2>1. CASE todo' = Reclaim
    BY <2>1, ReclaimEnds DEF Calm
  <2>2. CASE todo' = <<second>>
    BY <1>0, <2>2 DEF Steps, ToLun, Opens
  <2>. QED
    BY <1>1, <2>1, <2>2
<1>3. Ready' /\ ~Steps("wait")'
  <2>1. ASSUME Steps("clear")' PROVE Ready' /\ ~Steps("wait")'
    BY <2>1 DEF Steps, Ready
  <2>. QED
    BY <1>2, <2>1, CalmReady
<1>4. TypeOK'
  <2>1. todo' \in Seq(AStep)
    BY <1>2 DEF End, Part
  <2>. QED
    BY <1>1, <2>1 DEF IInv, TypeOK, AStep, mtp, table, usb, flags, bounds
<1>5. Served'
  BY <1>1, ServedKept
<1>7. UmsEnds'
  BY <1>2 DEF UmsEnds
<1>8. LunsApart'
  <2>1. ums_enabled => \A l \in fresh : lun[l] \notin mounted
    BY <1>1 DEF IInv, LunsApart
  <2>. QED
    BY <1>1, <1>2, <2>1 DEF LunsApart, usb
<1>9. Zombies'
  BY <1>1, <1>3, ZombiesKept DEF mtp, Steps, This
<1>. QED
  BY <1>2, <1>3, <1>4, <1>5, <1>7, <1>8, <1>9 DEF IInv

\* What Add_All_MTP_Storage does.
LEMMA AddAllEnds ==
    ASSUME NEW files
    PROVE  End(Add_All_MTP_Storage, files) /\ Calm(Add_All_MTP_Storage)
           /\ ~ToLun(Add_All_MTP_Storage)
<1>. DEFINE n == Len(Partitions)
            t == Add_All_MTP_Storage
<1>0. Partitions \in Seq(Storage) /\ n \in Nat /\ 2 * n \in Nat
  BY PartitionsAssumption
<1>1. ASSUME NEW k \in 1..2 * n
      PROVE  /\ Fit(t[k], files) /\ t[k] \in AStep
             /\ t[k].do = IF k % 2 = 1 THEN "mount all" ELSE "add all"
  <2>1. CASE k % 2 = 1
    <3>1. (k + 1) \div 2 \in 1..n
      BY <1>0, <2>1
    <3>2. t[k] = On("mount all", Partitions[(k + 1) \div 2]) /\ Partitions[(k + 1) \div 2] \in Storage
      BY <1>0, <2>1, <3>1 DEF Add_All_MTP_Storage
    <3>3. Fit(On("mount all", Partitions[(k + 1) \div 2]), files)
      BY <3>2, OnFitsAll
    <3>4. On("mount all", Partitions[(k + 1) \div 2]).do = "mount all"
      BY DEF On
    <3>. HIDE DEF t
    <3>5. Fit(t[k], files) /\ t[k].do = "mount all"
      BY <3>2, <3>3, <3>4
    <3>6. t[k] \in AStep
      BY <3>5 DEF Fit
    <3>. QED
      BY <2>1, <3>5, <3>6
  <2>2. CASE k % 2 # 1
    <3>1. k \div 2 \in 1..n
      BY <1>0, <2>2
    <3>2. t[k] = On("add all", Partitions[k \div 2]) /\ Partitions[k \div 2] \in Storage
      BY <1>0, <2>2, <3>1 DEF Add_All_MTP_Storage
    <3>3. Fit(On("add all", Partitions[k \div 2]), files)
      BY <3>2, OnFitsAll
    <3>4. On("add all", Partitions[k \div 2]).do = "add all"
      BY DEF On
    <3>. HIDE DEF t
    <3>5. Fit(t[k], files) /\ t[k].do = "add all"
      BY <3>2, <3>3, <3>4
    <3>6. t[k] \in AStep
      BY <3>5 DEF Fit
    <3>. QED
      BY <2>2, <3>5, <3>6
  <2>. QED
    BY <2>1, <2>2
<1>2. t = [k \in 1..2 * n |-> t[k]]
  BY DEF Add_All_MTP_Storage
<1>. HIDE DEF t
<1>3. t \in Seq(AStep) /\ Len(t) = 2 * n
  <2>. DEFINE m == 2 * n
  <2>1. t \in [1..m -> AStep] /\ m \in Nat
    BY <1>0, <1>1, <1>2
  <2>. HIDE DEF m
  <2>2. t \in Seq(AStep) /\ Len(t) = m
    BY <2>1
  <2>. QED
    BY <2>2 DEF m
<1>4. \A k \in 1..Len(t) - 1 : Follows(t[k], t[k + 1])
  <2>. SUFFICES ASSUME NEW k \in 1..Len(t) - 1 PROVE Follows(t[k], t[k + 1])
    OBVIOUS
  <2>1. k \in 1..2 * n /\ k + 1 \in 1..2 * n
    BY <1>0, <1>3
  <2>2. CASE k % 2 = 1
    <3>1. (k + 1) % 2 # 1
      BY <2>1, <2>2
    <3>2. t[k].do = "mount all" /\ t[k + 1].do = "add all"
      BY <1>1, <2>1, <2>2, <3>1
    <3>. QED
      BY <3>2 DEF Follows
  <2>3. CASE k % 2 # 1
    <3>1. (k + 1) % 2 = 1
      BY <2>1, <2>3
    <3>2. t[k].do = "add all" /\ t[k + 1].do = "mount all"
      BY <1>1, <2>1, <2>3, <3>1
    <3>. QED
      BY <3>2 DEF Follows
  <2>. QED
    BY <2>2, <2>3
<1>5. t # <<>> => MayEnd(t[Len(t)]) /\ Head(t).do \in {"mount all", "add all"}
  <2>. SUFFICES ASSUME t # <<>> PROVE MayEnd(t[Len(t)]) /\ Head(t).do \in {"mount all", "add all"}
    OBVIOUS
  <2>1. Len(t) \in 1..Len(t) /\ 1 \in 1..Len(t) /\ Head(t) = t[1]
    BY <1>0, <1>3
  <2>2. t[Len(t)].do \in {"mount all", "add all"} /\ t[1].do \in {"mount all", "add all"}
    BY <1>1, <1>3, <2>1
  <2>. QED
    BY <2>1, <2>2 DEF MayEnd, Opens
<1>6. \A k \in 1..Len(t) : Fit(t[k], files)
  BY <1>1, <1>3
<1>. QED
  BY <1>3, <1>4, <1>5, <1>6 DEF End, Part, Calm, ToLun, Opens, t

LEMMA NothingMore == ASSUME NEW t \in Seq(AStep) PROVE t \o <<>> = t
  OBVIOUS

LEMMA StartKeeps == ASSUME IInv, Start PROVE IInv'
<1>1. /\ todo # <<>> /\ This.do = "start"
      /\ UNCHANGED <<present, mounted, ums_enabled, lun, luns, fresh, mtp_was_enabled, bounds>>
  BY DEF Start, Steps, This
<1>2. Tail(todo) = <<>>
  <2>. SUFFICES ASSUME Tail(todo) # <<>> PROVE FALSE
    OBVIOUS
  <2>1. Follows(This, Head(Tail(todo)))
    BY <1>1, Now
  <2>. QED
    BY <1>1, <2>1 DEF Follows
<1>3. End(todo, Luns)' /\ Calm(todo)' /\ ~ToLun(todo')
  <2>1. ASSUME NEW t, End(t, Luns'), Calm(t), ~ToLun(t), Then(t)
        PROVE  End(todo, Luns)' /\ Calm(todo)' /\ ~ToLun(todo')
    <3>1. todo' = t
      BY <1>2, <2>1, NothingMore DEF Then, End, Part
    <3>. QED
      BY <2>1, <3>1 DEF Calm
  <2>2. CASE Continue
    BY <1>1, <2>2, AfterContinue DEF Opens
  <2>3. CASE Then(Add_All_MTP_Storage)
    BY <2>1, <2>3, AddAllEnds
  <2>4. CASE Then(Disable_MTP)
    <3>1. Calm(Disable_MTP) /\ ~ToLun(Disable_MTP)
      BY DisableMtpPart DEF Calm, ToLun, Opens
    <3>. QED
      BY <2>1, <2>4, <3>1, DisableMtpPart
  <2>5. CASE Then(<<>>)
    <3>1. End(<<>>, Luns') /\ Calm(<<>>) /\ ~ToLun(<<>>)
      BY DEF End, Part, Calm, ToLun
    <3>. QED
      BY <2>1, <2>5, <3>1
  <2>. QED
    BY <2>2, <2>3, <2>4, <2>5 DEF Start
<1>4. \/ UNCHANGED <<mtp, table>>
      \/ /\ mtppid' = "mtp" /\ mtp_write_fd' = TRUE /\ pipe' = <<>> /\ served' = {}
         /\ UNCHANGED <<zombies, other, stolen>>
  BY DEF Start
<1>5. TypeOK'
  <2>1. todo' \in Seq(AStep)
    BY <1>3 DEF End, Part
  <2>2. config' \in {config, "mtp,adb"} /\ tw_mtp_enabled' \in {tw_mtp_enabled, TRUE}
    BY DEF Start
  <2>3. pipe' \in Seq({"add", "remove"} \X Storage) /\ served' \subseteq Storage
    <3>. DEFINE Message == {"add", "remove"} \X Storage
    <3>1. pipe \in Seq(Message) /\ served \subseteq Storage
      BY DEF IInv, TypeOK
    <3>. HIDE DEF Message
    <3>2. (pipe' = pipe /\ served' = served) \/ (pipe' = <<>> /\ served' = {})
      BY <1>4 DEF table
    <3>3. pipe' \in Seq(Message) /\ served' \subseteq Storage
      <4>1. CASE pipe' = pipe /\ served' = served
        BY <3>1, <4>1
      <4>2. CASE pipe' = <<>> /\ served' = {}
        BY <4>2
      <4>. QED
        BY <3>2, <4>1, <4>2
    <3>. QED
      BY <3>3 DEF Message
  <2>4. /\ mtppid' \in {"mtp", None} /\ mtp_write_fd' \in BOOLEAN
        /\ (mtppid' # None) => mtp_write_fd'
        /\ (mtppid' = None) => (pipe' = <<>> /\ served' = {})
        /\ zombies' \in Nat /\ stolen' \in Nat /\ other' \in {"none", "alive", "zombie"}
    BY <1>4 DEF IInv, TypeOK, mtp, table
  <2>. QED
    BY <1>1, <2>1, <2>2, <2>3, <2>4 DEF IInv, TypeOK, AStep, bounds
<1>6. Served'
  <2>1. CASE UNCHANGED <<mtp, table>>
    BY <1>1, <2>1, ServedKept
  <2>2. CASE pipe' = <<>> /\ served' = {}
    BY <2>2 DEF Served, WillServe
  <2>. QED
    BY <1>4, <2>1, <2>2
<1>7. Ready' /\ ~Steps("clear")' /\ ~Steps("wait")'
  BY <1>3, CalmReady
<1>8. LunsApart' /\ UmsEnds'
  BY <1>1, <1>3, <1>7, LunsKept
<1>9. Zombies'
  BY <1>1, <1>4, <1>7, ZombiesKept DEF mtp, Steps, This
<1>. QED
  BY <1>3, <1>5, <1>6, <1>7, <1>8, <1>9 DEF IInv

\* Disable_MTP goes on with the configuration of adb instead of the wait.
AdbInstead(t, files) ==
    LET u == <<Step("adb")>> \o Tail(t) IN End(u, files) /\ Calm(u) /\ ~ToLun(u) /\ u # <<>>

LEMMA AdbGoesOn ==
    ASSUME NEW t, NEW files, End(t, files), t # <<>>, Head(t).do = "wait"
    PROVE  AdbInstead(t, files)
<1>. DEFINE a == Step("adb")
<1>1. Fit(a, files) /\ a.do = "adb" /\ a \in AStep
  BY StepFits DEF Step, Fit
<1>. HIDE DEF a
<1>2. /\ Part(<<a>>, files) /\ End(<<a>>, files) /\ <<a>> # <<>> /\ Head(<<a>>) = a
      /\ <<a>>[Len(<<a>>)] = a /\ <<a>>[1] = a /\ <<a>> \in Seq(AStep)
  BY <1>1, OneStep DEF MayEnd, Opens
<1>3. CASE Tail(t) = <<>>
  <2>1. <<a>> \o Tail(t) = <<a>>
    BY <1>2, <1>3, NothingMore
  <2>. QED
    BY <1>1, <1>2, <2>1 DEF AdbInstead, Calm, ToLun, Opens, a
<1>4. CASE Tail(t) # <<>>
  <2>1. End(Tail(t), files) /\ Follows(Head(t), Head(Tail(t))) /\ Tail(t) \in Seq(AStep)
    BY <1>4, TailEnd DEF End, Part
  <2>2. Head(Tail(t)) = Tail(t)[1]
    BY <1>4, <2>1
  <2>3. Follows(a, Tail(t)[1])
    <3>1. Head(Tail(t)).do = "select"
      BY <2>1 DEF Follows
    <3>. QED
      BY <1>1, <2>2, <3>1 DEF Follows
  <2>4. /\ End(<<a>> \o Tail(t), files) /\ <<a>> \o Tail(t) # <<>>
        /\ Head(<<a>> \o Tail(t)) = a
    BY <1>2, <1>4, <2>1, <2>3, Joined
  <2>. QED
    BY <1>1, <2>4 DEF AdbInstead, Calm, ToLun, Opens, a
<1>. QED
  BY <1>3, <1>4

LEMMA KillKeeps == ASSUME IInv, Kill PROVE IInv'
<1>1. /\ todo # <<>> /\ This.do = "kill"
      /\ zombies' = IF mtppid # None THEN zombies + 1 ELSE zombies
      /\ mtppid' = None /\ served' = {} /\ pipe' = <<>>
      /\ config' = IF config = "adb" THEN "adb" ELSE "none"
      /\ todo' = IF mtppid # None THEN Tail(todo) ELSE <<Step("adb")>> \o Tail(Tail(todo))
      /\ UNCHANGED <<present, mounted, mtp_write_fd, other, stolen, ums_enabled, lun, luns, fresh,
                     flags, bounds>>
  BY DEF Kill, Steps, This
<1>3. Tail(todo) # <<>> /\ Head(Tail(todo)).do = "wait" /\ End(Tail(todo), Luns)
  <2>1. Tail(todo) # <<>>
    BY <1>1, Now DEF MayEnd
  <2>2. Follows(This, Head(Tail(todo)))
    BY <1>1, <2>1, Now
  <2>3. Head(Tail(todo)).do = "wait"
    BY <1>1, <2>2 DEF Follows
  <2>. QED
    BY <1>1, <2>1, <2>3, Now
<1>4. End(todo, Luns)' /\ ~Steps("clear")' /\ Ready' /\ (Steps("wait")' <=> mtppid # None)
      /\ ~ToLun(todo')
  <2>1. CASE mtppid # None
    <3>1. todo' = Tail(todo) /\ Luns' = Luns
      BY <1>1, <2>1 DEF Luns
    <3>2. Head(todo').do = "wait" /\ todo' # <<>> /\ End(todo', Luns')
      BY <1>3, <3>1
    <3>. QED
      BY <1>1, <2>1, <3>2 DEF Ready, Steps, ToLun, Opens
  <2>2. CASE mtppid = None
    <3>1. AdbInstead(Tail(todo), Luns)
      BY <1>3, AdbGoesOn
    <3>2. todo' = <<Step("adb")>> \o Tail(Tail(todo)) /\ Luns' = Luns
      BY <1>1, <2>2 DEF Luns
    <3>3. End(todo', Luns') /\ Calm(todo)' /\ ~ToLun(todo') /\ todo' # <<>>
      BY <3>1, <3>2 DEF AdbInstead, Calm
    <3>. QED
      BY <2>2, <3>3, CalmReady
  <2>. QED
    BY <2>1, <2>2
<1>5. Zombies' /\ zombies' \in Nat
  <2>1. zombies \in Nat /\ zombies = stolen
    BY <1>1 DEF IInv, TypeOK, Zombies, Lost, Steps, This
  <2>2. zombies' \in Nat /\ Lost' = zombies
    BY <1>1, <1>4, <2>1 DEF Lost
  <2>. QED
    BY <1>1, <2>1, <2>2 DEF Zombies
<1>6. TypeOK'
  <2>1. todo' \in Seq(AStep)
    BY <1>4 DEF End, Part
  <2>2. pipe' \in Seq({"add", "remove"} \X Storage)
    BY <1>1
  <2>. QED
    BY <1>1, <1>5, <2>1, <2>2 DEF IInv, TypeOK, AStep, flags, bounds
<1>7. Served'
  BY <1>1 DEF Served, WillServe
<1>8. LunsApart' /\ UmsEnds'
  BY <1>1, <1>4, LunsKept
<1>. QED
  BY <1>4, <1>5, <1>6, <1>7, <1>8 DEF IInv

LEMMA WaitKeeps == ASSUME IInv, Wait PROVE IInv'
<1>1. /\ Steps("wait") /\ todo # <<>> /\ This.do = "wait"
      /\ \/ zombies > 0 /\ zombies' = zombies - 1 /\ UNCHANGED <<other, stolen>>
         \/ other' = "none" /\ stolen' = stolen + 1 /\ UNCHANGED zombies
      /\ mtp_write_fd' = FALSE
      /\ todo' = <<Step("adb")>> \o Tail(todo)
      /\ UNCHANGED <<present, mounted, mtppid, table, usb, flags, bounds>>
  BY DEF Wait, Steps, This, Then
<1>2. mtppid = None
  BY <1>1 DEF IInv, Ready
<1>3. End(todo, Luns)' /\ Calm(todo)' /\ ~ToLun(todo')
  <2>1. AdbInstead(todo, Luns)
    BY <1>1, AdbGoesOn DEF IInv, This
  <2>2. Luns' = Luns
    BY <1>1 DEF Luns, usb
  <2>. QED
    BY <1>1, <2>1, <2>2 DEF AdbInstead, Calm
<1>4. Ready' /\ ~Steps("clear")' /\ ~Steps("wait")'
  BY <1>3, CalmReady
<1>5. /\ Zombies' /\ zombies' \in Nat /\ stolen' \in Nat
      /\ other' \in {"none", "alive", "zombie"}
  <2>1. /\ zombies \in Nat /\ stolen \in Nat /\ zombies - 1 = stolen
        /\ other \in {"none", "alive", "zombie"}
    BY <1>1 DEF IInv, TypeOK, Zombies, Lost
  <2>2. /\ zombies' \in Nat /\ stolen' \in Nat /\ zombies' = stolen'
        /\ other' \in {"none", "alive", "zombie"}
    BY <1>1, <2>1
  <2>3. Lost' = zombies'
    BY <1>4 DEF Lost
  <2>. QED
    BY <2>2, <2>3 DEF Zombies
<1>6. TypeOK'
  <2>1. todo' \in Seq(AStep)
    BY <1>3 DEF End, Part
  <2>. QED
    BY <1>1, <1>2, <1>5, <2>1 DEF IInv, TypeOK, AStep, table, usb, flags, bounds
<1>7. Served'
  BY <1>1, ServedKept
<1>8. LunsApart' /\ UmsEnds'
  BY <1>1, <1>3, <1>4, LunsKept DEF usb
<1>. QED
  BY <1>3, <1>4, <1>5, <1>6, <1>7, <1>8 DEF IInv

\* There is a first of the storages that come next.
LEMMA Least ==
    ASSUME NEW S \in SUBSET Nat, S # {} PROVE \E i \in S : \A j \in S : i <= j
<1>1. PICK i \in S : \A j \in S : <<j, i>> \notin OpToRel(<, Nat)
  BY WFMin, NatLessThanWellFounded, Zenon
<1>2. ASSUME NEW j \in S PROVE ~(j < i)
  BY <1>1 DEF OpToRel
<1>. QED
  BY <1>2

LEMMA NextIsStorage ==
    ASSUME NEW s
    PROVE  Find_Next_Storage(s) \in Storage \cup {None}
<1>. DEFINE from == IF s = None THEN 0 ELSE CHOOSE i \in DOMAIN Partitions : Partitions[i] = s
            next == {i \in DOMAIN Partitions : i > from /\ Partitions[i] \in present \ DataMedia}
            k == CHOOSE i \in next : \A j \in next : i <= j
<1>1. Find_Next_Storage(s) = IF next = {} THEN None ELSE Partitions[k]
  BY DEF Find_Next_Storage
<1>2. Partitions \in Seq(Storage) /\ DOMAIN Partitions \in SUBSET Nat
  BY PartitionsAssumption
<1>3. next \subseteq DOMAIN Partitions
  OBVIOUS
<1>. HIDE DEF next
<1>4. next # {} => k \in next
  <2>1. next # {} => \E i \in next : \A j \in next : i <= j
    BY <1>2, <1>3, Least
  <2>. QED
    BY <2>1
<1>. HIDE DEF k
<1>5. next # {} => Partitions[k] \in Storage
  BY <1>2, <1>3, <1>4
<1>. QED
  BY <1>1, <1>5

\* The storages usb_storage_enable opens: none is missing but the first.
LEMMA ExportedAre ==
    ASSUME NEW c \in Storage
    PROVE  LET open == Exported(c) IN
           \/ open = <<>>
           \/ open = <<None>>
           \/ \E a \in Storage : open = <<a>>
           \/ luns /\ \E a, b \in Storage : open = <<a, b>>
<1>. DEFINE first == Find_Next_Storage(None)
            second == Find_Next_Storage(first)
            own == IF c \in DataMedia THEN <<>> ELSE <<c>>
<1>0. first \in Storage \cup {None} /\ second \in Storage \cup {None}
  BY NextIsStorage
<1>1. Exported(c) =
        IF ~luns THEN IF c \in DataMedia THEN <<first>> ELSE own
        ELSE IF first = None THEN own
        ELSE <<first>> \o IF second # None THEN <<second>> ELSE own
  BY DEF Exported
<1>. HIDE DEF first, second
<1>2. own = <<>> \/ own = <<c>>
  OBVIOUS
<1>. HIDE DEF own
<1>3. \A a, b : <<a>> \o <<b>> = <<a, b>> /\ <<a>> \o <<>> = <<a>>
  BY OneAndOne
<1>4. CASE ~luns
  BY <1>0, <1>1, <1>2, <1>4
<1>5. CASE luns /\ first = None
  BY <1>1, <1>2, <1>5
<1>6. CASE luns /\ first # None
  <2>1. first \in Storage
    BY <1>0, <1>6
  <2>2. CASE second # None
    <3>1. Exported(c) = <<first, second>> /\ second \in Storage
      BY <1>0, <1>1, <1>3, <1>6, <2>2
    <3>. QED
      BY <1>6, <2>1, <3>1
  <2>3. CASE second = None
    <3>1. Exported(c) = <<first>> \/ Exported(c) = <<first, c>>
      BY <1>1, <1>2, <1>3, <1>6, <2>3
    <3>. QED
      BY <1>6, <2>1, <3>1
  <2>. QED
    BY <2>2, <2>3
<1>. QED
  BY <1>4, <1>5, <1>6

\* Opening one lun file, or both, and then exporting them.
LEMMA OpenPart ==
    ASSUME NEW files, NEW s \in Storage, NEW l \in files \cap {0, 1}
    PROVE  LET t == Open_Lun_File(s, l) IN
           /\ Part(t, files) /\ t # <<>> /\ t[Len(t)].do = "lun"
           /\ t[1].do = "remove" /\ t[1].l = l
<1>1. /\ Fit(For("remove", s, l), files) /\ Fit(For("umount", s, l), files)
      /\ Fit(For("lun", s, l), files)
  BY OpenFits
<1>2. /\ Follows(For("remove", s, l), For("umount", s, l))
      /\ Follows(For("umount", s, l), For("lun", s, l))
  BY DEF Follows, SamePlace, For
<1>3. For("lun", s, l).do = "lun" /\ For("remove", s, l).do = "remove" /\ For("remove", s, l).l = l
  BY DEF For
<1>4. Part(<<For("remove", s, l), For("umount", s, l), For("lun", s, l)>>, files)
  BY <1>1, <1>2, ThreeSteps
<1>. QED
  BY <1>3, <1>4 DEF Open_Lun_File

LEMMA OpenEnds ==
    ASSUME NEW files, {0} \subseteq files, NEW a \in Storage, NEW b \in Storage
    PROVE  /\ End(Open_Lun_File(a, 0) \o <<>> \o <<Step("export")>>, files)
           /\ Calm(Open_Lun_File(a, 0) \o <<>> \o <<Step("export")>>)
           /\ 1 \in files =>
                 /\ End(Open_Lun_File(a, 0) \o Open_Lun_File(b, 1) \o <<Step("export")>>, files)
                 /\ Calm(Open_Lun_File(a, 0) \o Open_Lun_File(b, 1) \o <<Step("export")>>)
<1>. DEFINE t == Open_Lun_File(a, 0)
            u == Open_Lun_File(b, 1)
            z == <<Step("export")>>
<1>1. /\ Part(t, files) /\ t # <<>> /\ t[Len(t)].do = "lun" /\ t[1].do = "remove"
      /\ t \in Seq(AStep)
  <2>1. 0 \in files \cap {0, 1}
    OBVIOUS
  <2>2. Part(t, files) /\ t # <<>> /\ t[Len(t)].do = "lun" /\ t[1].do = "remove"
    BY <2>1, OpenPart
  <2>. QED
    BY <2>2 DEF Part
<1>2. 1 \in files => /\ Part(u, files) /\ u # <<>> /\ u[Len(u)].do = "lun"
                     /\ u[1].do = "remove" /\ u[1].l = 1
  BY OpenPart
<1>3. End(z, files) /\ z # <<>> /\ z[1].do = "export"
  BY ExportEnds
<1>. HIDE DEF t, u, z
<1>4. End(t \o z, files) /\ Calm(t \o z)
  <2>1. Follows(t[Len(t)], z[1])
    BY <1>1, <1>3 DEF Follows
  <2>2. End(t \o z, files) /\ Head(t \o z) = t[1]
    BY <1>1, <1>3, <2>1, Joined
  <2>. QED
    BY <1>1, <2>2 DEF Calm
<1>5. ASSUME 1 \in files PROVE End(t \o u \o z, files) /\ Calm(t \o u \o z)
  <2>1. Follows(t[Len(t)], u[1]) /\ Follows(u[Len(u)], z[1])
    BY <1>1, <1>2, <1>3, <1>5 DEF Follows
  <2>2. /\ Part(t \o u, files) /\ t \o u # <<>>
        /\ (t \o u)[Len(t \o u)] = u[Len(u)] /\ (t \o u)[1] = t[1]
    BY <1>1, <1>2, <1>5, <2>1, JoinedParts
  <2>. DEFINE v == t \o u
  <2>3. Part(v, files) /\ v # <<>> /\ Follows(v[Len(v)], z[1]) /\ v[1] = t[1]
    BY <2>1, <2>2
  <2>. HIDE DEF v
  <2>4. End(v \o z, files) /\ Head(v \o z) = v[1]
    BY <1>3, <2>3, Joined
  <2>. QED
    BY <1>1, <2>3, <2>4 DEF Calm, v
<1>6. t \o <<>> = t
  BY <1>1, NothingMore
<1>. QED
  BY <1>4, <1>5, <1>6 DEF t, u, z

LEMMA SelectKeeps == ASSUME IInv, Select PROVE IInv'
<1>. DEFINE open == Exported(This.s)
<1>1. /\ todo # <<>> /\ This.do = "select"
      /\ todo' = IF open # <<>> /\ open[1] = None THEN Restart
                 ELSE IF open = <<>> THEN <<Step("export")>>
                 ELSE Open_Lun_File(open[1], 0)
                      \o (IF Len(open) = 2 THEN Open_Lun_File(open[2], 1) ELSE <<>>)
                      \o <<Step("export")>>
      /\ fresh' = {}
      /\ UNCHANGED <<present, mounted, mtp, table, config, ums_enabled, lun, luns, flags,
                     bounds>>
  BY DEF Select, Steps, This
<1>2. This.s \in Storage
  BY <1>1, Now DEF Fit, AboutStorage
<1>3. End(todo, Luns)' /\ Calm(todo)'
  <2>1. /\ {0} \subseteq Luns /\ (luns => 1 \in Luns) /\ Luns' = Luns
        /\ None \notin Storage
    BY <1>1, PartitionsAssumption DEF Luns
  <2>2. \/ open = <<>>
        \/ open = <<None>>
        \/ \E a \in Storage : open = <<a>>
        \/ luns /\ \E a, b \in Storage : open = <<a, b>>
    BY <1>2, ExportedAre
  <2>. HIDE DEF open
  <2>. SUFFICES End(todo', Luns) /\ Calm(todo')
    BY <2>1 DEF Calm
  <2>3. CASE open = <<>>
    BY <1>1, <2>3, ExportEnds
  <2>4. CASE open = <<None>>
    BY <1>1, <2>4, RestartEnds
  <2>5. ASSUME NEW a \in Storage, open = <<a>> PROVE End(todo', Luns) /\ Calm(todo')
    <3>1. open # <<>> /\ open[1] = a /\ Len(open) # 2 /\ a # None
      BY <2>1, <2>5
    <3>2. todo' = Open_Lun_File(a, 0) \o <<>> \o <<Step("export")>>
      BY <1>1, <3>1
    <3>. QED
      BY <2>1, <3>2, OpenEnds
  <2>6. ASSUME luns, NEW a \in Storage, NEW b \in Storage, open = <<a, b>>
        PROVE  End(todo', Luns) /\ Calm(todo')
    <3>1. open # <<>> /\ open[1] = a /\ open[2] = b /\ Len(open) = 2 /\ a # None
      BY <2>1, <2>6
    <3>2. todo' = Open_Lun_File(a, 0) \o Open_Lun_File(b, 1) \o <<Step("export")>>
      BY <1>1, <3>1
    <3>. QED
      BY <2>1, <2>6, <3>2, OpenEnds
  <2>. QED
    BY <2>2, <2>3, <2>4, <2>5, <2>6
<1>4. TypeOK'
  <2>1. todo' \in Seq(AStep)
    BY <1>3 DEF End, Part
  <2>. QED
    BY <1>1, <2>1 DEF IInv, TypeOK, AStep, mtp, table, flags, bounds
<1>5. Served'
  BY <1>1, ServedKept
<1>6. Ready' /\ ~Steps("clear")' /\ ~Steps("wait")'
  BY <1>3, CalmReady
<1>7. LunsApart' /\ UmsEnds'
  <2>1. ~ums_enabled
    BY <1>1, UmsOff
  <2>. QED
    BY <1>1, <2>1 DEF LunsApart, UmsEnds
<1>8. Zombies'
  BY <1>1, <1>6, ZombiesKept DEF mtp, Steps, This
<1>. QED
  BY <1>3, <1>4, <1>5, <1>6, <1>7, <1>8 DEF IInv

-----------------------------------------------------------------------------
(***************************************************************************)
(* What runs beside the operation keeps it                                 *)
(***************************************************************************)
LEMMA SameTodo ==
    ASSUME IInv, todo' = todo, UNCHANGED usb, UNCHANGED bounds
    PROVE  End(todo, Luns)'
  BY DEF IInv, Luns, usb

LEMMA ServeKeepsAll == ASSUME IInv, Serve PROVE IInv'
<1>1. /\ mtppid # None /\ pipe # <<>> /\ pipe' = Tail(pipe)
      /\ served' = IF Head(pipe)[1] = "add" THEN served \cup {Head(pipe)[2]}
                   ELSE served \ {Head(pipe)[2]}
      /\ UNCHANGED <<present, mounted, mtp, usb, flags, todo, bounds>>
  BY DEF Serve
<1>2. TypeOK'
  <2>. DEFINE Message == {"add", "remove"} \X Storage
  <2>1. pipe \in Seq(Message)
    BY DEF IInv, TypeOK
  <2>2. Head(pipe) \in Message => Head(pipe)[2] \in Storage
    OBVIOUS
  <2>. HIDE DEF Message
  <2>3. pipe' \in Seq(Message) /\ Head(pipe) \in Message
    BY <1>1, <2>1
  <2>4. served' \subseteq Storage
    BY <1>1, <2>2, <2>3 DEF IInv, TypeOK
  <2>5. pipe' \in Seq({"add", "remove"} \X Storage)
    BY <2>3 DEF Message
  <2>. QED
    BY <1>1, <2>4, <2>5 DEF IInv, TypeOK, mtp, usb, flags, bounds
<1>3. \A s : WillServe(s)' => WillServe(s)
  BY ServeKeeps DEF IInv
<1>4. Served'
  BY <1>1, <1>3 DEF IInv, Served
<1>5. Ready'
  <2>1. /\ todo' = todo /\ mounted' = mounted /\ mtppid' = mtppid /\ This' = This
        /\ \A what : Steps(what)' <=> Steps(what)
    BY <1>1 DEF mtp, Steps, This
  <2>2. Steps("umount")' \/ Steps("erase")' => ~WillServe(This.s)'
    <3>1. PICK x : x = This.s
      OBVIOUS
    <3>2. ~WillServe(x) => ~WillServe(x)'
      BY <1>3
    <3>3. Steps("umount") \/ Steps("erase") => ~WillServe(x)
      BY <3>1 DEF IInv, Ready
    <3>4. ~WillServe(x)' => ~WillServe(This.s)'
      BY <2>1, <3>1 DEF WillServe, Stays
    <3>. QED
      BY <2>1, <3>2, <3>3, <3>4
  <2>. QED
    BY <2>1, <2>2 DEF Ready, IInv
<1>. QED
  BY <1>1, <1>2, <1>4, <1>5, SameTodo
     DEF IInv, LunsApart, UmsEnds, ToLun, Reclaims, Zombies, Lost, Idle, Steps, Opens, This,
         mtp, usb, bounds

\* A child that is forked, ends, or is reaped by its own parent.
LEMMA OtherKeeps == ASSUME IInv, OtherForks \/ OtherExits \/ ReapOther PROVE IInv'
<1>1. /\ UNCHANGED <<present, mounted, mtppid, mtp_write_fd, zombies, stolen, table, usb,
                     flags, todo, bounds>>
      /\ other' \in {"alive", "zombie", "none"}
  BY DEF OtherForks, OtherExits, ReapOther
<1>2. TypeOK'
  BY <1>1 DEF IInv, TypeOK, table, usb, flags, bounds
<1>3. Served'
  BY <1>1, ServedKept
<1>4. Ready'
  BY <1>1 DEF IInv, Ready, Steps, This, WillServe, Stays, table
<1>5. Zombies'
  BY <1>1 DEF IInv, Zombies, Lost, Steps, bounds
<1>. QED
  BY <1>1, <1>2, <1>3, <1>4, <1>5, SameTodo
     DEF IInv, LunsApart, UmsEnds, ToLun, Reclaims, Idle, Steps, Opens, This, usb, bounds

\* Handle_Uevent changes what is present, and no part of the invariant but the
\* types is about that; nor does a step that changes nothing break it.
LEMMA PresentKeeps ==
    ASSUME IInv, present' \subseteq Storage,
           UNCHANGED <<mounted, mtp, table, usb, flags, todo, bounds>>
    PROVE  IInv'
<1>1. TypeOK'
  BY DEF IInv, TypeOK, mtp, table, usb, flags, bounds
<1>2. Served'
  BY ServedKept
<1>3. Ready'
  BY DEF IInv, Ready, Steps, This, WillServe, Stays, table, mtp
<1>4. Zombies'
  BY DEF IInv, Zombies, Lost, Steps, bounds, mtp
<1>. QED
  BY <1>1, <1>2, <1>3, <1>4, SameTodo
     DEF IInv, LunsApart, UmsEnds, ToLun, Reclaims, Idle, Steps, Opens, This, usb, bounds

-----------------------------------------------------------------------------
(***************************************************************************)
(* The invariant, and what follows from it                                 *)
(***************************************************************************)
LEMMA Keeps == ASSUME IInv, [Next]_vars PROVE IInv'
<1>1. CASE Operation
  BY <1>1, OperationKeeps
<1>2. CASE Proceed
  BY <1>2, StartKeeps, KillKeeps, WaitKeeps, AdbKeeps, AddStorageKeeps, RemoveStorageKeeps,
     MountKeeps, UnmountKeeps, EraseKeeps, SelectKeeps, WriteLunKeeps, ExportKeeps,
     ClearLunKeeps, UnexportKeeps
     DEF Proceed
<1>3. CASE Serve \/ OtherForks \/ OtherExits \/ ReapOther
  BY <1>3, ServeKeepsAll, OtherKeeps
<1>4. ASSUME NEW s \in Storage, Handle_Uevent(s) PROVE IInv'
  <2>1. present' \subseteq Storage
    BY <1>4, PartitionsAssumption DEF Handle_Uevent, IInv, TypeOK
  <2>. QED
    BY <1>4, <2>1, PresentKeeps DEF Handle_Uevent
<1>5. CASE UNCHANGED vars
  <2>1. present' \subseteq Storage
    BY <1>5 DEF vars, IInv, TypeOK
  <2>. QED
    BY <1>5, <2>1, PresentKeeps DEF vars
<1>. QED
  BY <1>1, <1>2, <1>3, <1>4, <1>5 DEF Next

\* The inductive invariant holds in every reachable state, for any storages,
\* faults, child processes and number of operations.
THEOREM Invariant == Spec => []IInv
<1>. QED
  BY Initially, Keeps, PTL DEF Spec

\* Once it has read its messages, the server serves no storage that is not
\* mounted, in the middle of an operation as between two.
THEOREM ServedStaysMounted == Spec => []ServedIsMounted
<1>1. ASSUME IInv PROVE ServedIsMounted
  <2>1. pipe = <<>> => \A s \in served : WillServe(s)
    BY DEF WillServe, Stays
  <2>2. served \subseteq Storage
    BY <1>1 DEF IInv, TypeOK
  <2>3. pipe = <<>> => served \subseteq mounted
    BY <1>1, <2>1, <2>2 DEF IInv, Served
  <2>. QED
    BY <1>1, <2>3 DEF ServedIsMounted, IInv
<1>. QED
  BY <1>1, Invariant, PTL

\* While mass storage is on, what was written into a lun file when it was
\* switched on is not mounted, and what is being erased the server has been told
\* to give up, for any storages, faults and order of operations.
THEOREM NeverBothWrite == Spec => []Exclusive
<1>1. ASSUME IInv PROVE Exclusive
  BY <1>1 DEF IInv, Exclusive, LunsApart, Ready
<1>. QED
  BY <1>1, Invariant, PTL

\* However many operations and children there were, the killed servers left as
\* zombies are as many as the children waitpid(0) reaped in their place.
THEOREM ZombiesAreCounted == Spec => []ZombieForOther
<1>1. ASSUME IInv PROVE ZombieForOther
  BY <1>1 DEF ZombieForOther, IInv, Zombies, Lost, Idle, Steps
<1>. QED
  BY <1>1, Invariant, PTL

===============================================================================
