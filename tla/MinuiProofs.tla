---------------------------- MODULE MinuiProofs ----------------------------
(***************************************************************************)
(* Proofs about the three parts of minui: the vibrator (Haptics), the      *)
(* screen (Display) and the input devices (Touch), each for every value of *)
(* its constants.  The parts share no state; each has its own invariant.   *)
(***************************************************************************)
EXTENDS Haptics, Display, Touch, FiniteSetTheorems, TLAPS

-----------------------------------------------------------------------------
(***************************************************************************)
(* Proofs about Haptics, for every set of callers, every timeouts they ask *)
(* for and any number of calls: the mutex is held by whom it should be,    *)
(* the device is left quiet, and every step is one of Vibration.           *)
(***************************************************************************)
(***************************************************************************)
(* The inductive invariant.  LockHolders needs nothing but the types;      *)
(* what the device holds follows from where the worker is, which the       *)
(* worker alone changes except when it is created or woken.                *)
(***************************************************************************)

\* The worker exists once it is marked as started, and only then.
Created == started <=> wpc # "off"

\* A caller on its way to post has a timeout to leave.
Posts == \A c \in Client : cpc[c] \in {"lock", "start", "post"} => arg[c] \in Timeout

\* The worker has a request exactly while it plays one.
HasRequest == timeout # 0 <=> wpc \in {"taken", "sleep", "slept"} \cup InPlay

\* What the device holds at each point of sc27xx_play_vibrator.
Uploaded == effects = IF wpc \in {"play", "sleep", "slept", "stop"} THEN 1 ELSE 0
Playing == motor <=> wpc \in {"sleep", "slept", "stop"}
OpenWhilePlaying == wpc \in {"upload", "play", "sleep", "slept", "stop"} => fd

DeviceAtRest == Uploaded /\ Playing /\ OpenWhilePlaying

HapticsIInv ==
    /\ HapticsTypeOK
    /\ LockHolders
    /\ Created
    /\ Posts
    /\ HasRequest
    /\ DeviceAtRest

-----------------------------------------------------------------------------
\* Every timeout a call leaves is a positive number.
LEMMA TimeoutIsPositive == \A t \in Timeout : t \in Nat /\ t # 0
  BY AskedAssumption DEF Timeout, Clamped

\* The inductive invariant holds initially.
LEMMA HapticsStarts == HapticsInit => HapticsIInv
  <1> SUFFICES ASSUME HapticsInit PROVE HapticsIInv
    OBVIOUS
  <1>1. HapticsTypeOK
    <2>1. started \in BOOLEAN /\ fd \in BOOLEAN /\ motor \in BOOLEAN
      BY DEF HapticsInit
    <2>2. cpc \in [Client -> {"idle", "lock"} \cup InCall]
      BY DEF HapticsInit
    <2>3. calls \in 0..MaxCalls
      BY AskedAssumption DEF HapticsInit
    <2>4. lock \in Client \cup {Worker, Free}
      BY DEF HapticsInit
    <2>5. arg \in [Client -> Timeout \cup {0}]
      BY DEF HapticsInit
    <2> QED
      BY <2>1, <2>2, <2>3, <2>4, <2>5 DEF HapticsInit, HapticsTypeOK, InCall, InPlay
  <1>2. LockHolders
    BY ThreadAssumption DEF HapticsInit, LockHolders, InCall, InPlay
  <1>3. Created
    BY DEF HapticsInit, Created
  <1>4. Posts
    BY DEF HapticsInit, Posts
  <1>5. HasRequest
    BY DEF HapticsInit, HasRequest, InPlay
  <1>6. DeviceAtRest
    <2>1. Uploaded /\ Playing
      BY DEF HapticsInit, Uploaded, Playing
    <2>2. OpenWhilePlaying
      BY DEF HapticsInit, OpenWhilePlaying
    <2> QED
      BY <2>1, <2>2 DEF DeviceAtRest
  <1> QED
    BY <1>1, <1>2, <1>3, <1>4, <1>5, <1>6 DEF HapticsIInv

\* A caller's steps keep the invariant.
LEMMA CallerIInv ==
    ASSUME HapticsIInv, NEW c \in Client, vibrate(c) \/ Call(c)
    PROVE  HapticsIInv'
  <1> USE ThreadAssumption, AskedAssumption DEF HapticsIInv, DeviceAtRest
  <1>1. CASE vibrate(c)
    <2>1. PICK t \in Asked :
             IF Clamped(t) > 0
             THEN arg' = [arg EXCEPT ![c] = Clamped(t)] /\ Go(c, "lock")
             ELSE UNCHANGED <<arg, cpc>>
      BY <1>1 DEF vibrate
    <2>2. Clamped(t) > 0 => Clamped(t) \in Timeout
      BY <2>1 DEF Timeout
    <2> QED
      BY <1>1, <2>1, <2>2
      DEF vibrate, Go, HapticsTypeOK, LockHolders, Created, Posts, HasRequest,
          Uploaded, Playing, OpenWhilePlaying, InCall, InPlay, device
  <1>2. CASE LockCall(c)
    BY <1>2 DEF LockCall, Go, HapticsTypeOK, LockHolders, Created, Posts,
       HasRequest, Uploaded, Playing, OpenWhilePlaying, InCall, InPlay, device
  <1>3. CASE StartWorker(c)
    <2>0. UNCHANGED <<pending, fd, effects, motor, arg, calls, timeout>>
      BY <1>3 DEF StartWorker, device
    <2>1. CASE UNCHANGED <<lock, started, wpc>> /\ Go(c, "post")
      BY <1>3, <2>0, <2>1 DEF StartWorker, Go, HapticsTypeOK, LockHolders, Created,
         Posts, HasRequest, Uploaded, Playing, OpenWhilePlaying, InCall, InPlay
    <2>2. CASE ~ started /\ started' = TRUE /\ wpc' = "lock" /\ Go(c, "post") /\ lock' = lock
      BY <1>3, <2>0, <2>2 DEF StartWorker, Go, HapticsTypeOK, LockHolders, Created,
         Posts, HasRequest, Uploaded, Playing, OpenWhilePlaying, InCall, InPlay
    <2>3. CASE UNCHANGED <<started, wpc>> /\ lock' = Free /\ Go(c, "idle")
      BY <1>3, <2>0, <2>3 DEF StartWorker, Go, HapticsTypeOK, LockHolders, Created,
         Posts, HasRequest, Uploaded, Playing, OpenWhilePlaying, InCall, InPlay
    <2> QED
      BY <1>3, <2>1, <2>2, <2>3 DEF StartWorker
  <1>4. CASE Post(c)
    <2>1. arg[c] \in Timeout
      BY <1>4 DEF Post, Posts
    <2> QED
      BY <1>4, <2>1 DEF Post, Go, HapticsTypeOK, LockHolders, Created, Posts,
         HasRequest, Uploaded, Playing, OpenWhilePlaying, InCall, InPlay, device
  <1>5. CASE UnlockCall(c)
    BY <1>5 DEF UnlockCall, Go, HapticsTypeOK, LockHolders, Created, Posts,
       HasRequest, Uploaded, Playing, OpenWhilePlaying, InCall, InPlay, device
  <1> QED
    BY <1>1, <1>2, <1>3, <1>4, <1>5 DEF Call

\* The worker's steps between two requests keep it.
LEMMA LoopIInv ==
    ASSUME HapticsIInv, LockWorker \/ WaitForRequest \/ TakeRequest \/ SpuriousWakeup
    PROVE  HapticsIInv'
  <1> USE ThreadAssumption DEF HapticsIInv, DeviceAtRest, HapticsTypeOK, LockHolders,
     Created, Posts,
          HasRequest, Uploaded, Playing, OpenWhilePlaying, InCall, InPlay, device, callers
  <1>1. CASE LockWorker
    BY <1>1 DEF LockWorker
  <1>2. CASE WaitForRequest
    BY <1>2 DEF WaitForRequest
  <1>3. CASE TakeRequest
    BY <1>3 DEF TakeRequest
  <1>4. CASE SpuriousWakeup
    BY <1>4 DEF SpuriousWakeup
  <1> QED
    BY <1>1, <1>2, <1>3, <1>4

\* Playing a request keeps it, whichever step fails.
LEMMA PlayIInv ==
    ASSUME HapticsIInv,
           \/ LockPlay \/ sc27xx_open_vibrator_locked \/ UploadEffect
           \/ PlayEffect \/ Sleep \/ LockStop \/ StopEffect
    PROVE  HapticsIInv'
  <1> USE ThreadAssumption DEF HapticsIInv, DeviceAtRest, HapticsTypeOK, LockHolders, Created,
          Posts, HasRequest, Uploaded, Playing, OpenWhilePlaying, InCall, InPlay, device,
          callers
  <1>1. CASE LockPlay
    BY <1>1 DEF LockPlay
  <1>2. CASE sc27xx_open_vibrator_locked
    BY <1>2 DEF sc27xx_open_vibrator_locked, PlayReturns
  <1>3. CASE PlayReturns /\ wpc \in {"upload", "play"} /\ sc27xx_close_vibrator_locked
              /\ UNCHANGED <<pending, started, callers>>
    BY <1>3 DEF PlayReturns, sc27xx_close_vibrator_locked
  <1>4. CASE UploadEffect
    <2>1. CASE effects' = effects + 1 /\ wpc' = "play" /\ UNCHANGED <<lock, fd, motor, timeout>>
      BY <1>4, <2>1 DEF UploadEffect
    <2> QED
      BY <1>3, <1>4, <2>1 DEF UploadEffect
  <1>5. CASE PlayEffect
    <2>1. CASE motor' = TRUE /\ lock' = Free /\ wpc' = "sleep" /\ UNCHANGED <<fd, effects, timeout>>
      BY <1>5, <2>1 DEF PlayEffect
    <2> QED
      BY <1>3, <1>5, <2>1 DEF PlayEffect
  <1>6. CASE Sleep
    BY <1>6 DEF Sleep
  <1>7. CASE LockStop
    BY <1>7 DEF LockStop
  <1>8. CASE StopEffect
    <2>1. effects' = 0 /\ motor' = FALSE /\ fd' = fd
      BY <1>8 DEF StopEffect
    <2> QED
      BY <1>8, <2>1 DEF StopEffect, PlayReturns
  <1> QED
    BY <1>1, <1>2, <1>4, <1>5, <1>6, <1>7, <1>8

\* Every step keeps it.
LEMMA HapticsSteps == HapticsIInv /\ [HapticsNext]_HapticsVars => HapticsIInv'
  <1> SUFFICES ASSUME HapticsIInv, [HapticsNext]_HapticsVars PROVE HapticsIInv'
    OBVIOUS
  <1>1. CASE \E c \in Client : vibrate(c) \/ Call(c)
    BY <1>1, CallerIInv
  <1>2. CASE Work \/ SpuriousWakeup
    BY <1>2, LoopIInv, PlayIInv DEF Work
  <1>3. CASE UNCHANGED HapticsVars
    BY <1>3 DEF HapticsVars, HapticsIInv, DeviceAtRest, HapticsTypeOK, LockHolders, Created,
       Posts, HasRequest,
       Uploaded, Playing, OpenWhilePlaying, device, callers
  <1> QED
    BY <1>1, <1>2, <1>3 DEF HapticsNext

\* It is an invariant.
LEMMA HapticsInvariant == HapticsSpec => []HapticsIInv
  BY HapticsStarts, HapticsSteps, PTL DEF HapticsSpec

-----------------------------------------------------------------------------
\* Every variable keeps its type: in particular the number of effects never
\* goes below 0, and no timeout that is refused or too long gets to the worker.
THEOREM HapticsTypes == HapticsSpec => []HapticsTypeOK
  BY HapticsInvariant, PTL DEF HapticsIInv

\* The mutex is held exactly by the thread inside a critical section, and by
\* nobody through a wait or through the vibration.
THEOREM LockIsKept == HapticsSpec => []LockDiscipline
  BY HapticsInvariant, PTL DEF HapticsIInv, LockDiscipline

\* Whatever failed, no effect is left and the motor is off between requests.
THEOREM LeftQuiet == HapticsSpec => []QuietAtRest
  <1>1. HapticsIInv => QuietAtRest
    BY DEF HapticsIInv, DeviceAtRest, Uploaded, Playing, OpenWhilePlaying, QuietAtRest
  <1> QED
    BY <1>1, HapticsInvariant, PTL

-----------------------------------------------------------------------------
\* A caller's step leaves a request or is not seen.
LEMMA CallerRefines ==
    ASSUME HapticsIInv, NEW c \in Client, vibrate(c) \/ Call(c)
    PROVE  [V!Next]_(V!vars)
  <1>1. CASE Post(c)
    <2>1. pending' \in Timeout /\ UNCHANGED <<timeout, motor>>
      BY <1>1 DEF Post, HapticsIInv, Posts, device
    <2> QED
      BY <2>1 DEF V!Next, V!Ask
  <1>2. CASE vibrate(c) \/ LockCall(c) \/ StartWorker(c) \/ UnlockCall(c)
    BY <1>2 DEF vibrate, LockCall, StartWorker, UnlockCall, device, V!vars
  <1> QED
    BY <1>1, <1>2 DEF Call

\* A worker's step chooses, starts, gives up or stops a request, or is not seen.
LEMMA WorkerRefines ==
    ASSUME HapticsIInv, Work \/ SpuriousWakeup
    PROVE  [V!Next]_(V!vars)
  <1> USE DEF HapticsIInv, DeviceAtRest, device, V!vars, V!Next
  <1>1. CASE LockWorker \/ WaitForRequest \/ SpuriousWakeup \/ LockPlay \/ Sleep \/ LockStop
    BY <1>1 DEF LockWorker, WaitForRequest, SpuriousWakeup, LockPlay, Sleep, LockStop
  <1>2. CASE TakeRequest
    <2>1. pending # 0 /\ timeout = 0
      BY <1>2, TimeoutIsPositive DEF TakeRequest, HapticsTypeOK, HasRequest, InPlay
    <2> QED
      BY <1>2, <2>1 DEF TakeRequest, V!Choose
  <1>3. CASE sc27xx_open_vibrator_locked \/ UploadEffect \/ PlayEffect
    <2>1. timeout # 0 /\ motor = FALSE
      BY <1>3 DEF sc27xx_open_vibrator_locked, UploadEffect, PlayEffect,
         HasRequest, Uploaded, Playing, OpenWhilePlaying, InPlay, HapticsTypeOK
    <2> QED
      BY <1>3, <2>1 DEF sc27xx_open_vibrator_locked, UploadEffect, PlayEffect,
         PlayReturns, sc27xx_close_vibrator_locked, V!Drop, V!Start
  <1>4. CASE StopEffect
    BY <1>4 DEF StopEffect, PlayReturns, Uploaded, Playing, OpenWhilePlaying, V!Stop
  <1> QED
    BY <1>1, <1>2, <1>3, <1>4 DEF Work

\* The vibrator implements the safety part of Vibration: the motor runs only
\* for a request that was left, one at a time and the latest that waited.
THEOREM HapticsRefines == HapticsSpec => V!Safe
  <1>1. HapticsInit => V!Init
    BY DEF HapticsInit, V!Init
  <1>2. HapticsIInv /\ [HapticsNext]_HapticsVars => [V!Next]_(V!vars)
    <2> SUFFICES ASSUME HapticsIInv, [HapticsNext]_HapticsVars PROVE [V!Next]_(V!vars)
      OBVIOUS
    <2>1. CASE \E c \in Client : vibrate(c) \/ Call(c)
      BY <2>1, CallerRefines
    <2>2. CASE Work \/ SpuriousWakeup
      BY <2>2, WorkerRefines
    <2>3. CASE UNCHANGED HapticsVars
      BY <2>3 DEF HapticsVars, device, V!vars
    <2> QED
      BY <2>1, <2>2, <2>3 DEF HapticsNext
  <1> QED
    BY <1>1, <1>2, HapticsInvariant, PTL DEF HapticsSpec, V!Safe

-----------------------------------------------------------------------------
(***************************************************************************)
(* Proofs of Display, for any screens and any bound of the buffers' age:   *)
(* what drm_blank remembers is what the screen does, and a screen that is  *)
(* on is at most one frame behind.                                         *)
(***************************************************************************)
Undrawn == [b \in Buffers |-> MaxAge]

\* Until drm_init ends no modeset was tried and nothing was drawn; the
\* bootloader's screen may be lit.
NotUp ==
    pc \in {"start", "found", "buffers"} =>
        /\ plane_res = <<>> /\ current_blank_state /\ ~modeset
        /\ age = Undrawn /\ current_buffer = 0 /\ ret = NoCall

Drawn == \E p \in DOMAIN shown : shown[p] \in Buffers

\* Once it is up there is a CRTC to show things with, and a buffer that is on a
\* plane is on every plane of a pipeline that is on.
Together ==
    pc = "up" =>
        /\ crtc # 0
        /\ Drawn => active /\ \A p, q \in DOMAIN shown : shown[p] = shown[q]

\* The buffer drawn last is the one that is not current; the other one is one
\* flip older, or was never drawn.
Turns ==
    pc = "up" /\ age # Undrawn =>
        /\ age[1 - current_buffer] = 0
        /\ age[current_buffer] \in {1, MaxAge}

\* A flip that succeeded is on the screen until something else is done.
Flipped ==
    pc = "up" /\ ret = [op |-> "flip", ok |-> TRUE] =>
        /\ active /\ age # Undrawn
        /\ \A p \in DOMAIN shown : shown[p] = 1 - current_buffer

DisplayIInv == DisplayTypeOK /\ (pc \in {"found", "buffers", "up"} => crtc # 0) /\ NotUp /\ Together
        /\ Turns /\ Flipped /\ BlankAgrees

LEMMA Buffered == /\ Buffers = {0, 1} /\ NoBuffer \notin Buffers /\ Splash \notin Buffers
                  /\ \A b \in Buffers : 1 - b \in Buffers /\ 1 - b # b /\ 1 - (1 - b) = b
  BY DEF Buffers, NoBuffer, Splash

\* The invariant's consequence that the runs check.
LEMMA Behind == DisplayIInv => AtMostOneBehind
<1>. SUFFICES ASSUME DisplayIInv, pc = "up", age # Undrawn
              PROVE  /\ Drawn =>
                            /\ active
                            /\ \A p, q \in DOMAIN shown : shown[p] = shown[q]
                            /\ \A p \in DOMAIN shown : age[shown[p]] \in {0, 1, MaxAge}
                     /\ ret = [op |-> "flip", ok |-> TRUE] =>
                            \A p \in DOMAIN shown : age[shown[p]] = 0
  BY DEF AtMostOneBehind, DisplayIInv, Undrawn, Drawn
<1>1. /\ age[1 - current_buffer] = 0
      /\ age[current_buffer] \in {1, MaxAge}
      /\ current_buffer \in Buffers
  BY DEF DisplayIInv, Turns, DisplayTypeOK
<1>2. ret = [op |-> "flip", ok |-> TRUE] => \A p \in DOMAIN shown : shown[p] = 1 - current_buffer
  BY DEF DisplayIInv, Flipped
<1>3. ASSUME Drawn
      PROVE  /\ active
             /\ \A p, q \in DOMAIN shown : shown[p] = shown[q]
             /\ \A p \in DOMAIN shown : age[shown[p]] \in {0, 1, MaxAge}
  <2>1. active /\ \A p, q \in DOMAIN shown : shown[p] = shown[q]
    BY <1>3 DEF DisplayIInv, Together
  <2>2. \A p \in DOMAIN shown : shown[p] \in Buffers
    BY <1>3, <2>1 DEF Drawn
  <2>3. \A p \in DOMAIN shown : shown[p] = current_buffer \/ shown[p] = 1 - current_buffer
    BY <1>1, <2>2 DEF Buffers
  <2>. QED
    BY <1>1, <2>1, <2>3
<1>. QED
  BY <1>1, <1>2, <1>3

LEMMA DisplayStarts == DisplayInit => DisplayIInv
<1>. SUFFICES ASSUME DisplayInit PROVE DisplayIInv
  OBVIOUS
<1>1. DisplayTypeOK
  <2>1. shown \in [DOMAIN plane_res -> Buffers \cup {NoBuffer, Splash}]
    BY DEF DisplayInit
  <2>2. age \in [Buffers -> 0 .. MaxAge]
    BY DisplayAssumption DEF DisplayInit
  <2>3. active <=> conn_crtc # 0
    BY DEF DisplayInit, CrtcOf
  <2>. QED
    BY <2>1, <2>2, <2>3 DEF DisplayInit, DisplayTypeOK, Buffers
<1>. QED
  BY <1>1 DEF DisplayInit, DisplayIInv, NotUp, Together, Turns, Flipped, BlankAgrees, Undrawn

\* A commit changes the whole pipeline, or nothing.
LEMMA Commits ==
    ASSUME DisplayIInv, pc = "up", plane_res' = plane_res, crtc' = crtc,
           NEW ok, NEW on \in BOOLEAN, NEW pipeline, NEW b \in Buffers \cup {NoBuffer},
           b # NoBuffer <=> pipeline # 0,
           Commit(ok, on, pipeline, b)
    PROVE  \/ /\ ok /\ active' = on /\ (conn_crtc' # 0 <=> on)
              /\ shown' \in [DOMAIN plane_res -> {b}]
           \/ ~ok /\ UNCHANGED kernel_vars
<1>1. crtc # 0
  BY DEF DisplayIInv
<1>2. Accepted(pipeline, AllShow(b))
  BY DEF Accepted, AllShow
<1>. QED
  BY <1>1, <1>2 DEF Commit, AllShow

LEMMA FindStep ==
    ASSUME DisplayIInv, NEW ok \in BOOLEAN, FindScreen(ok) PROVE DisplayIInv'
  BY DEF DisplayIInv, FindScreen, DisplayTypeOK, NotUp, Together, Turns, Flipped, BlankAgrees,
     kernel_vars,
         Resources

LEMMA CreateStep ==
    ASSUME DisplayIInv, NEW ok \in BOOLEAN, CreateSurfaces(ok) PROVE DisplayIInv'
  BY DEF DisplayIInv, CreateSurfaces, DisplayTypeOK, NotUp, Together, Turns, Flipped,
     BlankAgrees, kernel_vars,
         Resources

LEMMA SetUpStep ==
    ASSUME DisplayIInv, NEW ok \in BOOLEAN, SetUp(ok) PROVE DisplayIInv'
<1>0. /\ pc = "buffers" /\ pc' \in {"up", "failed"} /\ crtc # 0 /\ held' \subseteq Resources
      /\ UNCHANGED <<legacy, screen, connector, crtc, current_buffer, age, ret>>
      /\ plane_res = <<>> /\ current_blank_state /\ ~modeset
      /\ age = Undrawn /\ current_buffer = 0 /\ ret = NoCall
  BY DEF SetUp, DisplayIInv, NotUp, DisplayTypeOK, Resources
<1>1. CASE /\ active' = TRUE /\ conn_crtc' = crtc
           /\ shown' = [p \in DOMAIN plane_res' |-> current_buffer]
           /\ current_blank_state' = FALSE /\ modeset' = TRUE
  <2>1. DisplayTypeOK'
    BY <1>0, <1>1 DEF DisplayIInv, DisplayTypeOK, Buffers
  <2>2. NotUp' /\ Together' /\ Turns' /\ Flipped' /\ BlankAgrees'
    BY <1>0, <1>1 DEF NotUp, Together, Turns, Flipped, BlankAgrees, NoCall, Buffers, NoBuffer,
       Drawn
  <2>. QED
    BY <1>0, <2>1, <2>2 DEF DisplayIInv
<1>2. CASE /\ shown' \in [DOMAIN plane_res' -> {NoBuffer} \cup (IF active THEN {Splash} ELSE {})]
           /\ UNCHANGED <<active, conn_crtc, current_blank_state, modeset>>
  <2>1. DisplayTypeOK'
    BY <1>0, <1>2 DEF DisplayIInv, DisplayTypeOK, Buffers
  <2>2. NotUp' /\ Together' /\ Turns' /\ Flipped' /\ BlankAgrees'
    BY <1>0, <1>2, Buffered DEF NotUp, Together, Turns, Flipped, BlankAgrees, NoCall, Drawn
  <2>. QED
    BY <1>0, <2>1, <2>2 DEF DisplayIInv
<1>3. CASE plane_res' = <<>> /\ pc' = "failed" /\ UNCHANGED <<kernel_vars, current_blank_state, modeset>>
  <2>1. DisplayTypeOK'
    BY <1>0, <1>3 DEF DisplayIInv, DisplayTypeOK, kernel_vars
  <2>2. NotUp' /\ Together' /\ Turns' /\ Flipped' /\ BlankAgrees'
    BY <1>0, <1>3 DEF NotUp, Together, Turns, Flipped, BlankAgrees
  <2>. QED
    BY <1>0, <1>3, <2>1, <2>2 DEF DisplayIInv
<1>. QED
  BY <1>1, <1>2, <1>3 DEF SetUp

LEMMA BlankStep ==
    ASSUME DisplayIInv, NEW ok \in BOOLEAN, NEW blank \in BOOLEAN, drm_blank(blank,
       ok) PROVE DisplayIInv'
<1>0. /\ pc = "up" /\ pc' = "up" /\ ret' = [op |-> "blank", ok |-> ok] /\ crtc # 0
      /\ UNCHANGED <<legacy, screen, init_vars, current_buffer, age>>
      /\ current_buffer \in Buffers /\ current_blank_state \in BOOLEAN
  BY DEF drm_blank, init_vars, DisplayIInv, DisplayTypeOK
<1>1. ~(ret' = [op |-> "flip", ok |-> TRUE])
  BY <1>0
<1>2. CASE UNCHANGED <<kernel_vars, current_blank_state, modeset>>
  BY <1>0, <1>1, <1>2 DEF DisplayIInv, DisplayTypeOK, NotUp, Together, Turns, Flipped,
     BlankAgrees, kernel_vars, init_vars, Undrawn, Drawn
<1>3. CASE /\ blank /\ Blank(ok) /\ modeset' = (modeset \/ ok)
           /\ current_blank_state' = IF ok THEN blank ELSE current_blank_state
  <2>1. \/ /\ ok /\ active' = FALSE /\ conn_crtc' = 0
           /\ shown' \in [DOMAIN plane_res -> {NoBuffer}]
        \/ ~ok /\ UNCHANGED kernel_vars
    BY <1>0, <1>3 DEF Blank, Commit, Accepted, AllShow
  <2>2. CASE ~ok
    BY <1>2, <1>3, <2>1, <2>2 DEF DisplayIInv, DisplayTypeOK
  <2>3. CASE ok
    <3>1. DisplayTypeOK'
      BY <1>0, <1>3, <2>1, <2>3 DEF DisplayIInv, DisplayTypeOK, init_vars
    <3>. QED
      BY <1>0, <1>1, <1>3, <2>1, <2>3, <3>1, Buffered DEF DisplayIInv, NotUp, Together, Turns,
         Flipped, BlankAgrees, init_vars, Undrawn, Drawn
  <2>. QED
    BY <2>2, <2>3
<1>4. CASE /\ ~blank /\ Unblank(ok) /\ modeset' = (modeset \/ ok)
           /\ current_blank_state' = IF ok THEN blank ELSE current_blank_state
  <2>1. \/ /\ ok /\ active' = TRUE /\ conn_crtc' = crtc
           /\ shown' \in [DOMAIN plane_res -> {current_buffer}]
        \/ ~ok /\ UNCHANGED kernel_vars
    BY <1>0, <1>4, Buffered DEF Unblank, Commit, Accepted, AllShow
  <2>2. CASE ~ok
    BY <1>2, <1>4, <2>1, <2>2 DEF DisplayIInv, DisplayTypeOK
  <2>3. CASE ok
    <3>1. DisplayTypeOK'
      BY <1>0, <1>4, <2>1, <2>3 DEF DisplayIInv, DisplayTypeOK, init_vars
    <3>2. \A p \in DOMAIN shown' : shown'[p] = current_buffer
      BY <2>1, <2>3
    <3>. QED
      BY <1>0, <1>1, <1>4, <2>1, <2>3, <3>1, <3>2, Buffered DEF DisplayIInv, NotUp, Together, Turns,
         Flipped, BlankAgrees, init_vars, Undrawn, Drawn
  <2>. QED
    BY <2>2, <2>3
<1>. QED
  BY <1>2, <1>3, <1>4 DEF drm_blank

\* The buffer that was current is drawn to; it is shown, or what was shown
\* stays, which is that buffer or the other one.
LEMMA FlipStep ==
    ASSUME DisplayIInv, NEW ok \in BOOLEAN, drm_flip(ok) PROVE DisplayIInv'
<1>. DEFINE b == current_buffer
<1>0. /\ pc = "up" /\ pc' = "up" /\ crtc # 0
      /\ UNCHANGED <<legacy, screen, init_vars, current_blank_state, modeset>>
      /\ b \in Buffers /\ current_buffer' = 1 - b /\ current_buffer' \in Buffers
      /\ age \in [Buffers -> 0 .. MaxAge] /\ legacy \in BOOLEAN /\ active \in BOOLEAN
      /\ ret' = [op |-> "flip", ok |-> ok /\ (legacy \/ OnScreen)]
  BY Buffered DEF drm_flip, init_vars, DisplayIInv, DisplayTypeOK
<1>1. /\ age' \in [Buffers -> 0 .. MaxAge]
      /\ age'[b] = 0 /\ age'[1 - b] = Older(age[1 - b])
  BY <1>0, Buffered, DisplayAssumption DEF drm_flip, Older
<1>2. Turns'
  <2>1. age[1 - b] \in {0, MaxAge}
    BY <1>0, Buffered DEF DisplayIInv, Turns, Undrawn
  <2>2. Older(age[1 - b]) \in {1, MaxAge}
    BY <2>1, DisplayAssumption DEF Older
  <2>. QED
    BY <1>0, <1>1, <2>2, Buffered DEF Turns
<1>3. \/ /\ ok /\ (legacy \/ OnScreen) /\ active' = TRUE /\ conn_crtc' # 0
         /\ shown' \in [DOMAIN plane_res -> {b}] /\ (~legacy => active)
      \/ /\ ~(ok /\ (legacy \/ OnScreen)) /\ UNCHANGED kernel_vars
  <2>1. CASE legacy
    BY <1>0, <2>1, Buffered DEF drm_flip, update_plane_fb, Commit, Accepted, AllShow, kernel_vars
  <2>2. CASE ~legacy /\ ok /\ OnScreen
    <3>1. active /\ conn_crtc # 0
      BY <2>2 DEF OnScreen, DisplayIInv, DisplayTypeOK
    <3>. QED
      BY <1>0, <2>2, <3>1 DEF drm_flip, update_plane_fb, AllShow
  <2>3. CASE ~legacy /\ ~(ok /\ OnScreen)
    BY <1>0, <2>3 DEF drm_flip, update_plane_fb
  <2>. QED
    BY <1>0, <2>1, <2>2, <2>3
<1>5. DisplayTypeOK'
  <2>1. shown' \in [DOMAIN plane_res -> Buffers \cup {NoBuffer, Splash}]
    BY <1>0, <1>3 DEF DisplayIInv, DisplayTypeOK, kernel_vars
  <2>2. active' \in BOOLEAN /\ (active' <=> conn_crtc' # 0)
    <3>1. CASE active' = TRUE /\ conn_crtc' # 0
      BY <3>1
    <3>2. CASE UNCHANGED kernel_vars
      BY <3>2 DEF DisplayIInv, DisplayTypeOK, kernel_vars
    <3>. QED
      BY <1>3, <3>1, <3>2
  <2>. QED
    BY <1>0, <1>1, <2>1, <2>2 DEF DisplayIInv, DisplayTypeOK, init_vars
<1>6. Together'
  <2>1. CASE active' = TRUE /\ shown' \in [DOMAIN plane_res -> {b}]
    BY <1>0, <2>1 DEF Together, Drawn, init_vars
  <2>2. CASE active' = active /\ shown' = shown
    BY <1>0, <2>2 DEF DisplayIInv, Together, Drawn, init_vars
  <2>. QED
    BY <1>3, <2>1, <2>2 DEF kernel_vars
<1>7. Flipped'
  <2>. SUFFICES ASSUME ok, legacy \/ OnScreen
                PROVE  /\ active' /\ age' # Undrawn'
                       /\ \A p \in DOMAIN shown' : shown'[p] = 1 - current_buffer'
    BY <1>0 DEF Flipped
  <2>1. active' /\ shown' \in [DOMAIN plane_res -> {b}]
    BY <1>3
  <2>2. 1 - current_buffer' = b
    BY <1>0, Buffered
  <2>3. age' # Undrawn'
    BY <1>1, <1>0, DisplayAssumption DEF Undrawn
  <2>. QED
    BY <2>1, <2>2, <2>3
<1>8. BlankAgrees'
  BY <1>0, <1>3, Buffered DEF DisplayIInv, BlankAgrees, init_vars, kernel_vars
<1>. QED
  BY <1>0, <1>2, <1>5, <1>6, <1>7, <1>8 DEF DisplayIInv, NotUp, init_vars

LEMMA ExitStep ==
    ASSUME DisplayIInv, NEW ok \in BOOLEAN, drm_exit(ok) PROVE DisplayIInv'
<1>1. DisplayTypeOK'
  BY DEF drm_exit, AllShow, DisplayIInv, DisplayTypeOK, kernel_vars
<1>. QED
  BY <1>1 DEF drm_exit, DisplayIInv, NotUp, Together, Turns, Flipped, BlankAgrees

LEMMA DisplaySteps == DisplayIInv /\ [DisplayNext]_DisplayVars => DisplayIInv'
<1>. SUFFICES ASSUME DisplayIInv, [DisplayNext]_DisplayVars PROVE DisplayIInv'
  OBVIOUS
<1>1. CASE UNCHANGED DisplayVars
  <2>1. DisplayTypeOK' /\ BlankAgrees'
    BY <1>1 DEF DisplayVars, init_vars, kernel_vars, DisplayIInv, DisplayTypeOK, BlankAgrees
  <2>. QED
    BY <1>1, <2>1 DEF DisplayVars, init_vars, kernel_vars, DisplayIInv, NotUp, Together, Turns,
       Flipped, Undrawn, Drawn
<1>2. CASE DisplayNext
  BY <1>1, <1>2, FindStep, CreateStep, SetUpStep, BlankStep, FlipStep,
     ExitStep DEF DisplayNext, Ended
<1>. QED
  BY <1>1, <1>2

LEMMA DisplayInvariant == DisplaySpec => []DisplayIInv
  BY DisplayStarts, DisplaySteps, PTL DEF DisplaySpec

\* drm_blank never believes a screen to be on that does not show the GUI, nor,
\* with an atomic modeset and once a modeset got through, a lit one to be off,
\* whatever commits fail and whether the bootloader left a splash or not.
THEOREM BlankIsKnown == DisplaySpec => []BlankAgrees
<1>1. DisplayIInv => BlankAgrees
  BY DEF DisplayIInv
<1>. QED
  BY <1>1, DisplayInvariant, PTL

\* A screen that is on is at most one frame behind, for any number of planes
\* and any sequence of flips and blanks that fail.
THEOREM OneBehind == DisplaySpec => []AtMostOneBehind
  BY DisplayInvariant, Behind, PTL

-----------------------------------------------------------------------------
(***************************************************************************)
(* Proofs about Touch, for every driver, every layout of the screen and    *)
(* its keys, and any number of changes: what the GUI believes is what      *)
(* vk_modify remembers, what it sees is a sequence of gestures, and the    *)
(* second finger does not move the pointer.                                *)
(***************************************************************************)
(***************************************************************************)
(* Types                                                                   *)
(***************************************************************************)
\* Coordinates, with the zero of a lift.
Row == {at[1] : at \in Pos} \cup {0}
Column == {at[2] : at \in Pos} \cup {0}
Place == Row \X Column

Kinds == {"X", "Y", "SLOT", "MTX", "MTY", "TRACK", "PRESSURE", "MAJOR", "KEY", "BTN",
          "MTSYN", "SYN", "MTPOS", "RELZ"}

\* What a device may send.
Sent(e) ==
    /\ e \in [t : Kinds, v : Int, at : Pos \cup {Up}]
    /\ e.t \in {"X", "MTX"} => e.v \in Row
    /\ e.t \in {"Y", "MTY"} => e.v \in Column
    /\ e.t = "SLOT" => e.v \in Fingers
InputEvents == {e \in [t : Kinds, v : Int, at : Pos \cup {Up}] : Sent(e)}

AxesType(a) == a \in [p : Place, pSync : BOOLEAN, mt : Place, mtSync : BOOLEAN]

StaticsType(s) ==
    s \in [down : (Row \cup {-1}) \X (Column \cup {-1}), discard : BOOLEAN, lastSyn : BOOLEAN,
           release : 0 .. 2, slot : Fingers, finger : BOOLEAN, reported : BOOLEAN,
           negative : BOOLEAN]

\* A touch is down at a place of the screen; a virtual key has row 0.
Gesture(s) ==
    /\ s.discard => s.down[1] = 0
    /\ s.down = Up \/ s.discard \/ (s.down[1] # -1 /\ s.down[2] # -1)

\* What a call of vk_modify may make of the statics.
SameGesture(s, r) == r.down = s.down /\ r.discard = s.discard
Outcome(s, r) ==
    /\ StaticsType(r.s) /\ Gesture(r.s) /\ AxesType(r.a)
    /\ \/ r.out.kind \in {"none", "key", "other"} /\ SameGesture(s, r.s)
       \/ /\ r.out.kind = "touch" /\ s.discard = FALSE
          /\ r.s.discard = FALSE /\ r.s.down = r.out.at
          /\ r.out \in [kind : {"touch"}, at : Place]
       \/ /\ r.out.kind = "keydown" /\ s.down = Up /\ s.discard = FALSE
          /\ r.s.discard = TRUE /\ r.out \in [kind : {"keydown"}, at : Place]
       \/ /\ r.out.kind = "up" /\ s.discard = FALSE /\ s.down # Up /\ r.out.at = s.down
          /\ r.s.down = Up /\ r.s.discard = FALSE
       \/ /\ r.out.kind = "keyup" /\ s.discard = TRUE
          /\ r.s.down = Up /\ r.s.discard = FALSE

-----------------------------------------------------------------------------
(***************************************************************************)
(* vk_modify                                                               *)
(***************************************************************************)
LEMMA Places ==
    /\ Row \subseteq Nat /\ Column \subseteq Nat /\ Pos \subseteq Place
    /\ \A at \in Place : at # Up /\ at[1] # -1 /\ at[2] # -1 /\ at[1] \in Row /\ at[2] \in Column
    /\ <<0, 0>> \in Place /\ Up[1] = -1 /\ Up[2] = -1 /\ Up \notin Place
<1>1. Row \subseteq Nat /\ Column \subseteq Nat
  BY InputAssumption DEF Row, Column
<1>2. ASSUME NEW at \in Pos PROVE at \in Place
  <2>1. at \in Nat \X Nat
    BY InputAssumption
  <2>2. at = <<at[1], at[2]>>
    BY <2>1
  <2>3. at[1] \in Row /\ at[2] \in Column
    BY DEF Row, Column
  <2>. QED
    BY <2>2, <2>3 DEF Place
<1>3. ASSUME NEW at \in Place PROVE at[1] \in Row /\ at[2] \in Column
  BY DEF Place
<1>4. Up[1] = -1 /\ Up[2] = -1 /\ -1 \notin Nat
  BY DEF Up
<1>5. <<0, 0>> \in Place
  BY DEF Place, Row, Column
<1>. QED
  BY <1>1, <1>2, <1>3, <1>4, <1>5

LEMMA Relations ==
    ASSUME NEW s, NEW s2, NEW r, SameGesture(s, s2), Outcome(s2, r)
    PROVE  Outcome(s, r)
  BY DEF Outcome, SameGesture

LEMMA ReleaseOutcome ==
    ASSUME NEW s, NEW a, StaticsType(s), Gesture(s), AxesType(a)
    PROVE  Outcome(s, ReportRelease(s, a))
<1>. DEFINE s2 == [s EXCEPT !.down = Up, !.discard = FALSE]
            r == ReportRelease(s, a)
<1>1. StaticsType(s2) /\ s2.down = Up /\ s2.discard = FALSE
  BY DEF StaticsType, Up
<1>2. Gesture(s2)
  BY <1>1 DEF Gesture
<1>3. r = IF s.down = Up /\ ~ s.discard THEN [s |-> s, a |-> a, out |-> [kind |-> "none", at |-> Up]]
          ELSE IF s.discard THEN [s |-> s2, a |-> a, out |-> [kind |-> "keyup", at |-> Up]]
          ELSE [s |-> s2, a |-> a, out |-> [kind |-> "up", at |-> s.down]]
  BY DEF ReportRelease, Result, Out, Consumed
<1>4. s.discard \in BOOLEAN
  BY DEF StaticsType
<1>. HIDE DEF s2, r
<1>5. CASE s.down = Up /\ ~ s.discard
  <2>1. r.s = s /\ r.a = a /\ r.out.kind = "none"
    BY <1>3, <1>5
  <2>. QED
    BY <2>1 DEF Outcome, SameGesture, r
<1>6. CASE s.discard
  <2>1. r.s = s2 /\ r.a = a /\ r.out.kind = "keyup" /\ s.discard = TRUE
    BY <1>3, <1>4, <1>6
  <2>. QED
    BY <1>1, <1>2, <2>1 DEF Outcome, r
<1>7. CASE s.down # Up /\ ~ s.discard
  <2>1. r.s = s2 /\ r.a = a /\ r.out.kind = "up" /\ r.out.at = s.down /\ s.discard = FALSE
    BY <1>3, <1>4, <1>7
  <2>. QED
    BY <1>1, <1>2, <1>7, <2>1 DEF Outcome, r
<1>. QED
  BY <1>5, <1>6, <1>7

LEMMA PressOutcome ==
    ASSUME NEW s, NEW a, NEW at \in Place, StaticsType(s), Gesture(s), AxesType(a)
    PROVE  Outcome(s, Press(s, a, at))
<1>. DEFINE key == [s EXCEPT !.finger = TRUE, !.reported = TRUE, !.discard = TRUE,
                             !.down = <<0, @[2]>>]
            touch == [s EXCEPT !.finger = TRUE, !.reported = TRUE, !.down = at]
            r == Press(s, a, at)
            onKey == s.down[1] = -1 /\ at \in KeyArea
<1>1. /\ StaticsType(key) /\ key.down[1] = 0 /\ key.discard = TRUE
      /\ StaticsType(touch) /\ touch.down = at /\ touch.discard = s.discard
      /\ s.discard \in BOOLEAN
  <2>1. at[1] \in Row /\ at[2] \in Column /\ at = <<at[1], at[2]>>
    BY DEF Place
  <2>2. 0 \in Row /\ s.down[2] \in Column \cup {-1}
    BY DEF Row, StaticsType
  <2>. QED
    BY <2>1, <2>2 DEF StaticsType
<1>2. r = IF at = <<0, 0>> THEN [s |-> s, a |-> a, out |-> [kind |-> "none", at |-> Up]]
          ELSE IF onKey
          THEN [s |-> key, a |-> a, out |-> [kind |-> "keydown", at |-> at]]
          ELSE IF s.discard THEN [s |-> s, a |-> a, out |-> [kind |-> "none", at |-> Up]]
          ELSE [s |-> touch, a |-> a, out |-> [kind |-> "touch", at |-> at]]
  BY DEF Press, Result, Out, Consumed
<1>3. at[1] # -1 /\ at[2] # -1
  BY Places
<1>4. Gesture(key) /\ (s.discard = FALSE => Gesture(touch))
  BY <1>1, <1>3 DEF Gesture
<1>5. onKey => s.down = Up /\ s.discard = FALSE
  BY <1>1 DEF Gesture
<1>. HIDE DEF key, touch, r, onKey
<1>6. CASE at = <<0, 0>> \/ (~ onKey /\ s.discard)
  <2>1. r.s = s /\ r.a = a /\ r.out.kind = "none"
    BY <1>2, <1>5, <1>6
  <2>. QED
    BY <2>1 DEF Outcome, SameGesture, r
<1>7. CASE at # <<0, 0>> /\ onKey
  <2>1. /\ r.s = key /\ r.a = a /\ r.out.kind = "keydown"
        /\ r.out \in [kind : {"keydown"}, at : Place]
    BY <1>2, <1>7
  <2>. QED
    BY <1>1, <1>4, <1>5, <1>7, <2>1 DEF Outcome, r
<1>8. CASE at # <<0, 0>> /\ ~ onKey /\ ~ s.discard
  <2>1. /\ r.s = touch /\ r.a = a /\ r.out.kind = "touch" /\ r.out.at = at
        /\ r.out \in [kind : {"touch"}, at : Place] /\ s.discard = FALSE
    BY <1>1, <1>2, <1>8
  <2>. QED
    BY <1>1, <1>4, <2>1 DEF Outcome, r
<1>. QED
  BY <1>6, <1>7, <1>8

LEMMA QuietOutcome ==
    ASSUME NEW s, NEW s2, NEW a, NEW kind \in {"none", "key", "other"}, NEW at,
           StaticsType(s2), Gesture(s), SameGesture(s, s2), AxesType(a)
    PROVE  Outcome(s, [s |-> s2, a |-> a, out |-> [kind |-> kind, at |-> at]])
<1>. DEFINE r == [s |-> s2, a |-> a, out |-> [kind |-> kind, at |-> at]]
<1>1. r.s = s2 /\ r.a = a /\ r.out.kind = kind
  OBVIOUS
<1>2. Gesture(s2)
  BY DEF Gesture, SameGesture
<1>. HIDE DEF r
<1>3. Outcome(s, r)
  BY <1>1, <1>2 DEF Outcome
<1>. QED
  BY <1>3 DEF r

\* What vk_modify sets besides the gesture.
Keeps(s, r) == StaticsType(r) /\ SameGesture(s, r)

LEMMA SetLastSyn ==
    ASSUME NEW s, StaticsType(s), NEW x \in BOOLEAN PROVE Keeps(s, [s EXCEPT !.lastSyn = x])
  BY DEF Keeps, StaticsType, SameGesture

LEMMA SetRelease ==
    ASSUME NEW s, StaticsType(s), NEW x \in 0 .. 2 PROVE Keeps(s, [s EXCEPT !.release = x])
  BY DEF Keeps, StaticsType, SameGesture

LEMMA SetSlot ==
    ASSUME NEW s, StaticsType(s), NEW x \in Fingers PROVE Keeps(s, [s EXCEPT !.slot = x])
  BY DEF Keeps, StaticsType, SameGesture

LEMMA SetFinger ==
    ASSUME NEW s, StaticsType(s), NEW x \in BOOLEAN PROVE Keeps(s, [s EXCEPT !.finger = x])
  BY DEF Keeps, StaticsType, SameGesture

LEMMA SetReported ==
    ASSUME NEW s, StaticsType(s), NEW x \in BOOLEAN PROVE Keeps(s, [s EXCEPT !.reported = x])
  BY DEF Keeps, StaticsType, SameGesture

LEMMA SetNegative ==
    ASSUME NEW s, StaticsType(s), NEW x \in BOOLEAN PROVE Keeps(s, [s EXCEPT !.negative = x])
  BY DEF Keeps, StaticsType, SameGesture

LEMMA KeepsOn == ASSUME NEW s, NEW q, NEW r, Keeps(s, q), Keeps(q, r) PROVE Keeps(s, r)
  BY DEF Keeps, SameGesture

LEMMA SetThree ==
    ASSUME NEW s, StaticsType(s), NEW f \in BOOLEAN, NEW n \in 0 .. 2, NEW g \in BOOLEAN
    PROVE  Keeps(s, [s EXCEPT !.finger = f, !.release = n, !.negative = g])
<1>. DEFINE r == [s EXCEPT !.finger = f]
            q == [r EXCEPT !.release = n]
<1>1. Keeps(s, r)
  BY SetFinger
<1>4. [q EXCEPT !.negative = g] = [s EXCEPT !.finger = f, !.release = n, !.negative = g]
  OBVIOUS
<1>. HIDE DEF r
<1>2. Keeps(r, q)
  BY <1>1, SetRelease DEF Keeps
<1>. HIDE DEF q
<1>3. Keeps(q, [q EXCEPT !.negative = g])
  BY <1>2, SetNegative DEF Keeps
<1>5. Keeps(s, [q EXCEPT !.negative = g])
  BY <1>1, <1>2, <1>3, KeepsOn
<1>. QED
  BY <1>4, <1>5, Zenon

LEMMA SetRest ==
    ASSUME NEW s, StaticsType(s), NEW k \in Fingers, NEW f \in BOOLEAN, NEW g \in BOOLEAN
    PROVE  Keeps(s, [s EXCEPT !.slot = k, !.reported = f, !.lastSyn = g])
<1>. DEFINE r == [s EXCEPT !.slot = k]
            q == [r EXCEPT !.reported = f]
<1>1. Keeps(s, r)
  BY SetSlot
<1>4. [q EXCEPT !.lastSyn = g] = [s EXCEPT !.slot = k, !.reported = f, !.lastSyn = g]
  OBVIOUS
<1>. HIDE DEF r
<1>2. Keeps(r, q)
  BY <1>1, SetReported DEF Keeps
<1>. HIDE DEF q
<1>3. Keeps(q, [q EXCEPT !.lastSyn = g])
  BY <1>2, SetLastSyn DEF Keeps
<1>5. Keeps(s, [q EXCEPT !.lastSyn = g])
  BY <1>1, <1>2, <1>3, KeepsOn
<1>. QED
  BY <1>4, <1>5, Zenon

LEMMA ButtonOutcome ==
    ASSUME NEW s, NEW a, NEW v, StaticsType(s), Gesture(s), AxesType(a)
    PROVE  Outcome(s, Button(s, a, v))
<1>. DEFINE s2 == [s EXCEPT !.finger = (v # 0), !.release = 0, !.negative = FALSE]
            s3 == [s2 EXCEPT !.slot = 0, !.reported = FALSE, !.lastSyn = FALSE]
<1>. DEFINE down == v # 0
<1>0. down \in BOOLEAN /\ 0 \in Fingers /\ 0 \in 0 .. 2 /\ FALSE \in BOOLEAN
  BY DEF Fingers
<1>1. Keeps(s, s2)
  <2>. HIDE DEF down
  <2>1. Keeps(s, [s EXCEPT !.finger = down, !.release = 0, !.negative = FALSE])
    BY <1>0, SetThree
  <2>. USE DEF down
  <2>. QED
    BY <2>1, Zenon
<1>k. s3 = [s2 EXCEPT !.slot = 0, !.reported = FALSE, !.lastSyn = FALSE]
  OBVIOUS
<1>2. Keeps(s, s3)
  <2>. HIDE DEF s2
  <2>1. Keeps(s2, [s2 EXCEPT !.slot = 0, !.reported = FALSE, !.lastSyn = FALSE])
    BY <1>0, <1>1, SetRest DEF Keeps
  <2>. QED
    BY <1>1, <1>k, <2>1, KeepsOn, Zenon
<1>3. Button(s, a, v) = IF v # 0 THEN [s |-> s2, a |-> a, out |-> [kind |-> "none", at |-> Up]]
                        ELSE ReportRelease(s3, a)
  BY DEF Button, Result, Consumed
<1>. HIDE DEF s2, s3
<1>4. Gesture(s3)
  BY <1>2 DEF Gesture, Keeps, SameGesture
<1>5. Outcome(s, ReportRelease(s3, a))
  BY <1>2, <1>4, ReleaseOutcome, Relations DEF Keeps
<1>6. Outcome(s, [s |-> s2, a |-> a, out |-> [kind |-> "none", at |-> Up]])
  BY <1>1, QuietOutcome DEF Keeps
<1>. QED
  BY <1>3, <1>5, <1>6

LEMMA SyncOutcome ==
    ASSUME NEW s, NEW a, StaticsType(s), Gesture(s), AxesType(a)
    PROVE  Outcome(s, Sync(s, a))
<1>. DEFINE s2 == [s EXCEPT !.lastSyn = TRUE]
            a2 == [a EXCEPT !.pSync = FALSE, !.mtSync = FALSE]
            s3 == [s EXCEPT !.release = 0, !.negative = FALSE, !.finger = FALSE,
                            !.reported = FALSE, !.slot = 0, !.lastSyn = FALSE]
<1>1. StaticsType(s2) /\ SameGesture(s, s2)
  BY DEF StaticsType, SameGesture
<1>2. StaticsType(s3) /\ SameGesture(s, s3)
  <2>1. 0 \in Fingers
    BY DEF Fingers
  <2>. DEFINE r == [s EXCEPT !.finger = FALSE, !.release = 0, !.negative = FALSE]
  <2>2. Keeps(s, r)
    <3>1. 0 \in 0 .. 2 /\ FALSE \in BOOLEAN
      OBVIOUS
    <3>. QED
      BY <3>1, SetThree, Zenon
  <2>4. s3 = [r EXCEPT !.slot = 0, !.reported = FALSE, !.lastSyn = FALSE]
    OBVIOUS
  <2>. HIDE DEF r, s3
  <2>3. Keeps(r, [r EXCEPT !.slot = 0, !.reported = FALSE, !.lastSyn = FALSE])
    BY <2>1, <2>2, SetRest DEF Keeps
  <2>5. Keeps(s, s3)
    BY <2>2, <2>3, <2>4, KeepsOn, Zenon
  <2>. QED
    BY <2>5 DEF Keeps
<1>3. AxesType(a2) /\ a.p \in Place /\ a.mt \in Place
  BY DEF AxesType
<1>4. \/ Sync(s, a) = ReportRelease(s3, a)
      \/ Sync(s, a) = Press(s2, a2, a.p)
      \/ Sync(s, a) = Press(s2, a2, a.mt)
      \/ Sync(s, a) = [s |-> s2, a |-> a, out |-> [kind |-> "none", at |-> Up]]
  BY DEF Sync, Result, Consumed
<1>. HIDE DEF s2, a2, s3
<1>5. Gesture(s2) /\ Gesture(s3)
  BY <1>1, <1>2 DEF Gesture, SameGesture
<1>6. Outcome(s, ReportRelease(s3, a))
  BY <1>2, <1>5, ReleaseOutcome, Relations
<1>7. Outcome(s, Press(s2, a2, a.p)) /\ Outcome(s, Press(s2, a2, a.mt))
  BY <1>1, <1>3, <1>5, PressOutcome, Relations
<1>8. Outcome(s, [s |-> s2, a |-> a, out |-> [kind |-> "none", at |-> Up]])
  BY <1>1, QuietOutcome
<1>. QED
  BY <1>4, <1>6, <1>7, <1>8

LEMMA PackedOutcome ==
    ASSUME NEW s, NEW a, NEW at \in Pos \cup {Up}, StaticsType(s), Gesture(s), AxesType(a)
    PROVE  Outcome(s, Packed(s, a, at))
<1>. DEFINE s2 == [s EXCEPT !.lastSyn = TRUE]
            a2 == [a EXCEPT !.mt = <<0, 0>>, !.mtSync = TRUE]
            s3 == [s EXCEPT !.lastSyn = FALSE]
            a3 == [a EXCEPT !.mt = at, !.mtSync = TRUE]
<1>1. StaticsType(s2) /\ SameGesture(s, s2) /\ StaticsType(s3) /\ SameGesture(s, s3)
  BY DEF StaticsType, SameGesture
<1>2. AxesType(a2) /\ (at # Up => AxesType(a3))
  BY Places DEF AxesType
<1>3. Packed(s, a, at) = IF at = Up THEN Sync(s2, a2) ELSE Sync(s3, a3)
  BY DEF Packed
<1>. HIDE DEF s2, a2, s3, a3
<1>4. Gesture(s2) /\ Gesture(s3)
  BY <1>1 DEF Gesture, SameGesture
<1>. QED
  BY <1>1, <1>2, <1>3, <1>4, SyncOutcome, Relations

\* The switch over the axes changes neither the touch nor the virtual key.
LEMMA LiftAndContact ==
    ASSUME NEW s, NEW kind, StaticsType(s)
    PROVE  /\ StaticsType(Lift(s, kind)) /\ SameGesture(s, Lift(s, kind))
           /\ StaticsType(Contact(s, kind)) /\ SameGesture(s, Contact(s, kind))
<1>0. /\ 0 \in 0 .. 2 /\ 1 \in 0 .. 2 /\ 2 \in 0 .. 2 /\ s.release \in 0 .. 2
      /\ FALSE \in BOOLEAN /\ TRUE \in BOOLEAN
  BY DEF StaticsType
<1>1. ASSUME NEW n \in 0 .. 2
      PROVE  Keeps(s, [s EXCEPT !.finger = FALSE, !.release = n])
  <2>. DEFINE r == [s EXCEPT !.finger = FALSE]
  <2>1. Keeps(s, r)
    BY SetFinger
  <2>3. [r EXCEPT !.release = n] = [s EXCEPT !.finger = FALSE, !.release = n]
    OBVIOUS
  <2>. HIDE DEF r
  <2>2. Keeps(r, [r EXCEPT !.release = n])
    BY <2>1, SetRelease DEF Keeps
  <2>4. Keeps(s, [r EXCEPT !.release = n])
    BY <2>1, <2>2, KeepsOn
  <2>. QED
    BY <2>3, <2>4, Zenon
<1>2. CASE kind = "TRACK"
  <2>1. /\ Lift(s, kind) = [s EXCEPT !.finger = FALSE, !.release = 2, !.negative = TRUE]
        /\ Contact(s, kind) = [s EXCEPT !.finger = TRUE, !.release = 0, !.negative = FALSE]
    BY <1>2, Zenon DEF Lift, Contact
  <2>. DEFINE yes == TRUE
              no == FALSE
  <2>4. yes \in BOOLEAN /\ no \in BOOLEAN
    OBVIOUS
  <2>5. /\ Keeps(s, [s EXCEPT !.finger = no, !.release = 2, !.negative = yes])
        /\ Keeps(s, [s EXCEPT !.finger = yes, !.release = 0, !.negative = no])
    <3>. HIDE DEF yes, no
    <3>. QED
      BY <1>0, <2>4, SetThree, Zenon
  <2>2. Keeps(s, Lift(s, kind))
    BY <2>1, <2>5, Zenon
  <2>3. Keeps(s, Contact(s, kind))
    BY <2>1, <2>5, Zenon
  <2>. QED
    BY <2>2, <2>3 DEF Keeps
<1>3. CASE kind # "TRACK"
  <2>1. Contact(s, kind) = [s EXCEPT !.finger = TRUE]
    BY <1>3, Zenon DEF Contact
  <2>2. \E n \in 0 .. 2 : Lift(s, kind) = [s EXCEPT !.finger = FALSE, !.release = n]
    BY <1>0, <1>3 DEF Lift
  <2>3. Keeps(s, Contact(s, kind))
    BY <1>0, <2>1, SetFinger, Zenon
  <2>4. Keeps(s, Lift(s, kind))
    <3>1. PICK n \in 0 .. 2 : Lift(s, kind) = [s EXCEPT !.finger = FALSE, !.release = n]
      BY <2>2, Zenon
    <3>2. Keeps(s, [s EXCEPT !.finger = FALSE, !.release = n])
      BY <1>1
    <3>. QED
      BY <3>1, <3>2, Zenon
  <2>. QED
    BY <2>3, <2>4 DEF Keeps
<1>. QED
  BY <1>2, <1>3

LEMMA AbsOutcome ==
    ASSUME NEW s, NEW a, NEW e, StaticsType(s), Gesture(s), AxesType(a), Sent(e),
           e.t \in {"X", "Y", "SLOT", "MTX", "MTY", "TRACK", "PRESSURE", "MAJOR"}
    PROVE  Outcome(s, AbsEvent(s, a, e))
<1>. DEFINE seen == [s EXCEPT !.lastSyn = FALSE]
            nothing(s2, a2) == [s |-> s2, a |-> a2, out |-> [kind |-> "none", at |-> Up]]
<1>1. StaticsType(seen) /\ SameGesture(s, seen)
  BY DEF StaticsType, SameGesture
<1>2. ASSUME NEW s2, NEW a2, StaticsType(s2), SameGesture(seen, s2), AxesType(a2)
      PROVE  Outcome(s, nothing(s2, a2))
  <2>1. SameGesture(s, s2)
    BY <1>1, <1>2 DEF SameGesture
  <2>. QED
    BY <1>2, <2>1, QuietOutcome
<1>0. SameGesture(seen, seen)
  BY DEF SameGesture
<1>3. CASE e.t = "X"
  <2>1. AxesType([a EXCEPT !.p = <<e.v, @[2]>>, !.pSync = TRUE])
    BY <1>3 DEF AxesType, Sent, Place
  <2>2. AbsEvent(s, a, e) = nothing(seen, [a EXCEPT !.p = <<e.v, @[2]>>, !.pSync = TRUE])
    BY <1>3 DEF AbsEvent, Result, Consumed
  <2>. QED
    BY <1>0, <1>1, <1>2, <2>1, <2>2
<1>4. CASE e.t = "Y"
  <2>1. AxesType([a EXCEPT !.p = <<@[1], e.v>>, !.pSync = TRUE])
    BY <1>4 DEF AxesType, Sent, Place
  <2>2. AbsEvent(s, a, e) = nothing(seen, [a EXCEPT !.p = <<@[1], e.v>>, !.pSync = TRUE])
    BY <1>4 DEF AbsEvent, Result, Consumed
  <2>. QED
    BY <1>0, <1>1, <1>2, <2>1, <2>2
<1>5. CASE e.t = "SLOT"
  <2>1. e.v \in Fingers
    BY <1>5 DEF Sent
  <2>2. StaticsType([seen EXCEPT !.slot = e.v]) /\ SameGesture(seen, [seen EXCEPT !.slot = e.v])
    BY <1>1, <2>1 DEF StaticsType, SameGesture
  <2>3. AbsEvent(s, a, e) = nothing([seen EXCEPT !.slot = e.v], a)
    BY <1>5 DEF AbsEvent, Result, Consumed
  <2>. QED
    BY <1>2, <2>2, <2>3
<1>. DEFINE away == OtherSlot(s, e.t)
<1>6. CASE away /\ e.t \in {"MTX", "MTY", "TRACK", "PRESSURE", "MAJOR"}
  <2>1. AbsEvent(s, a, e) = nothing(seen, a)
    BY <1>6 DEF AbsEvent, Result, Consumed
  <2>. QED
    BY <1>0, <1>1, <1>2, <2>1
<1>7. CASE ~ away /\ e.t \in {"MTX", "MTY"}
  <2>1. AxesType(MtAxis(a, e.t, e.v))
    BY <1>7 DEF AxesType, MtAxis, Sent, Place
  <2>2. AbsEvent(s, a, e) = nothing(Contact(seen, e.t), MtAxis(a, e.t, e.v))
    BY <1>7 DEF AbsEvent, Result, Consumed
  <2>. QED
    BY <1>1, <1>2, <2>1, <2>2, LiftAndContact
<1>8. CASE ~ away /\ e.t \in {"TRACK", "PRESSURE", "MAJOR"}
  <2>0. e.v \in Int
    BY DEF Sent
  <2>1. CASE e.v > 0
    <3>1. AbsEvent(s, a, e) = nothing(Contact(seen, e.t), a)
      BY <1>8, <2>0, <2>1 DEF AbsEvent, Result, Consumed
    <3>. QED
      BY <1>1, <1>2, <3>1, LiftAndContact
  <2>2. CASE ~ (e.v > 0)
    <3>0. e.v <= 0
      BY <2>0, <2>2
    <3>1. AbsEvent(s, a, e) = nothing(Lift(seen, e.t), [a EXCEPT !.mt = <<0, 0>>])
      BY <1>8, <2>0, <2>2, <3>0 DEF AbsEvent, Result, Consumed
    <3>2. AxesType([a EXCEPT !.mt = <<0, 0>>])
      BY Places DEF AxesType
    <3>. QED
      BY <1>1, <1>2, <3>1, <3>2, LiftAndContact
  <2>. QED
    BY <2>1, <2>2
<1>. QED
  BY <1>3, <1>4, <1>5, <1>6, <1>7, <1>8

\* Whatever event comes, in whatever state.
LEMMA VkModify ==
    ASSUME NEW s, NEW a, NEW e, StaticsType(s), Gesture(s), AxesType(a), Sent(e),
           e.t # "RELZ"
    PROVE  Outcome(s, vk_modify(s, a, e))
<1>1. SameGesture(s, s)
  BY DEF SameGesture
<1>2. CASE e.t = "KEY" \/ e.t = "MTSYN"
  <2>1. \E kind \in {"none", "key", "other"} :
           vk_modify(s, a, e) = [s |-> s, a |-> a, out |-> [kind |-> kind, at |-> Up]]
    BY <1>2 DEF vk_modify, Result, Out
  <2>. QED
    BY <1>1, <2>1, QuietOutcome
<1>3. CASE e.t = "BTN"
  BY <1>3, ButtonOutcome DEF vk_modify
<1>4. CASE e.t = "SYN"
  BY <1>4, SyncOutcome DEF vk_modify
<1>5. CASE e.t = "MTPOS"
  <2>1. e.at \in Pos \cup {Up}
    BY DEF Sent
  <2>. QED
    BY <1>5, <2>1, PackedOutcome DEF vk_modify
<1>6. CASE e.t \in {"X", "Y", "SLOT", "MTX", "MTY", "TRACK", "PRESSURE", "MAJOR"}
  BY <1>6, AbsOutcome DEF vk_modify
<1>7. e.t \in Kinds
  BY DEF Sent
<1>. QED
  BY <1>2, <1>3, <1>4, <1>5, <1>6, <1>7 DEF Kinds

-----------------------------------------------------------------------------
(***************************************************************************)
(* The drivers                                                             *)
(***************************************************************************)
LEMMA SequencesOf ==
    ASSUME NEW S
    PROVE  /\ <<>> \in Seq(S)
           /\ \A x \in S : <<x>> \in Seq(S)
           /\ \A x, y \in S : <<x, y>> \in Seq(S)
           /\ \A q, r \in Seq(S) : q \o r \in Seq(S)
OBVIOUS

LEMMA Sendable ==
    ASSUME NEW t \in Kinds, NEW v \in Int,
           t \in {"X", "MTX"} => v \in Row, t \in {"Y", "MTY"} => v \in Column,
           t = "SLOT" => v \in Fingers
    PROVE  E(t, v) \in InputEvents
<1>. DEFINE e == E(t, v)
<1>1. e = [t |-> t, v |-> v, at |-> Up]
  BY DEF E
<1>2. e \in [t : Kinds, v : Int, at : Pos \cup {Up}] /\ e.t = t /\ e.v = v
  BY <1>1
<1>. HIDE DEF e
<1>3. e \in InputEvents
  BY <1>2 DEF InputEvents, Sent
<1>. QED
  BY <1>3 DEF e

LEMMA Ends ==
    ASSUME NEW at \in Pos \cup {Up}
    PROVE  Syn(at) \in InputEvents /\ [t |-> "MTPOS", v |-> 0, at |-> at] \in InputEvents
<1>1. ASSUME NEW t \in {"SYN", "MTPOS"} PROVE [t |-> t, v |-> 0, at |-> at] \in InputEvents
  <2>. DEFINE e == [t |-> t, v |-> 0, at |-> at]
  <2>1. e \in [t : Kinds, v : Int, at : Pos \cup {Up}] /\ e.t = t
    BY DEF Kinds
  <2>. HIDE DEF e
  <2>2. e \in InputEvents
    BY <2>1 DEF InputEvents, Sent
  <2>. QED
    BY <2>2 DEF e
<1>. QED
  BY <1>1 DEF Syn

\* Which events a frame is made of.
LEMMA Pieces ==
    ASSUME NEW f \in Fingers, NEW to \in Pos \cup {Up}
    PROVE  /\ \A v \in {-1, 1} : E("TRACK", v) \in InputEvents
           /\ \A v \in {0, 1} : /\ E("BTN", v) \in InputEvents
                                /\ E("PRESSURE", v) \in InputEvents
                                /\ E("MAJOR", v) \in InputEvents
           /\ E("MTSYN", 0) \in InputEvents
           /\ E("SLOT", f) \in InputEvents
           /\ to # Up => /\ E("X", to[1]) \in InputEvents /\ E("MTX", to[1]) \in InputEvents
                         /\ E("Y", to[2]) \in InputEvents /\ E("MTY", to[2]) \in InputEvents
<1>1. \A v \in {-1, 0, 1} : \A t \in {"TRACK", "BTN", "PRESSURE", "MAJOR", "MTSYN"} :
        E(t, v) \in InputEvents
  <2>. SUFFICES ASSUME NEW v \in {-1, 0, 1},
                       NEW t \in {"TRACK", "BTN", "PRESSURE", "MAJOR", "MTSYN"}
                PROVE  E(t, v) \in InputEvents
    OBVIOUS
  <2>1. /\ t \in Kinds /\ t \notin {"X", "MTX"} /\ t \notin {"Y", "MTY"} /\ t # "SLOT"
    BY DEF Kinds
  <2>2. v \in Int
    OBVIOUS
  <2>. QED
    BY <2>1, <2>2, Sendable
<1>2. E("SLOT", f) \in InputEvents
  <2>1. f \in Int
    BY DEF Fingers
  <2>2. "SLOT" \in Kinds /\ "SLOT" \notin {"X", "MTX"} /\ "SLOT" \notin {"Y", "MTY"}
    BY DEF Kinds
  <2>. QED
    BY <2>1, <2>2, Sendable
<1>3. ASSUME to # Up
      PROVE  /\ \A t \in {"X", "MTX"} : E(t, to[1]) \in InputEvents
             /\ \A t \in {"Y", "MTY"} : E(t, to[2]) \in InputEvents
  <2>1. to \in Place /\ Row \subseteq Nat /\ Column \subseteq Nat
    BY <1>3, Places
  <2>2. to[1] \in Row /\ to[2] \in Column
    BY <2>1 DEF Place
  <2>6. \A x \in Row \cup Column : x \in Int
    BY <2>1
  <2>3. to[1] \in Int /\ to[2] \in Int
    BY <2>2, <2>6, Zenon
  <2>4. ASSUME NEW t \in {"X", "MTX"} PROVE E(t, to[1]) \in InputEvents
    <3>1. t \in Kinds /\ t \notin {"Y", "MTY"} /\ t # "SLOT"
      BY DEF Kinds
    <3>. QED
      BY <2>2, <2>3, <3>1, Sendable
  <2>5. ASSUME NEW t \in {"Y", "MTY"} PROVE E(t, to[2]) \in InputEvents
    <3>1. t \in Kinds /\ t \notin {"X", "MTX"} /\ t # "SLOT"
      BY DEF Kinds
    <3>. QED
      BY <2>2, <2>3, <3>1, Sendable
  <2>. QED
    BY <2>4, <2>5
<1>. QED
  BY <1>1, <1>2, <1>3

\* Whatever the kind of the driver.
LEMMA FrameType ==
    ASSUME NEW f \in Fingers, NEW to \in Pos \cup {Up}, driver \in Drivers,
           finger \in [Fingers -> Pos \cup {Up}]
    PROVE  Frame(f, to) \in Seq(InputEvents)
<1>. DEFINE secondheld == \E g \in Fingers \ {f} : Touching(g)
            none == <<>>
            slot == Slot(f)
            btn(v) == IF secondheld THEN none ELSE <<E("BTN", v)>>
            axes(x, y) == Changed(x, to[1], kernel.at[f][1]) \o Changed(y, to[2], kernel.at[f][2])
            both == <<E("MTX", to[1]), E("MTY", to[2])>>
            syn == <<Syn(IF f = 0 THEN to ELSE finger[0])>>
            zero(v) == IF driver = "pressure" THEN <<E("PRESSURE", v)>> ELSE <<E("MAJOR", v)>>
            mtsyn == <<E("MTSYN", 0)>>
            gone == <<E("TRACK", -1)>>
            came == IF finger[f] = Up THEN <<E("TRACK", 1)>> \o btn(1) ELSE none
            press == IF finger[f] = Up THEN <<E("BTN", 1)>> ELSE none
            release == <<E("BTN", 0)>>
            packed == <<[t |-> "MTPOS", v |-> 0, at |-> to]>>
            S == InputEvents
<1>1. /\ none \in Seq(S) /\ slot \in Seq(S) /\ mtsyn \in Seq(S) /\ gone \in Seq(S)
      /\ release \in Seq(S) /\ press \in Seq(S)
  BY Pieces, SequencesOf DEF Slot, Changed
<1>2. btn(0) \in Seq(S) /\ btn(1) \in Seq(S) /\ zero(0) \in Seq(S) /\ zero(1) \in Seq(S)
  BY Pieces, SequencesOf
<1>3. syn \in Seq(S) /\ packed \in Seq(S)
  <2>1. (IF f = 0 THEN to ELSE finger[0]) \in Pos \cup {Up}
    BY DEF Fingers
  <2>. QED
    BY <2>1, Ends, SequencesOf
<1>4. came \in Seq(S)
  <2>1. <<E("TRACK", 1)>> \in Seq(S)
    BY Pieces, SequencesOf
  <2>. HIDE DEF btn, none, S
  <2>. QED
    BY <1>1, <1>2, <2>1, SequencesOf
<1>5. ASSUME to # Up
      PROVE  both \in Seq(S) /\ axes("X", "Y") \in Seq(S) /\ axes("MTX", "MTY") \in Seq(S)
  <2>1. both \in Seq(S)
    BY <1>5, Pieces, SequencesOf
  <2>2. /\ Changed("X", to[1], kernel.at[f][1]) \in Seq(S)
        /\ Changed("Y", to[2], kernel.at[f][2]) \in Seq(S)
        /\ Changed("MTX", to[1], kernel.at[f][1]) \in Seq(S)
        /\ Changed("MTY", to[2], kernel.at[f][2]) \in Seq(S)
    BY <1>5, Pieces, SequencesOf DEF Changed
  <2>. HIDE DEF S
  <2>. QED
    BY <2>1, <2>2, SequencesOf
<1>6. driver \in {"slots", "anonymous", "pressure", "major", "single", "packed"}
  BY InputAssumption
<1>7. Frame(f, to) =
        CASE driver = "slots" /\ to = Up -> slot \o gone \o btn(0) \o syn
          [] driver = "slots" /\ to # Up -> slot \o came \o axes("MTX", "MTY") \o syn
          [] driver = "single" /\ to = Up -> release \o syn
          [] driver = "single" /\ to # Up -> axes("X", "Y") \o press \o syn
          [] driver = "anonymous" -> (IF to = Up THEN none ELSE both) \o mtsyn \o syn
          [] driver \in {"pressure", "major"} ->
                (IF to = Up THEN zero(0) ELSE both \o zero(1)) \o mtsyn \o syn
          [] driver = "packed" -> packed
  BY DEF Frame
<1>. HIDE DEF none, slot, btn, axes, both, syn, zero, mtsyn, gone, came, press, release, packed, S
<1>8. CASE driver = "slots"
  BY <1>1, <1>2, <1>3, <1>4, <1>5, <1>7, <1>8, SequencesOf DEF S
<1>9. CASE driver = "single"
  BY <1>1, <1>3, <1>5, <1>7, <1>9, SequencesOf DEF S
<1>10. CASE driver = "anonymous"
  BY <1>1, <1>3, <1>5, <1>7, <1>10, SequencesOf DEF S
<1>11. CASE driver \in {"pressure", "major"}
  BY <1>1, <1>2, <1>3, <1>5, <1>7, <1>11, SequencesOf DEF S
<1>12. CASE driver = "packed"
  BY <1>3, <1>7, <1>12 DEF S
<1>. QED
  BY <1>6, <1>8, <1>9, <1>10, <1>11, <1>12

-----------------------------------------------------------------------------
(***************************************************************************)
(* The GUI loop                                                            *)
(***************************************************************************)
\* An index of evs.
Entries ==
    [ignored : BOOLEAN, a : [p : Place, pSync : BOOLEAN, mt : Place, mtSync : BOOLEAN]]

QueuesTyped == queue \in [Device -> Seq(InputEvents)]

DevicesTyped ==
    /\ driver \in Drivers
    /\ finger \in [Fingers -> Pos \cup {Up}]
    /\ plugged \in SUBSET Device
    /\ changed \in BOOLEAN /\ mixed \in BOOLEAN

ReaderTyped ==
    /\ order \in Seq(Device) /\ Len(order) \in {2, 3}
    /\ evs \in [1 .. 3 -> Entries]
    /\ scan \subseteq 1 .. Len(order)

\* The inductive part: what the GUI saw last and what vk_modify remembers.
Agrees(s, gui) ==
    /\ StaticsType(s) /\ Gesture(s)
    /\ gui \in [kind : {"none", "touch", "keydown"}, at : Place \cup {Up}]
    /\ (gui.kind = "keydown") <=> s.discard
    /\ (gui.kind = "none") <=> (s.down = Up /\ ~ s.discard)
    /\ gui.kind = "touch" => s.down = gui.at

TouchIInv == QueuesTyped /\ DevicesTyped /\ ReaderTyped /\ Agrees(st, guiSaw)

LEMMA EntryFields ==
    /\ \A e \in Entries : e.ignored \in BOOLEAN /\ AxesType(e.a)
    /\ \A i \in BOOLEAN : \A a : AxesType(a) => [ignored |-> i, a |-> a] \in Entries
<1>. DEFINE AxisRecords == [p : Place, pSync : BOOLEAN, mt : Place, mtSync : BOOLEAN]
<1>1. Entries = [ignored : BOOLEAN, a : AxisRecords]
  BY DEF Entries
<1>2. \A a : AxesType(a) <=> a \in AxisRecords
  BY DEF AxesType
<1>. HIDE DEF AxisRecords
<1>. QED
  BY <1>1, <1>2

LEMMA InitEntry ==
    ASSUME NEW e \in Entries, NEW d PROVE vk_init(e, d) \in Entries
<1>. DEFINE a == [e.a EXCEPT !.pSync = FALSE, !.mtSync = FALSE]
            i == e.ignored \/ d \in Blacklisted
<1>1. e.ignored \in BOOLEAN /\ AxesType(e.a)
  BY EntryFields
<1>2. AxesType(a)
  BY <1>1 DEF AxesType
<1>3. i \in BOOLEAN
  OBVIOUS
<1>4. vk_init(e, d) = [ignored |-> i, a |-> a]
  BY DEF vk_init
<1>. HIDE DEF a, i
<1>. QED
  BY <1>2, <1>3, <1>4, EntryFields

LEMMA InitEvs ==
    ASSUME NEW old \in [1 .. 3 -> Entries], NEW seq
    PROVE  ev_init(old, seq) \in [1 .. 3 -> Entries]
  BY InitEntry DEF ev_init

LEMMA Opened ==
    ASSUME NEW o \in Orders
    PROVE  \A l \in {o, Listed(o)} : l \in Seq(Device) /\ Len(l) \in {2, 3}
<1>0. ASSUME NEW n \in Nat, NEW l \in [1 .. n -> Device]
      PROVE  l \in Seq(Device) /\ Len(l) = n
  OBVIOUS
<1>1. o \in [1 .. 3 -> Device]
  BY InputAssumption
<1>2. Listed(o) \in [1 .. 3 -> Device] \/ Listed(o) \in [1 .. 2 -> Device]
  <2>. DEFINE u == CHOOSE i \in 1 .. 3 : o[i] = Sensor
              l == [k \in 1 .. 2 |-> IF k < u THEN o[k] ELSE o[k + 1]]
  <2>1. Listed(o) = IF Sensor \in plugged THEN o ELSE l
    BY DEF Listed
  <2>. HIDE DEF u
  <2>2. l \in [1 .. 2 -> Device]
    BY <1>1
  <2>. QED
    BY <1>1, <2>1, <2>2
<1>. QED
  BY <1>0, <1>1, <1>2

\* The lowest index of the poll.
LEMMA TurnInScan ==
    ASSUME scan \subseteq 1 .. 3, scan # {}
    PROVE  Turn \in scan
<1>1. \E n \in scan : \A m \in scan : n <= m
  <2>1. CASE 1 \in scan
    <3>1. \A m \in scan : 1 <= m
      OBVIOUS
    <3>. QED
      BY <2>1, <3>1
  <2>2. CASE 1 \notin scan /\ 2 \in scan
    <3>1. \A m \in scan : 2 <= m
      <4>1. \A m \in 1 .. 3 : m # 1 => 2 <= m
        OBVIOUS
      <4>. QED
        BY <2>2, <4>1, Zenon
    <3>. QED
      BY <2>2, <3>1
  <2>3. CASE 1 \notin scan /\ 2 \notin scan
    <3>1. \A m \in scan : m = 3
      <4>1. \A m \in 1 .. 3 : m # 1 /\ m # 2 => m = 3
        OBVIOUS
      <4>. QED
        BY <2>3, <4>1, Zenon
    <3>2. PICK x \in scan : TRUE
      OBVIOUS
    <3>3. 3 \in scan
      BY <3>1, <3>2, Zenon
    <3>4. \A m \in scan : 3 <= m
      BY <3>1
    <3>. QED
      BY <3>3, <3>4, Zenon
  <2>. QED
    BY <2>1, <2>2, <2>3
<1>. QED
  BY <1>1 DEF Turn

-----------------------------------------------------------------------------
(***************************************************************************)
(* What vk_modify answers, the GUI believes                                *)
(***************************************************************************)
LEMMA Believed ==
    ASSUME NEW s, NEW r, Agrees(s, guiSaw), Outcome(s, r), See(r.out)
    PROVE  Agrees(r.s, guiSaw')
<1>. DEFINE k == r.out.kind
            none == [kind |-> "none", at |-> Up]
<1>1. StaticsType(r.s) /\ Gesture(r.s) /\ s.discard \in BOOLEAN
  BY DEF Outcome, Agrees, StaticsType
<1>2. none \in [kind : {"none", "touch", "keydown"}, at : Place \cup {Up}] /\ none.kind = "none"
  OBVIOUS
<1>3. CASE k \in {"none", "key", "other"}
  <2>1. guiSaw' = guiSaw
    BY <1>3 DEF See
  <2>2. SameGesture(s, r.s)
    BY <1>3 DEF Outcome
  <2>. QED
    BY <1>1, <2>1, <2>2 DEF Agrees, SameGesture
<1>4. CASE k = "touch"
  <2>1. guiSaw' = r.out
    BY <1>4 DEF See
  <2>2. r.s.discard = FALSE /\ r.s.down = r.out.at /\ r.out \in [kind : {"touch"}, at : Place]
    BY <1>4 DEF Outcome
  <2>3. r.out.at # Up
    BY <2>2, Places
  <2>4. r.out \in [kind : {"none", "touch", "keydown"}, at : Place \cup {Up}]
    BY <2>2
  <2>. QED
    BY <1>1, <1>4, <2>1, <2>2, <2>3, <2>4 DEF Agrees
<1>5. CASE k = "keydown"
  <2>1. guiSaw' = r.out
    BY <1>5 DEF See
  <2>2. r.s.discard = TRUE /\ r.out \in [kind : {"keydown"}, at : Place]
    BY <1>5 DEF Outcome
  <2>3. r.out \in [kind : {"none", "touch", "keydown"}, at : Place \cup {Up}]
    BY <2>2
  <2>. QED
    BY <1>1, <1>5, <2>1, <2>2, <2>3 DEF Agrees
<1>6. CASE k \in {"up", "keyup"}
  <2>1. guiSaw' = none
    BY <1>6 DEF See
  <2>2. r.s.down = Up /\ r.s.discard = FALSE
    BY <1>6 DEF Outcome
  <2>. HIDE DEF none
  <2>. QED
    BY <1>1, <1>2, <2>1, <2>2 DEF Agrees
<1>7. k \in {"none", "key", "other", "touch", "keydown", "up", "keyup"}
  BY DEF Outcome
<1>. QED
  BY <1>3, <1>4, <1>5, <1>6, <1>7

\* The event of the device whose turn it is, and what is made of it.
LEMMA Answer ==
    ASSUME TouchIInv, scan # {}, queue[order[Turn]] # <<>>
    PROVE  /\ Turn \in 1 .. 3 /\ Turn \in 1 .. Len(order) /\ Turn \in scan
           /\ order[Turn] \in Device /\ Event \in InputEvents
           /\ Outcome(st, Handled)
<1>1. /\ scan \subseteq 1 .. 3 /\ scan \subseteq 1 .. Len(order) /\ order \in Seq(Device)
      /\ 1 .. Len(order) \subseteq 1 .. 3
  <2>1. /\ scan \subseteq 1 .. Len(order) /\ order \in Seq(Device) /\ Len(order) \in {2, 3}
    BY DEF TouchIInv, ReaderTyped
  <2>2. \A n \in {2, 3} : 1 .. n \subseteq 1 .. 3
    OBVIOUS
  <2>3. 1 .. Len(order) \subseteq 1 .. 3
    BY <2>1, <2>2, Zenon
  <2>. QED
    BY <2>1, <2>3, Zenon
<1>2. Turn \in scan
  BY <1>1, TurnInScan
<1>3. Turn \in 1 .. 3 /\ Turn \in 1 .. Len(order)
  BY <1>1, <1>2, Zenon
<1>4. order[Turn] \in Device
  <2>. HIDE DEF Turn
  <2>. QED
    BY <1>1, <1>3
<1>5. Event \in InputEvents
  <2>1. queue[order[Turn]] \in Seq(InputEvents)
    BY <1>4 DEF TouchIInv, QueuesTyped
  <2>. DEFINE q == queue[order[Turn]]
  <2>2. Event = Head(q)
    BY DEF Event
  <2>. HIDE DEF q, Event, InputEvents
  <2>3. q \in Seq(InputEvents) /\ q # <<>>
    BY <2>1 DEF q
  <2>. QED
    BY <2>2, <2>3
<1>6. AxesType(evs[Turn].a)
  <2>1. evs[Turn] \in Entries
    BY <1>3 DEF TouchIInv, ReaderTyped
  <2>. QED
    BY <2>1, EntryFields
<1>7. StaticsType(st) /\ Gesture(st)
  BY DEF TouchIInv, Agrees
<1>. DEFINE e == Event
            a == evs[Turn].a
            quiet == [s |-> st, a |-> a, out |-> [kind |-> "none", at |-> Up]]
<1>8. Outcome(st, quiet)
  <2>1. SameGesture(st, st)
    BY DEF SameGesture
  <2>. HIDE DEF a
  <2>2. AxesType(a)
    BY <1>6 DEF a
  <2>. QED
    BY <1>7, <2>1, <2>2, QuietOutcome
<1>9. e.t # "RELZ" => Outcome(st, vk_modify(st, a, e))
  <2>1. Sent(e)
    BY <1>5 DEF InputEvents
  <2>. HIDE DEF a, e
  <2>2. AxesType(a)
    BY <1>6 DEF a
  <2>. QED
    BY <1>7, <2>1, <2>2, VkModify
<1>10. Handled = IF evs[Turn].ignored \/ e.t = "RELZ" THEN quiet ELSE vk_modify(st, a, e)
  BY DEF Handled, Result, Consumed
<1>11. Outcome(st, Handled)
  <2>. HIDE DEF quiet, e, a
  <2>. QED
    BY <1>8, <1>9, <1>10
<1>. QED
  BY <1>2, <1>3, <1>4, <1>5, <1>11

-----------------------------------------------------------------------------
(***************************************************************************)
(* The steps                                                               *)
(***************************************************************************)
LEMMA TouchStarts == TouchInit => TouchIInv
<1>. SUFFICES ASSUME TouchInit PROVE TouchIInv
  OBVIOUS
<1>1. QueuesTyped
  BY SequencesOf DEF TouchInit, QueuesTyped
<1>2. DevicesTyped
  BY DEF TouchInit, DevicesTyped
<1>3. ReaderTyped
  <2>1. AxesType(Axes)
    BY Places DEF Axes, AxesType
  <2>2. EmptyEvs \in [1 .. 3 -> Entries]
    <3>. HIDE DEF Axes, Entries
    <3>1. [ignored |-> FALSE, a |-> Axes] \in Entries
      BY <2>1, EntryFields
    <3>. QED
      BY <3>1 DEF EmptyEvs
  <2>3. evs \in [1 .. 3 -> Entries]
    BY <2>2, InitEvs DEF TouchInit
  <2>. QED
    BY <2>3, Opened DEF TouchInit, ReaderTyped
<1>4. Agrees(st, guiSaw)
  <2>1. StaticsType(Statics) /\ Statics.down = Up /\ Statics.discard = FALSE
    BY DEF Statics, StaticsType, Up, Fingers
  <2>2. st = Statics /\ guiSaw = [kind |-> "none", at |-> Up]
    BY DEF TouchInit
  <2>3. Gesture(Statics)
    BY <2>1 DEF Gesture
  <2>4. guiSaw \in [kind : {"none", "touch", "keydown"}, at : Place \cup {Up}] /\ guiSaw.kind = "none"
    BY <2>2
  <2>. HIDE DEF Statics
  <2>. QED
    BY <2>1, <2>2, <2>3, <2>4 DEF Agrees
<1>. QED
  BY <1>1, <1>2, <1>3, <1>4 DEF TouchIInv

\* What a device sends joins its queue.
LEMMA SendStep ==
    ASSUME QueuesTyped, NEW d \in Device, NEW events \in Seq(InputEvents), Send(d, events)
    PROVE  QueuesTyped'
<1>. HIDE DEF InputEvents
<1>1. queue[d] \o events \in Seq(InputEvents)
  BY SequencesOf DEF QueuesTyped
<1>. QED
  BY <1>1 DEF QueuesTyped, Send

LEMMA MoveFingerStep ==
    ASSUME TouchIInv, NEW f \in Fingers, NEW to \in Pos \cup {Up}, MoveFinger(f, to)
    PROVE  TouchIInv'
<1>1. QueuesTyped'
  <2>1. Frame(f, to) \in Seq(InputEvents)
    BY FrameType DEF TouchIInv, DevicesTyped
  <2>2. Screen \in Device
    BY DEF Device
  <2>. QED
    BY <2>1, <2>2, SendStep DEF TouchIInv, MoveFinger
<1>2. DevicesTyped'
  BY DEF TouchIInv, DevicesTyped, MoveFinger
<1>3. ReaderTyped' /\ Agrees(st, guiSaw)'
  <2>1. UNCHANGED <<order, evs, scan, st, guiSaw>>
    BY DEF MoveFinger, reader
  <2>. QED
    BY <2>1 DEF TouchIInv, ReaderTyped, Agrees
<1>. QED
  BY <1>1, <1>2, <1>3 DEF TouchIInv

LEMMA OtherStep ==
    ASSUME TouchIInv, PressKey \/ Measure
    PROVE  TouchIInv'
<1>1. <<E("KEY", 1), Syn(Up)>> \in Seq(InputEvents)
  <2>1. "KEY" \in Kinds /\ "KEY" \notin {"X", "MTX"} /\ "KEY" \notin {"Y", "MTY"} /\ "KEY" # "SLOT"
    BY DEF Kinds
  <2>2. E("KEY", 1) \in InputEvents
    BY <2>1, Sendable
  <2>. QED
    BY <2>2, Ends, SequencesOf
<1>2. <<E("RELZ", 0)>> \in Seq(InputEvents)
  <2>1. "RELZ" \in Kinds /\ "RELZ" \notin {"X", "MTX"} /\ "RELZ" \notin {"Y", "MTY"} /\ "RELZ" # "SLOT"
    BY DEF Kinds
  <2>2. E("RELZ", 0) \in InputEvents
    BY <2>1, Sendable
  <2>. QED
    BY <2>2, SequencesOf
<1>3. QueuesTyped'
  BY <1>1, <1>2, SendStep DEF TouchIInv, PressKey, Measure, Device
<1>4. UNCHANGED <<driver, finger, plugged, changed, mixed, order, evs, scan, st, guiSaw>>
  BY DEF PressKey, Measure, hardware, reader
<1>. QED
  BY <1>3, <1>4 DEF TouchIInv, DevicesTyped, ReaderTyped, Agrees

LEMMA ReplugStep ==
    ASSUME TouchIInv, Replug
    PROVE  TouchIInv'
<1>1. QueuesTyped'
  BY SequencesOf DEF TouchIInv, QueuesTyped, Replug
<1>2. DevicesTyped'
  BY DEF TouchIInv, DevicesTyped, Replug, hardware
<1>3. UNCHANGED <<order, evs, scan, st, guiSaw>>
  BY DEF Replug, reader
<1>. QED
  BY <1>1, <1>2, <1>3 DEF TouchIInv, ReaderTyped, Agrees

LEMMA ReloadStep ==
    ASSUME TouchIInv, Reload
    PROVE  TouchIInv'
<1>1. QueuesTyped'
  BY SequencesOf DEF QueuesTyped, Reload
<1>2. DevicesTyped'
  BY DEF TouchIInv, DevicesTyped, Reload, hardware
<1>3. ReaderTyped'
  <2>1. order' \in Seq(Device) /\ Len(order') \in {2, 3}
    BY Opened DEF Reload
  <2>2. evs' \in [1 .. 3 -> Entries]
    BY InitEvs DEF TouchIInv, ReaderTyped, Reload
  <2>3. scan' = {}
    BY DEF Reload
  <2>. QED
    BY <2>1, <2>2, <2>3 DEF ReaderTyped
<1>4. UNCHANGED <<st, guiSaw>>
  BY DEF Reload
<1>. QED
  BY <1>1, <1>2, <1>3, <1>4 DEF TouchIInv, Agrees

LEMMA PollStep ==
    ASSUME TouchIInv, Poll
    PROVE  TouchIInv'
<1>1. UNCHANGED <<driver, finger, queue, plugged, changed, mixed, order, evs, st, guiSaw>>
  BY DEF Poll, hardware
<1>2. scan' \subseteq 1 .. Len(order)
  BY DEF Poll, Readable, TouchIInv, ReaderTyped
<1>. QED
  BY <1>1, <1>2 DEF TouchIInv, QueuesTyped, DevicesTyped, ReaderTyped, Agrees

LEMMA ReadFailsStep ==
    ASSUME TouchIInv, ReadFails
    PROVE  TouchIInv'
<1>1. UNCHANGED <<driver, finger, queue, plugged, changed, mixed, order, evs, st, guiSaw>>
  BY DEF ReadFails, hardware
<1>2. scan' \subseteq scan
  BY DEF ReadFails
<1>. QED
  BY <1>1, <1>2 DEF TouchIInv, QueuesTyped, DevicesTyped, ReaderTyped, Agrees

LEMMA ReadStep ==
    ASSUME TouchIInv, Read
    PROVE  TouchIInv'
<1>. DEFINE n == Turn
            h == Handled
<1>1. /\ n \in 1 .. 3 /\ n \in 1 .. Len(order) /\ order[n] \in Device /\ Event \in InputEvents
      /\ Outcome(st, h)
  BY Answer DEF Read
<1>2. /\ queue[order[n]] # <<>>
      /\ queue' = [queue EXCEPT ![order[n]] = Tail(@)]
      /\ st' = h.s
      /\ evs' = [evs EXCEPT ![n] = [ignored |-> @.ignored \/ Event.t = "RELZ", a |-> h.a]]
      /\ See(h.out)
      /\ scan' \subseteq scan
      /\ mixed' = (mixed \/ (~ evs[n].ignored /\ Cuts(order[n], Event)))
      /\ UNCHANGED <<driver, finger, plugged, changed, order>>
  BY DEF Read, hardware
<1>. HIDE DEF n, h
<1>3. QueuesTyped'
  <2>. DEFINE d == order[n]
  <2>1. queue[d] \in Seq(InputEvents) /\ queue[d] # <<>>
    BY <1>1, <1>2 DEF TouchIInv, QueuesTyped
  <2>. HIDE DEF InputEvents
  <2>2. Tail(queue[d]) \in Seq(InputEvents)
    BY <2>1
  <2>. QED
    BY <1>1, <1>2, <2>2 DEF TouchIInv, QueuesTyped
<1>4. DevicesTyped'
  BY <1>2 DEF TouchIInv, DevicesTyped
<1>5. ReaderTyped'
  <2>. DEFINE i == evs[n].ignored \/ Event.t = "RELZ"
              new == [ignored |-> i, a |-> h.a]
  <2>1. new \in Entries
    <3>1. AxesType(h.a) /\ i \in BOOLEAN
      BY <1>1 DEF Outcome
    <3>. HIDE DEF i
    <3>. QED
      BY <3>1, EntryFields
  <2>2. evs' = [evs EXCEPT ![n] = new]
    BY <1>2
  <2>. HIDE DEF new, Entries
  <2>3. evs' \in [1 .. 3 -> Entries]
    BY <2>1, <2>2 DEF TouchIInv, ReaderTyped
  <2>. QED
    BY <1>2, <2>3 DEF TouchIInv, ReaderTyped
<1>6. Agrees(st, guiSaw)'
  <2>1. Agrees(h.s, guiSaw')
    BY <1>1, <1>2, Believed DEF TouchIInv
  <2>. QED
    BY <1>2, <2>1 DEF Agrees
<1>. QED
  BY <1>3, <1>4, <1>5, <1>6 DEF TouchIInv

LEMMA TouchSteps == TouchIInv /\ [TouchNext]_TouchVars => TouchIInv'
<1>. SUFFICES ASSUME TouchIInv, [TouchNext]_TouchVars PROVE TouchIInv'
  OBVIOUS
<1>1. ASSUME NEW f \in Fingers, NEW to \in Pos \cup {Up}, MoveFinger(f, to) PROVE TouchIInv'
  BY <1>1, MoveFingerStep
<1>2. CASE PressKey \/ Measure
  BY <1>2, OtherStep
<1>3. CASE Replug
  BY <1>3, ReplugStep
<1>4. CASE Reload
  BY <1>4, ReloadStep
<1>5. CASE Poll
  BY <1>5, PollStep
<1>6. CASE Read
  BY <1>6, ReadStep
<1>7. CASE ReadFails
  BY <1>7, ReadFailsStep
<1>8. CASE UNCHANGED TouchVars
  <2>1. UNCHANGED <<driver, finger, queue, plugged, changed, mixed, order, evs, scan, st, guiSaw>>
    BY <1>8 DEF TouchVars
  <2>. QED
    BY <2>1 DEF TouchIInv, QueuesTyped, DevicesTyped, ReaderTyped, Agrees
<1>. QED
  BY <1>1, <1>2, <1>3, <1>4, <1>5, <1>6, <1>7, <1>8 DEF TouchNext

-----------------------------------------------------------------------------
(***************************************************************************)
(* The theorems                                                            *)
(***************************************************************************)
LEMMA TypesFollow == TouchIInv => TouchTypeOK
<1>. SUFFICES ASSUME TouchIInv PROVE TouchTypeOK
  OBVIOUS
<1>1. \A d \in Device : \A k \in DOMAIN queue[d] :
         queue[d][k].at \in Pos \cup {Up} /\ queue[d][k].v \in Int
  <2>. SUFFICES ASSUME NEW d \in Device, NEW k \in DOMAIN queue[d]
                PROVE  queue[d][k].at \in Pos \cup {Up} /\ queue[d][k].v \in Int
    OBVIOUS
  <2>1. queue[d][k] \in InputEvents
    <3>. HIDE DEF InputEvents
    <3>. QED
      BY DEF TouchIInv, QueuesTyped
  <2>. QED
    BY <2>1 DEF InputEvents
<1>2. Range(order) \subseteq Device /\ Len(order) \in {2, 3} /\ scan \subseteq 1 .. 3
  <2>1. order \in Seq(Device) /\ Len(order) \in {2, 3} /\ scan \subseteq 1 .. Len(order)
    BY DEF TouchIInv, ReaderTyped
  <2>2. \A n \in {2, 3} : 1 .. n \subseteq 1 .. 3
    OBVIOUS
  <2>3. scan \subseteq 1 .. 3
    BY <2>1, <2>2, Zenon
  <2>4. Range(order) \subseteq Device
    BY <2>1 DEF Range
  <2>. QED
    BY <2>1, <2>3, <2>4
<1>3. \A i \in 1 .. 3 : evs[i].ignored \in BOOLEAN
  BY EntryFields DEF TouchIInv, ReaderTyped
<1>4. \A c \in {1, 2} : st.down[c] \in {-1, 0} \cup {at[c] : at \in Pos}
  <2>1. st.down \in (Row \cup {-1}) \X (Column \cup {-1})
    BY DEF TouchIInv, Agrees, StaticsType
  <2>2. st.down[1] \in Row \cup {-1} /\ st.down[2] \in Column \cup {-1}
    BY <2>1
  <2>. QED
    BY <2>2 DEF Row, Column
<1>5. st.release \in 0 .. 2 /\ st.slot \in Fingers
  BY DEF TouchIInv, Agrees, StaticsType
<1>6. guiSaw.kind \in {"none", "touch", "keydown"}
  BY DEF TouchIInv, Agrees
<1>. QED
  BY <1>1, <1>2, <1>3, <1>4, <1>5, <1>6 DEF TouchTypeOK, TouchIInv, DevicesTyped


(* Types, gestures and the agreement of the GUI with vk_modify, inductively. *)
THEOREM TouchInvariant == TouchSpec => []TouchIInv
  BY TouchStarts, TouchSteps, PTL DEF TouchSpec

(* The GUI's idea of the touch is that of vk_modify, in every layout, for  *)
(* every driver and in every order of devices, reloads included: it holds  *)
(* a virtual key exactly when movement is discarded, and a touch where the *)
(* next release will be reported.                                          *)
THEOREM GuiAgreesAlways == TouchSpec => []GuiAgrees
<1>1. TouchIInv => GuiAgrees
  BY TypesFollow DEF TouchIInv, Agrees, GuiAgrees
<1>. QED
  BY <1>1, TouchInvariant, PTL

(* No event the GUI gets is out of order: a release comes after a touch,   *)
(* where that touch was; a virtual key comes between gestures.             *)
THEOREM Gestures == TouchSpec => GestureOrder
<1>1. ASSUME TouchIInv, [TouchNext]_TouchVars
      PROVE  [ Read => LET out == Handled.out IN
                  /\ out.kind = "touch" => guiSaw.kind # "keydown"
                  /\ out.kind = "keydown" => guiSaw.kind = "none"
                  /\ out.kind = "up" => guiSaw = [kind |-> "touch", at |-> out.at]
                  /\ out.kind = "keyup" => guiSaw.kind = "keydown" ]_TouchVars
  <2>. SUFFICES ASSUME Read
                PROVE  /\ Handled.out.kind = "touch" => guiSaw.kind # "keydown"
                       /\ Handled.out.kind = "keydown" => guiSaw.kind = "none"
                       /\ Handled.out.kind = "up" => guiSaw = [kind |-> "touch", at |-> Handled.out.at]
                       /\ Handled.out.kind = "keyup" => guiSaw.kind = "keydown"
    OBVIOUS
  <2>1. Outcome(st, Handled)
    BY <1>1, Answer DEF Read
  <2>2. /\ guiSaw \in [kind : {"none", "touch", "keydown"}, at : Place \cup {Up}]
        /\ (guiSaw.kind = "keydown") <=> st.discard
        /\ (guiSaw.kind = "none") <=> (st.down = Up /\ ~ st.discard)
        /\ guiSaw.kind = "touch" => st.down = guiSaw.at
    BY <1>1 DEF TouchIInv, Agrees
  <2>. DEFINE out == Handled.out
  <2>3. /\ out.kind = "touch" => st.discard = FALSE
        /\ out.kind = "keydown" => st.down = Up /\ st.discard = FALSE
        /\ out.kind = "up" => st.discard = FALSE /\ st.down # Up /\ out.at = st.down
        /\ out.kind = "keyup" => st.discard = TRUE
    BY <2>1 DEF Outcome
  <2>. HIDE DEF out
  <2>4. out.kind = "up" => guiSaw.kind = "touch" /\ guiSaw.at = out.at
    BY <2>2, <2>3
  <2>5. out.kind = "up" => guiSaw = [kind |-> "touch", at |-> out.at]
    BY <2>2, <2>4
  <2>6. /\ out.kind = "touch" => guiSaw.kind # "keydown"
        /\ out.kind = "keydown" => guiSaw.kind = "none"
        /\ out.kind = "keyup" => guiSaw.kind = "keydown"
    BY <2>2, <2>3
  <2>. QED
    BY <2>5, <2>6 DEF out
<1>. QED
  BY <1>1, TouchInvariant, PTL DEF TouchSpec, GestureOrder

-----------------------------------------------------------------------------
(***************************************************************************)
(* The second finger never moves the pointer.  FirstFinger's invariant:    *)
(* reading what waits of the screen, vk_modify reports no place but the    *)
(* first finger's and ends at rest.  It is stated by the states in between *)
(* (Follows), and the frame of each driver leads from rest to rest.        *)
(***************************************************************************)
\* An event never reports a place that is not the first finger's.
Honest(out, e) ==
    out.kind \in {"touch", "keydown"} => \A c \in {1, 2} : out.at[c] \in {0, e.at[c]}

\* From x, vk_modify answers e with y.
Answers(x, e, y) == y = vk_modify(x.s, x.a, e) /\ Honest(y.out, e)

\* vk_modify goes from s and a to s2 and a2 through the events of q, honestly.
Follows(q, s, a, s2, a2) ==
    /\ q \in Seq(InputEvents)
    /\ \E R :
           /\ R[0].s = s /\ R[0].a = a
           /\ R[Len(q)].s = s2 /\ R[Len(q)].a = a2
           /\ \A k \in 1 .. Len(q) : Answers(R[k - 1], q[k], R[k])

\* No event changes nothing.
LEMMA FollowsNothing ==
    ASSUME NEW s, NEW a
    PROVE  Follows(<<>>, s, a, s, a)
<1>. DEFINE R == [k \in {0} |-> [s |-> s, a |-> a]]
<1>1. R[0].s = s /\ R[0].a = a /\ Len(<<>>) = 0 /\ 1 .. 0 = {}
  OBVIOUS
<1>2. <<>> \in Seq(InputEvents)
  BY SequencesOf
<1>. QED
  BY <1>1, <1>2 DEF Follows

\* One event, answered honestly.
LEMMA FollowsOne ==
    ASSUME NEW s, NEW a, NEW e \in InputEvents, Honest(vk_modify(s, a, e).out, e)
    PROVE  Follows(<<e>>, s, a, vk_modify(s, a, e).s, vk_modify(s, a, e).a)
<1>. DEFINE r == vk_modify(s, a, e)
            R == [k \in {0, 1} |-> IF k = 0 THEN [s |-> s, a |-> a] ELSE r]
<1>1. R[0].s = s /\ R[0].a = a /\ R[1] = r
  OBVIOUS
<1>2. Len(<<e>>) = 1 /\ <<e>>[1] = e
  OBVIOUS
<1>. HIDE DEF R
<1>3. Answers(R[0], e, R[1])
  BY <1>1 DEF Answers
<1>4. ASSUME NEW k \in 1 .. Len(<<e>>) PROVE Answers(R[k - 1], <<e>>[k], R[k])
  <2>1. k = 1 /\ k - 1 = 0
    BY <1>2
  <2>. QED
    BY <1>2, <1>3, <2>1
<1>5. <<e>> \in Seq(InputEvents)
  BY SequencesOf
<1>. QED
  BY <1>1, <1>2, <1>4, <1>5 DEF Follows

\* One sequence after another.
LEMMA FollowsOn ==
    ASSUME NEW q, NEW r, NEW s, NEW a, NEW s1, NEW a1, NEW s2, NEW a2,
           Follows(q, s, a, s1, a1), Follows(r, s1, a1, s2, a2)
    PROVE  Follows(q \o r, s, a, s2, a2)
<1>. DEFINE n == Len(q)
            m == Len(r)
<1>8. q \in Seq(InputEvents) /\ r \in Seq(InputEvents)
  BY DEF Follows
<1>. HIDE DEF InputEvents
<1>0. n \in Nat /\ m \in Nat /\ q \o r \in Seq(InputEvents)
  BY <1>8
<1>1. PICK Q : /\ Q[0].s = s /\ Q[0].a = a /\ Q[n].s = s1 /\ Q[n].a = a1
               /\ \A k \in 1 .. n : Answers(Q[k - 1], q[k], Q[k])
  BY DEF Follows
<1>2. PICK R : /\ R[0].s = s1 /\ R[0].a = a1 /\ R[m].s = s2 /\ R[m].a = a2
               /\ \A k \in 1 .. m : Answers(R[k - 1], r[k], R[k])
  BY DEF Follows
<1>. DEFINE T == [k \in 0 .. n + m |-> IF k <= n THEN Q[k] ELSE R[k - n]]
<1>3. /\ Len(q \o r) = n + m
      /\ \A k \in 1 .. n : (q \o r)[k] = q[k]
      /\ \A k \in 1 .. m : (q \o r)[n + k] = r[k]
  BY <1>8
<1>4. /\ \A k \in 0 .. n : T[k] = Q[k]
      /\ \A k \in 1 .. m : T[n + k] = R[k]
      /\ T[n].s = R[0].s /\ T[n].a = R[0].a
  BY <1>0, <1>1, <1>2
<1>. HIDE DEF T, n, m
<1>5. T[0].s = s /\ T[0].a = a
  BY <1>0, <1>1, <1>4
<1>6. T[n + m].s = s2 /\ T[n + m].a = a2
  <2>1. CASE m = 0
    BY <1>0, <1>2, <1>4, <2>1
  <2>2. CASE m # 0
    BY <1>0, <1>2, <1>4, <2>2
  <2>. QED
    BY <2>1, <2>2
<1>7. ASSUME NEW k \in 1 .. n + m PROVE Answers(T[k - 1], (q \o r)[k], T[k])
  <2>1. CASE k <= n
    <3>1. k \in 1 .. n /\ k - 1 \in 0 .. n
      BY <1>0, <2>1
    <3>2. T[k] = Q[k] /\ T[k - 1] = Q[k - 1] /\ (q \o r)[k] = q[k]
      BY <1>0, <1>3, <1>4, <3>1
    <3>. QED
      BY <1>1, <3>1, <3>2
  <2>2. CASE k > n
    <3>. DEFINE j == k - n
    <3>1. j \in 1 .. m /\ k = n + j
      BY <1>0, <2>2
    <3>2. T[k] = R[j] /\ (q \o r)[k] = r[j] /\ Answers(R[j - 1], r[j], R[j])
      BY <1>2, <1>3, <1>4, <3>1
    <3>3. T[k - 1].s = R[j - 1].s /\ T[k - 1].a = R[j - 1].a
      <4>1. CASE j = 1
        <5>1. k - 1 = n /\ j - 1 = 0
          BY <1>0, <3>1, <4>1
        <5>. QED
          BY <1>4, <5>1
      <4>2. CASE j # 1
        <5>1. j - 1 \in 1 .. m /\ k - 1 = n + (j - 1)
          BY <1>0, <3>1, <4>2
        <5>. QED
          BY <1>4, <5>1
      <4>. QED
        BY <4>1, <4>2
    <3>. QED
      BY <3>2, <3>3 DEF Answers
  <2>3. k <= n \/ k > n
    BY <1>0
  <2>. QED
    BY <2>1, <2>2, <2>3, Zenon
<1>. QED
  BY <1>0, <1>3, <1>5, <1>6, <1>7 DEF Follows

\* The first event is answered honestly and the rest goes on from there.
LEMMA FollowsHead ==
    ASSUME NEW q, q # <<>>, NEW s, NEW a, NEW s2, NEW a2,
           Follows(q, s, a, s2, a2)
    PROVE  LET r == vk_modify(s, a, Head(q)) IN
           Honest(r.out, Head(q)) /\ Follows(Tail(q), r.s, r.a, s2, a2)
<1>. DEFINE r == vk_modify(s, a, Head(q))
            n == Len(q)
<1>1. PICK Q : /\ Q[0].s = s /\ Q[0].a = a /\ Q[n].s = s2 /\ Q[n].a = a2
               /\ \A k \in 1 .. n : Answers(Q[k - 1], q[k], Q[k])
  BY DEF Follows
<1>9. q \in Seq(InputEvents)
  BY DEF Follows
<1>. HIDE DEF InputEvents
<1>2. /\ n \in Nat /\ n >= 1 /\ q[1] = Head(q) /\ Len(Tail(q)) = n - 1
      /\ \A k \in 1 .. n - 1 : Tail(q)[k] = q[k + 1]
  <2>1. n \in Nat /\ n # 0
    BY <1>9
  <2>2. q[1] = Head(q) /\ Len(Tail(q)) = n - 1
    BY <1>9, <2>1
  <2>3. \A k \in 1 .. n - 1 : Tail(q)[k] = q[k + 1]
    BY <1>9, <2>1
  <2>. QED
    BY <2>1, <2>2, <2>3
<1>10. Tail(q) \in Seq(InputEvents)
  BY <1>9
<1>. HIDE DEF n
<1>3. Answers(Q[0], Head(q), Q[1])
  <2>1. 1 \in 1 .. n /\ 1 - 1 = 0
    BY <1>2
  <2>. QED
    BY <1>1, <1>2, <2>1
<1>4. Q[1] = r /\ Honest(r.out, Head(q))
  BY <1>1, <1>3 DEF Answers
<1>. DEFINE R == [k \in 0 .. n - 1 |-> Q[k + 1]]
<1>5. \A k \in 0 .. n - 1 : R[k] = Q[k + 1]
  OBVIOUS
<1>. HIDE DEF R
<1>6. R[0].s = r.s /\ R[0].a = r.a /\ R[n - 1].s = s2 /\ R[n - 1].a = a2
  <2>1. 0 \in 0 .. n - 1 /\ n - 1 \in 0 .. n - 1 /\ 0 + 1 = 1 /\ (n - 1) + 1 = n
    BY <1>2
  <2>2. R[0] = Q[1] /\ R[n - 1] = Q[n]
    BY <1>5, <2>1
  <2>. QED
    BY <1>1, <1>4, <2>2
<1>7. ASSUME NEW k \in 1 .. n - 1 PROVE Answers(R[k - 1], Tail(q)[k], R[k])
  <2>1. k \in 0 .. n - 1 /\ k - 1 \in 0 .. n - 1 /\ k + 1 \in 1 .. n /\ (k - 1) + 1 = k
        /\ (k + 1) - 1 = k
    BY <1>2
  <2>2. R[k - 1] = Q[k] /\ R[k] = Q[k + 1]
    BY <1>5, <2>1
  <2>. QED
    BY <1>1, <1>2, <2>1, <2>2
<1>8. Follows(Tail(q), r.s, r.a, s2, a2)
  <2>. HIDE DEF r
  <2>. QED
    BY <1>2, <1>6, <1>7, <1>10 DEF Follows
<1>. QED
  BY <1>4, <1>8

\* Nothing waits, nothing changes.
LEMMA FollowedNothing ==
    ASSUME NEW s, NEW a, NEW s2, NEW a2, Follows(<<>>, s, a, s2, a2)
    PROVE  s = s2 /\ a = a2
<1>1. Len(<<>>) = 0
  OBVIOUS
<1>. QED
  BY <1>1, Zenon DEF Follows

-----------------------------------------------------------------------------
(***************************************************************************)
(* What vk_modify makes of each event                                      *)
(***************************************************************************)
\* What vk_modify works on.
Conf(s, a) == StaticsType(s) /\ Gesture(s) /\ AxesType(a)

\* No lift is under way, and no frame of a touch after an empty one.
Settled(s) == s.release = 0 /\ ~ s.negative /\ (s.reported => s.finger)
Ready(s, a) == Conf(s, a) /\ Settled(s) /\ (a.pSync \/ a.mtSync => ~ s.lastSyn)

\* What r makes of s and a without reporting a touch.
Quiet(r) == r.out.kind \notin {"touch", "keydown"}

LEMMA QuietIsHonest == ASSUME NEW r, Quiet(r), NEW e PROVE Honest(r.out, e)
  BY DEF Quiet, Honest

\* Whatever the event, types and gestures are kept.
LEMMA ConfStays ==
    ASSUME NEW s, NEW a, NEW e \in InputEvents, Conf(s, a), e.t # "RELZ"
    PROVE  Conf(vk_modify(s, a, e).s, vk_modify(s, a, e).a)
<1>1. Outcome(s, vk_modify(s, a, e))
  BY VkModify DEF Conf, InputEvents
<1>. QED
  BY <1>1 DEF Outcome, Conf

\* Which fields these updates change.
Three(s, r, f, n, g) ==
    /\ StaticsType(r) /\ r.finger = f /\ r.release = n /\ r.negative = g
    /\ r.slot = s.slot /\ r.reported = s.reported /\ r.lastSyn = s.lastSyn
Rest(s, r, k, f, g) ==
    /\ StaticsType(r) /\ r.slot = k /\ r.reported = f /\ r.lastSyn = g
    /\ r.finger = s.finger /\ r.release = s.release /\ r.negative = s.negative

LEMMA ThreeFields ==
    ASSUME NEW s, StaticsType(s), NEW f \in BOOLEAN, NEW n \in 0 .. 2, NEW g \in BOOLEAN
    PROVE  Three(s, [s EXCEPT !.finger = f, !.release = n, !.negative = g], f, n, g)
<1>. DEFINE r == [s EXCEPT !.finger = f, !.release = n, !.negative = g]
<1>1. StaticsType(r)
  BY SetThree DEF Keeps
<1>2. /\ r.finger = f /\ r.release = n /\ r.negative = g
      /\ r.slot = s.slot /\ r.reported = s.reported /\ r.lastSyn = s.lastSyn
  BY DEF StaticsType
<1>. HIDE DEF r
<1>3. Three(s, r, f, n, g)
  BY <1>1, <1>2 DEF Three
<1>. QED
  BY <1>3 DEF r

LEMMA RestFields ==
    ASSUME NEW s, StaticsType(s), NEW k \in Fingers, NEW f \in BOOLEAN, NEW g \in BOOLEAN
    PROVE  Rest(s, [s EXCEPT !.slot = k, !.reported = f, !.lastSyn = g], k, f, g)
<1>. DEFINE r == [s EXCEPT !.slot = k, !.reported = f, !.lastSyn = g]
<1>1. StaticsType(r)
  BY SetRest DEF Keeps
<1>2. /\ r.slot = k /\ r.reported = f /\ r.lastSyn = g
      /\ r.finger = s.finger /\ r.release = s.release /\ r.negative = s.negative
  BY DEF StaticsType
<1>. HIDE DEF r
<1>3. Rest(s, r, k, f, g)
  BY <1>1, <1>2 DEF Rest
<1>. QED
  BY <1>3 DEF r

LEMMA AxisFields ==
    ASSUME NEW a, AxesType(a), NEW v, NEW b \in BOOLEAN
    PROVE  LET p == [a EXCEPT !.p = v, !.pSync = b]
               m == [a EXCEPT !.mt = v, !.mtSync = b]
               z == [a EXCEPT !.mt = v]
           IN  /\ p.p = v /\ p.pSync = b /\ p.mt = a.mt /\ p.mtSync = a.mtSync
               /\ m.mt = v /\ m.mtSync = b /\ m.p = a.p /\ m.pSync = a.pSync
               /\ z.mt = v /\ z.mtSync = a.mtSync /\ z.p = a.p /\ z.pSync = a.pSync
  BY DEF AxesType

\* An axis of protocol A with one finger.
TakesP(s, a, p, r) ==
    /\ Ready(r.s, r.a) /\ Quiet(r)
    /\ r.s.slot = s.slot /\ r.a.p = p /\ (r.a.mtSync <=> a.mtSync)

LEMMA AxisX ==
    ASSUME NEW s, NEW a, NEW e \in InputEvents, Ready(s, a), e.t = "X"
    PROVE  TakesP(s, a, <<e.v, a.p[2]>>, vk_modify(s, a, e))
<1>. DEFINE r == vk_modify(s, a, e)
<1>1. r = [s |-> [s EXCEPT !.lastSyn = FALSE], a |-> [a EXCEPT !.p = <<e.v, @[2]>>, !.pSync = TRUE],
           out |-> [kind |-> "none", at |-> Up]]
  BY DEF vk_modify, AbsEvent, Result, Consumed
<1>2. Conf(r.s, r.a)
  BY ConfStays DEF Ready
<1>3. Settled(r.s) /\ ~ r.s.lastSyn /\ r.s.slot = s.slot
  BY <1>1 DEF Ready, Conf, Settled, StaticsType
<1>4. r.a.p = <<e.v, a.p[2]>> /\ (r.a.mtSync <=> a.mtSync)
  <2>. DEFINE v == <<e.v, a.p[2]>>
  <2>1. r.a = [a EXCEPT !.p = v, !.pSync = TRUE]
    BY <1>1
  <2>. HIDE DEF v, r
  <2>2. r.a.p = v /\ (r.a.mtSync <=> a.mtSync)
    BY <2>1, AxisFields DEF Ready, Conf
  <2>. QED
    BY <2>2 DEF v
<1>5. Quiet(r)
  BY <1>1 DEF Quiet
<1>. HIDE DEF r
<1>. QED
  BY <1>2, <1>3, <1>4, <1>5 DEF TakesP, Ready, r

LEMMA AxisY ==
    ASSUME NEW s, NEW a, NEW e \in InputEvents, Ready(s, a), e.t = "Y"
    PROVE  TakesP(s, a, <<a.p[1], e.v>>, vk_modify(s, a, e))
<1>. DEFINE r == vk_modify(s, a, e)
<1>1. r = [s |-> [s EXCEPT !.lastSyn = FALSE], a |-> [a EXCEPT !.p = <<@[1], e.v>>, !.pSync = TRUE],
           out |-> [kind |-> "none", at |-> Up]]
  BY DEF vk_modify, AbsEvent, Result, Consumed
<1>2. Conf(r.s, r.a)
  BY ConfStays DEF Ready
<1>3. Settled(r.s) /\ ~ r.s.lastSyn /\ r.s.slot = s.slot
  BY <1>1 DEF Ready, Conf, Settled, StaticsType
<1>4. r.a.p = <<a.p[1], e.v>> /\ (r.a.mtSync <=> a.mtSync)
  <2>. DEFINE v == <<a.p[1], e.v>>
  <2>1. r.a = [a EXCEPT !.p = v, !.pSync = TRUE]
    BY <1>1
  <2>. HIDE DEF v, r
  <2>2. r.a.p = v /\ (r.a.mtSync <=> a.mtSync)
    BY <2>1, AxisFields DEF Ready, Conf
  <2>. QED
    BY <2>2 DEF v
<1>5. Quiet(r)
  BY <1>1 DEF Quiet
<1>. HIDE DEF r
<1>. QED
  BY <1>2, <1>3, <1>4, <1>5 DEF TakesP, Ready, r

\* An axis of the first finger, in protocol A or B.
TakesMt(s, a, mt, r) ==
    /\ Ready(r.s, r.a) /\ Quiet(r)
    /\ r.s.slot = s.slot /\ ~ r.s.lastSyn
    /\ r.a.mt = mt /\ r.a.p = a.p /\ (r.a.pSync <=> a.pSync)

LEMMA AxisMtx ==
    ASSUME NEW s, NEW a, NEW e \in InputEvents, Ready(s, a), e.t = "MTX", s.slot = 0
    PROVE  TakesMt(s, a, <<e.v, a.mt[2]>>, vk_modify(s, a, e))
<1>. DEFINE r == vk_modify(s, a, e)
<1>0. ~ OtherSlot(s, e.t) /\ e.t # "TRACK"
  BY DEF OtherSlot
<1>1. r = [s |-> Contact([s EXCEPT !.lastSyn = FALSE], e.t), a |-> MtAxis(a, e.t, e.v),
           out |-> [kind |-> "none", at |-> Up]]
  BY <1>0 DEF vk_modify, AbsEvent, Result, Consumed
<1>2. Conf(r.s, r.a)
  BY ConfStays DEF Ready
<1>3. Settled(r.s) /\ ~ r.s.lastSyn /\ r.s.slot = s.slot
  <2>1. r.s = [s EXCEPT !.lastSyn = FALSE, !.finger = TRUE]
    BY <1>0, <1>1 DEF Contact
  <2>. QED
    BY <2>1 DEF Ready, Conf, Settled, StaticsType
<1>4. /\ r.a.mt = <<e.v, a.mt[2]>>
      /\ r.a.p = a.p /\ (r.a.pSync <=> a.pSync)
  <2>. DEFINE v == <<e.v, a.mt[2]>>
  <2>1. r.a = [a EXCEPT !.mt = v, !.mtSync = TRUE]
    BY <1>1 DEF MtAxis
  <2>. HIDE DEF v, r
  <2>2. r.a.mt = v /\ r.a.p = a.p /\ (r.a.pSync <=> a.pSync)
    BY <2>1, AxisFields DEF Ready, Conf
  <2>. QED
    BY <2>2 DEF v
<1>5. Quiet(r)
  BY <1>1 DEF Quiet
<1>. HIDE DEF r
<1>. QED
  BY <1>2, <1>3, <1>4, <1>5 DEF TakesMt, Ready, r

LEMMA AxisMty ==
    ASSUME NEW s, NEW a, NEW e \in InputEvents, Ready(s, a), e.t = "MTY", s.slot = 0
    PROVE  TakesMt(s, a, <<a.mt[1], e.v>>, vk_modify(s, a, e))
<1>. DEFINE r == vk_modify(s, a, e)
<1>0. ~ OtherSlot(s, e.t) /\ e.t # "TRACK"
  BY DEF OtherSlot
<1>1. r = [s |-> Contact([s EXCEPT !.lastSyn = FALSE], e.t), a |-> MtAxis(a, e.t, e.v),
           out |-> [kind |-> "none", at |-> Up]]
  BY <1>0 DEF vk_modify, AbsEvent, Result, Consumed
<1>2. Conf(r.s, r.a)
  BY ConfStays DEF Ready
<1>3. Settled(r.s) /\ ~ r.s.lastSyn /\ r.s.slot = s.slot
  <2>1. r.s = [s EXCEPT !.lastSyn = FALSE, !.finger = TRUE]
    BY <1>0, <1>1 DEF Contact
  <2>. QED
    BY <2>1 DEF Ready, Conf, Settled, StaticsType
<1>4. /\ r.a.mt = <<a.mt[1], e.v>>
      /\ r.a.p = a.p /\ (r.a.pSync <=> a.pSync)
  <2>. DEFINE v == <<a.mt[1], e.v>>
  <2>1. r.a = [a EXCEPT !.mt = v, !.mtSync = TRUE]
    BY <1>1 DEF MtAxis
  <2>. HIDE DEF v, r
  <2>2. r.a.mt = v /\ r.a.p = a.p /\ (r.a.pSync <=> a.pSync)
    BY <2>1, AxisFields DEF Ready, Conf
  <2>. QED
    BY <2>2 DEF v
<1>5. Quiet(r)
  BY <1>1 DEF Quiet
<1>. HIDE DEF r
<1>. QED
  BY <1>2, <1>3, <1>4, <1>5 DEF TakesMt, Ready, r

\* An event of the second finger: nothing but its slot is kept.
LEMMA SlotEvent ==
    ASSUME NEW s, NEW a, NEW e \in InputEvents, Ready(s, a),
           e.t = "SLOT" \/ (e.t \in {"MTX", "MTY", "TRACK"} /\ s.slot > 0)
    PROVE  LET r == vk_modify(s, a, e) IN
           /\ Ready(r.s, r.a) /\ Quiet(r)
           /\ r.s.slot = (IF e.t = "SLOT" THEN e.v ELSE s.slot) /\ ~ r.s.lastSyn
           /\ r.a = a
<1>. DEFINE r == vk_modify(s, a, e)
            seen == [s EXCEPT !.lastSyn = FALSE]
<1>0. e.t # "SLOT" => OtherSlot(s, e.t)
  BY DEF OtherSlot
<1>1. r = [s |-> IF e.t = "SLOT" THEN [seen EXCEPT !.slot = e.v] ELSE seen, a |-> a,
           out |-> [kind |-> "none", at |-> Up]]
  BY <1>0 DEF vk_modify, AbsEvent, Result, Consumed
<1>2. Conf(r.s, r.a)
  BY ConfStays DEF Ready
<1>3. /\ Settled(r.s) /\ ~ r.s.lastSyn
      /\ r.s.slot = IF e.t = "SLOT" THEN e.v ELSE s.slot
  BY <1>1 DEF Ready, Conf, Settled, StaticsType
<1>4. r.a = a /\ Quiet(r)
  BY <1>1 DEF Quiet
<1>. HIDE DEF r
<1>. QED
  BY <1>2, <1>3, <1>4 DEF Ready, r

\* The first finger touches.
LEMMA ContactEvent ==
    ASSUME NEW s, NEW a, NEW e \in InputEvents, Ready(s, a), s.slot = 0,
           e.t \in {"TRACK", "PRESSURE", "MAJOR"}, e.v = 1
    PROVE  LET r == vk_modify(s, a, e) IN
           /\ Ready(r.s, r.a) /\ Quiet(r)
           /\ r.s.slot = 0 /\ ~ r.s.lastSyn
           /\ r.a = a
<1>. DEFINE r == vk_modify(s, a, e)
<1>0. ~ OtherSlot(s, e.t) /\ e.v > 0
  BY DEF OtherSlot
<1>1. r = [s |-> Contact([s EXCEPT !.lastSyn = FALSE], e.t), a |-> a,
           out |-> [kind |-> "none", at |-> Up]]
  BY <1>0 DEF vk_modify, AbsEvent, Result, Consumed
<1>2. Conf(r.s, r.a)
  BY ConfStays DEF Ready
<1>3. Settled(r.s) /\ ~ r.s.lastSyn /\ r.s.slot = s.slot
  BY <1>0, <1>1 DEF Ready, Conf, Settled, StaticsType, Contact
<1>4. r.a = a /\ Quiet(r)
  BY <1>1 DEF Quiet
<1>. HIDE DEF r
<1>. QED
  BY <1>2, <1>3, <1>4 DEF Ready, r

\* The first finger leaves: the next SYN_REPORT ends the touch, if there is one.
Lifts(a, r) ==
    /\ Conf(r.s, r.a) /\ Quiet(r)
    /\ Settled(r.s) \/ Lifted(r.s)
    /\ r.s.slot = 0
    /\ r.a.mt = <<0, 0>> /\ r.a.p = a.p
    /\ (r.a.pSync <=> a.pSync) /\ (r.a.mtSync <=> a.mtSync)

LEMMA LiftEvent ==
    ASSUME NEW s, NEW a, NEW e \in InputEvents, Conf(s, a), Settled(s), s.slot = 0,
           e.t \in {"TRACK", "PRESSURE", "MAJOR"}, e.v \in {-1, 0}
    PROVE  Lifts(a, vk_modify(s, a, e))
<1>. DEFINE r == vk_modify(s, a, e)
<1>0. ~ OtherSlot(s, e.t) /\ e.v <= 0 /\ ~ (e.v > 0)
  BY DEF OtherSlot
<1>1. r = [s |-> Lift([s EXCEPT !.lastSyn = FALSE], e.t), a |-> [a EXCEPT !.mt = <<0, 0>>],
           out |-> [kind |-> "none", at |-> Up]]
  BY <1>0 DEF vk_modify, AbsEvent, Result, Consumed
<1>2. Conf(r.s, r.a)
  BY ConfStays
<1>3. r.s.slot = 0 /\ (Settled(r.s) \/ Lifted(r.s))
  BY <1>0, <1>1 DEF Conf, Settled, StaticsType, Lift, Lifted
<1>4. /\ r.a.mt = <<0, 0>> /\ r.a.p = a.p /\ (r.a.pSync <=> a.pSync) /\ (r.a.mtSync <=> a.mtSync)
      /\ Quiet(r)
  BY <1>1 DEF Conf, AxesType, Quiet
<1>. HIDE DEF r
<1>. QED
  BY <1>2, <1>3, <1>4 DEF Lifts, r

LEMMA ReleaseFields ==
    ASSUME NEW s, NEW a, StaticsType(s)
    PROVE  LET r == ReportRelease(s, a) IN
           /\ Quiet(r) /\ r.a = a
           /\ r.s.slot = s.slot /\ r.s.release = s.release /\ r.s.negative = s.negative
           /\ r.s.finger = s.finger /\ r.s.reported = s.reported /\ (r.s.lastSyn <=> s.lastSyn)
<1>. DEFINE s2 == [s EXCEPT !.down = Up, !.discard = FALSE]
            r == ReportRelease(s, a)
<1>1. /\ s2.slot = s.slot /\ s2.release = s.release /\ s2.negative = s.negative
      /\ s2.finger = s.finger /\ s2.reported = s.reported /\ s2.lastSyn = s.lastSyn
  BY DEF StaticsType
<1>2. (r.s = s2 \/ r.s = s) /\ r.a = a /\ Quiet(r)
  BY DEF ReportRelease, Result, Out, Consumed, Quiet
<1>. HIDE DEF s2, r
<1>. QED
  BY <1>1, <1>2 DEF r

\* BTN_TOUCH.
Presses(s, a, r) ==
    /\ Ready(r.s, r.a) /\ Quiet(r)
    /\ r.s.slot = s.slot /\ r.a = a /\ (r.s.lastSyn <=> s.lastSyn)

LEMMA ButtonDown ==
    ASSUME NEW s, NEW a, NEW e \in InputEvents, Ready(s, a), e.t = "BTN", e.v = 1
    PROVE  Presses(s, a, vk_modify(s, a, e))
<1>. DEFINE r == vk_modify(s, a, e)
<1>0. (e.v # 0) = TRUE
  OBVIOUS
<1>1. r = [s |-> [s EXCEPT !.finger = TRUE, !.release = 0, !.negative = FALSE], a |-> a,
           out |-> [kind |-> "none", at |-> Up]]
  BY <1>0 DEF vk_modify, Button, Result, Consumed
<1>2. Conf(r.s, r.a)
  BY ConfStays DEF Ready
<1>3. Settled(r.s) /\ (r.s.lastSyn <=> s.lastSyn) /\ r.s.slot = s.slot
  <2>. DEFINE yes == TRUE
              no == FALSE
  <2>1. yes \in BOOLEAN /\ no \in BOOLEAN /\ 0 \in 0 .. 2
    OBVIOUS
  <2>2. r.s = [s EXCEPT !.finger = yes, !.release = 0, !.negative = no]
    BY <1>1
  <2>. HIDE DEF yes, no, r
  <2>4. Three(s, [s EXCEPT !.finger = yes, !.release = 0, !.negative = no], yes, 0, no)
    BY <2>1, ThreeFields DEF Ready, Conf
  <2>3. Three(s, r.s, yes, 0, no)
    BY <2>2, <2>4, Zenon
  <2>. QED
    BY <2>3 DEF Three, Settled, yes, no
<1>4. r.a = a /\ Quiet(r)
  BY <1>1 DEF Quiet
<1>. HIDE DEF r
<1>. QED
  BY <1>2, <1>3, <1>4 DEF Presses, Ready, r

Unpresses(a, r) == Ready(r.s, r.a) /\ Quiet(r) /\ r.s.slot = 0 /\ r.a = a

LEMMA ButtonUp ==
    ASSUME NEW s, NEW a, NEW e \in InputEvents, Conf(s, a), e.t = "BTN", e.v = 0
    PROVE  Unpresses(a, vk_modify(s, a, e))
<1>. DEFINE r == vk_modify(s, a, e)
            s2 == [s EXCEPT !.finger = FALSE, !.release = 0, !.negative = FALSE]
            s3 == [s2 EXCEPT !.slot = 0, !.reported = FALSE, !.lastSyn = FALSE]
<1>0. (e.v # 0) = FALSE
  OBVIOUS
<1>1. r = ReportRelease(s3, a)
  BY <1>0 DEF vk_modify, Button
<1>2. Conf(r.s, r.a)
  BY ConfStays
<1>3. /\ StaticsType(s3) /\ s3.slot = 0 /\ s3.release = 0 /\ s3.negative = FALSE
      /\ s3.reported = FALSE /\ ~ s3.lastSyn
  <2>. DEFINE no == FALSE
  <2>1. no \in BOOLEAN /\ 0 \in 0 .. 2 /\ 0 \in Fingers
    BY DEF Fingers
  <2>2. /\ s2 = [s EXCEPT !.finger = no, !.release = 0, !.negative = no]
        /\ s3 = [s2 EXCEPT !.slot = 0, !.reported = no, !.lastSyn = no]
    OBVIOUS
  <2>. HIDE DEF no, s2, s3
  <2>0. StaticsType(s)
    BY DEF Conf
  <2>3. Three(s, [s EXCEPT !.finger = no, !.release = 0, !.negative = no], no, 0, no)
    BY <2>0, <2>1, ThreeFields
  <2>4. Three(s, s2, no, 0, no)
    BY <2>2, <2>3, Zenon
  <2>5. Rest(s2, [s2 EXCEPT !.slot = 0, !.reported = no, !.lastSyn = no], 0, no, no)
    BY <2>1, <2>4, RestFields DEF Three
  <2>6. Rest(s2, s3, 0, no, no)
    BY <2>2, <2>5, Zenon
  <2>. QED
    BY <2>4, <2>6 DEF no, Three, Rest
<1>. HIDE DEF s3, s2
<1>4. /\ Quiet(r) /\ r.a = a /\ r.s.slot = 0 /\ Settled(r.s) /\ ~ r.s.lastSyn
  BY <1>1, <1>3, ReleaseFields DEF Settled
<1>. HIDE DEF r
<1>. QED
  BY <1>2, <1>4 DEF Unpresses, Ready, r

LEMMA PressFields ==
    ASSUME NEW s, NEW a, NEW at, StaticsType(s)
    PROVE  LET r == Press(s, a, at) IN
           /\ r.a = a /\ r.s.slot = s.slot
           /\ Settled(s) => Settled(r.s)
           /\ Quiet(r) \/ r.out.at = at
<1>. DEFINE touch == [s EXCEPT !.finger = TRUE, !.reported = TRUE]
            key == [touch EXCEPT !.discard = TRUE, !.down = <<0, @[2]>>]
            moved == [touch EXCEPT !.down = at]
            r == Press(s, a, at)
            Fine(t) == t.slot = s.slot /\ (Settled(s) => Settled(t))
<1>1. Fine(touch) /\ Fine(moved) /\ Fine(s)
  BY DEF StaticsType, Settled
<1>2. Fine(key)
  <2>. DEFINE v == <<0, touch.down[2]>>
  <2>1. key = [touch EXCEPT !.discard = TRUE, !.down = v]
    OBVIOUS
  <2>. HIDE DEF v, key
  <2>. QED
    BY <2>1 DEF StaticsType, Settled
<1>3. r = IF at = <<0, 0>> THEN [s |-> s, a |-> a, out |-> [kind |-> "none", at |-> Up]]
          ELSE IF s.down[1] = -1 /\ at \in KeyArea
          THEN [s |-> key, a |-> a, out |-> [kind |-> "keydown", at |-> at]]
          ELSE IF s.discard THEN [s |-> s, a |-> a, out |-> [kind |-> "none", at |-> Up]]
          ELSE [s |-> moved, a |-> a, out |-> [kind |-> "touch", at |-> at]]
  BY DEF Press, Result, Out, Consumed
<1>. HIDE DEF touch, key, moved, r, Fine
<1>4. r.a = a /\ (r.s = s \/ r.s = key \/ r.s = moved) /\ (Quiet(r) \/ r.out.at = at)
  BY <1>3 DEF Quiet
<1>5. Fine(r.s)
  BY <1>1, <1>2, <1>4
<1>. QED
  BY <1>4, <1>5 DEF r, Fine

\* What a SYN_REPORT does: it ends a touch, or reports one, or is remembered.
EndsTouch(s, a, r) == Lifted(s) /\ Quiet(r) /\ r.a = a /\ r.s.slot = 0 /\ Settled(r.s)
GoesOn(s, a, r) ==
    /\ ~ Lifted(s) /\ r.s.slot = s.slot /\ (Settled(s) => Settled(r.s))
    /\ (a.pSync \/ a.mtSync) =>
          ~ r.a.pSync /\ ~ r.a.mtSync /\ r.a.p = a.p /\ r.a.mt = a.mt
    /\ ~ (a.pSync \/ a.mtSync) => r.a = a
    /\ \/ Quiet(r)
       \/ a.pSync /\ r.out.at = a.p
       \/ ~ a.pSync /\ a.mtSync /\ r.out.at = a.mt

LEMMA SyncCases ==
    ASSUME NEW s, NEW a, Conf(s, a)
    PROVE  EndsTouch(s, a, Sync(s, a)) \/ GoesOn(s, a, Sync(s, a))
<1>. DEFINE s2 == [s EXCEPT !.lastSyn = TRUE]
            a2 == [a EXCEPT !.pSync = FALSE, !.mtSync = FALSE]
            s3 == [s EXCEPT !.release = 0, !.negative = FALSE, !.finger = FALSE,
                            !.reported = FALSE, !.slot = 0, !.lastSyn = FALSE]
            r == Sync(s, a)
<1>1. r = IF Lifted(s) THEN ReportRelease(s3, a)
          ELSE IF a.pSync THEN Press(s2, a2, a.p)
          ELSE IF a.mtSync THEN Press(s2, a2, a.mt)
          ELSE [s |-> s2, a |-> a, out |-> [kind |-> "none", at |-> Up]]
  BY DEF Sync, Result, Consumed
<1>2. /\ StaticsType(s2) /\ s2.slot = s.slot /\ (Settled(s) => Settled(s2))
      /\ ~ a2.pSync /\ ~ a2.mtSync /\ a2.p = a.p /\ a2.mt = a.mt
  BY DEF Conf, StaticsType, AxesType, Settled
<1>3. StaticsType(s3) /\ s3.slot = 0 /\ Settled(s3)
  <2>. DEFINE no == FALSE
              q == [s EXCEPT !.finger = no, !.release = 0, !.negative = no]
  <2>1. no \in BOOLEAN /\ 0 \in 0 .. 2 /\ 0 \in Fingers /\ StaticsType(s)
    BY DEF Fingers, Conf
  <2>2. s3 = [q EXCEPT !.slot = 0, !.reported = no, !.lastSyn = no]
    OBVIOUS
  <2>. HIDE DEF no, s3
  <2>3. Three(s, q, no, 0, no)
    BY <2>1, ThreeFields
  <2>. HIDE DEF q
  <2>4. Rest(q, [q EXCEPT !.slot = 0, !.reported = no, !.lastSyn = no], 0, no, no)
    BY <2>1, <2>3, RestFields DEF Three
  <2>5. Rest(q, s3, 0, no, no)
    BY <2>2, <2>4, Zenon
  <2>. QED
    BY <2>3, <2>5 DEF no, Three, Rest, Settled
<1>. HIDE DEF s2, a2, s3, r
<1>4. CASE Lifted(s)
  <2>1. r = ReportRelease(s3, a)
    BY <1>1, <1>4
  <2>2. Quiet(r) /\ r.a = a /\ r.s.slot = 0 /\ Settled(r.s)
    BY <1>3, <2>1, ReleaseFields DEF Settled
  <2>. QED
    BY <1>4, <2>2 DEF r, EndsTouch
<1>5. CASE ~ Lifted(s) /\ (a.pSync \/ a.mtSync)
  <2>. DEFINE at == IF a.pSync THEN a.p ELSE a.mt
  <2>1. r = Press(s2, a2, at)
    BY <1>1, <1>5
  <2>2. /\ r.a = a2 /\ r.s.slot = s.slot /\ (Settled(s) => Settled(r.s))
        /\ Quiet(r) \/ r.out.at = at
    <3>. HIDE DEF at
    <3>. QED
      BY <1>2, <2>1, PressFields
  <2>3. \/ Quiet(r)
        \/ a.pSync /\ r.out.at = a.p
        \/ ~ a.pSync /\ a.mtSync /\ r.out.at = a.mt
    BY <1>5, <2>2
  <2>. HIDE DEF at
  <2>. QED
    BY <1>2, <1>5, <2>2, <2>3 DEF r, GoesOn
<1>6. CASE ~ Lifted(s) /\ ~ (a.pSync \/ a.mtSync)
  <2>1. r.s = s2 /\ r.a = a /\ Quiet(r)
    BY <1>1, <1>6 DEF Quiet
  <2>. QED
    BY <1>2, <1>6, <2>1 DEF r, GoesOn
<1>. QED
  BY <1>4, <1>5, <1>6

\* The end of a frame: nothing waits any more, and what was reported is what
\* waited.
EndsFrame(s, a, s2, a2) ==
    /\ Conf(s2, a2) /\ Settled(s2)
    /\ ~ a2.pSync /\ ~ a2.mtSync /\ a2.p = a.p /\ a2.mt = a.mt
    /\ s2.slot \in {0, s.slot}
    /\ ~ s.lastSyn /\ Settled(s) => s2.slot = s.slot
Reports(a, out) ==
    \/ out.kind \notin {"touch", "keydown"}
    \/ a.pSync /\ out.at = a.p
    \/ ~ a.pSync /\ a.mtSync /\ out.at = a.mt

LEMMA SyncEvent ==
    ASSUME NEW s, NEW a, NEW e \in InputEvents, e.t = "SYN", Conf(s, a),
           Settled(s) \/ Lifted(s),
           a.pSync \/ a.mtSync => Settled(s) /\ ~ s.lastSyn
    PROVE  LET r == vk_modify(s, a, e) IN EndsFrame(s, a, r.s, r.a) /\ Reports(a, r.out)
<1>. DEFINE r == vk_modify(s, a, e)
<1>1. r = Sync(s, a)
  BY DEF vk_modify
<1>2. Conf(r.s, r.a)
  BY ConfStays
<1>3. Settled(s) /\ ~ s.lastSyn => ~ Lifted(s)
  BY DEF Settled, Lifted
<1>4. a.pSync \in BOOLEAN /\ a.mtSync \in BOOLEAN
  BY DEF Conf, AxesType
<1>. HIDE DEF r
<1>7. EndsTouch(s, a, r) \/ GoesOn(s, a, r)
  BY <1>1, SyncCases
<1>5. CASE EndsTouch(s, a, r)
  BY <1>2, <1>3, <1>4, <1>5 DEF EndsTouch, EndsFrame, Reports, Quiet, r
<1>6. CASE GoesOn(s, a, r)
  BY <1>2, <1>4, <1>6 DEF GoesOn, EndsFrame, Reports, Quiet, r
<1>. QED
  BY <1>5, <1>6, <1>7

\* A SYN_REPORT on a device that sends no axes.
Elsewhere(s, a, r) ==
    /\ Conf(r.s, r.a) /\ Quiet(r) /\ r.a = a
    /\ r.s.slot \in {0, s.slot}
    /\ Settled(s) => Settled(r.s)

LEMMA SyncElsewhere ==
    ASSUME NEW s, NEW a, NEW e \in InputEvents, e.t = "SYN", Conf(s, a),
           ~ a.pSync, ~ a.mtSync
    PROVE  Elsewhere(s, a, vk_modify(s, a, e))
<1>. DEFINE r == vk_modify(s, a, e)
<1>1. r = Sync(s, a)
  BY DEF vk_modify
<1>2. Conf(r.s, r.a)
  BY ConfStays
<1>. HIDE DEF r
<1>4. EndsTouch(s, a, r) \/ GoesOn(s, a, r)
  BY <1>1, SyncCases
<1>3. Quiet(r) /\ r.a = a /\ r.s.slot \in {0, s.slot} /\ (Settled(s) => Settled(r.s))
  BY <1>4 DEF EndsTouch, GoesOn
<1>. QED
  BY <1>2, <1>3 DEF Elsewhere, r

\* ABS_MT_POSITION says itself where the finger is.
Packs(s, e, r) ==
    /\ Conf(r.s, r.a) /\ ~ r.a.pSync
    /\ r.s.slot \in {0, s.slot}
    /\ Quiet(r) \/ r.out.at \in {<<0, 0>>, e.at}

LEMMA PackedEvent ==
    ASSUME NEW s, NEW a, NEW e \in InputEvents, e.t = "MTPOS", Conf(s, a), ~ a.pSync
    PROVE  Packs(s, e, vk_modify(s, a, e))
<1>. DEFINE r == vk_modify(s, a, e)
            t == [s EXCEPT !.lastSyn = (e.at = Up)]
            v == IF e.at = Up THEN <<0, 0>> ELSE e.at
            b == [a EXCEPT !.mt = v, !.mtSync = TRUE]
<1>1. r = Sync(t, b)
  <2>1. CASE e.at = Up
    <3>1. t = [s EXCEPT !.lastSyn = TRUE] /\ v = <<0, 0>>
      BY <2>1
    <3>. QED
      BY <2>1, <3>1 DEF vk_modify, Packed
  <2>2. CASE e.at # Up
    <3>1. t = [s EXCEPT !.lastSyn = FALSE] /\ v = e.at
      BY <2>2
    <3>. QED
      BY <2>2, <3>1 DEF vk_modify, Packed
  <2>. QED
    BY <2>1, <2>2
<1>2. Conf(r.s, r.a)
  BY ConfStays
<1>3. v \in Place
  BY Places DEF InputEvents, Sent
<1>4. Conf(t, b) /\ t.slot = s.slot /\ ~ b.pSync /\ b.mt = v
  <2>. DEFINE up == e.at = Up
  <2>1. up \in BOOLEAN
    OBVIOUS
  <2>. HIDE DEF up
  <2>2. LET q == [s EXCEPT !.lastSyn = up] IN
        StaticsType(q) /\ q.slot = s.slot /\ Gesture(q)
    BY <2>1 DEF Conf, StaticsType, Gesture
  <2>. HIDE DEF v
  <2>3. AxesType(b) /\ ~ b.pSync /\ b.mt = v
    BY <1>3 DEF Conf, AxesType
  <2>. QED
    BY <2>2, <2>3 DEF Conf, up
<1>. HIDE DEF r, t, b
<1>5. /\ r.s.slot \in {0, t.slot}
      /\ Quiet(r) \/ r.out.at = b.mt
      /\ ~ r.a.pSync
  <2>1. EndsTouch(t, b, r) \/ GoesOn(t, b, r)
    BY <1>1, <1>4, SyncCases
  <2>. QED
    BY <1>4, <2>1 DEF EndsTouch, GoesOn
<1>6. r.out.at = b.mt => r.out.at \in {<<0, 0>>, e.at}
  BY <1>4
<1>. QED
  BY <1>2, <1>4, <1>5, <1>6 DEF Packs, r

-----------------------------------------------------------------------------
(***************************************************************************)
(* Sequences of events within a frame                                      *)
(***************************************************************************)
\* Between two frames nothing waits for a SYN_REPORT, and what vk_modify knows
\* of the first finger is what the input core does.
AtRest(s, a, known, slot) ==
    /\ Conf(s, a)
    /\ ~ a.pSync
    /\ driver # "packed" => ~ a.mtSync /\ Settled(s)
    /\ driver = "slots" => a.mt[1] \in {0, known[1]} /\ a.mt[2] \in {0, known[2]}
    /\ driver = "single" => a.p = known
    /\ s.slot = slot

\* Within a frame of protocol A or B about finger f.
InFrame(s, a, f, x, y) ==
    /\ Ready(s, a)
    /\ ~ a.pSync /\ (f = 1 => ~ a.mtSync)
    /\ s.slot = f
    /\ a.mt[1] \in {0, x} /\ a.mt[2] \in {0, y}

\* Within a frame of ABS_X and ABS_Y.
InSingle(s, a, x, y) ==
    /\ Ready(s, a)
    /\ ~ a.mtSync
    /\ s.slot = 0
    /\ a.p = <<x, y>>

LEMMA QuietFollows ==
    ASSUME NEW s, NEW a, NEW e \in InputEvents, Quiet(vk_modify(s, a, e))
    PROVE  Follows(<<e>>, s, a, vk_modify(s, a, e).s, vk_modify(s, a, e).a)
  BY FollowsOne, QuietIsHonest

\* What a driver sends is what E says.
LEMMA EFields == \A t, v : E(t, v).t = t /\ E(t, v).v = v
  BY DEF E

LEMMA MtxFollows ==
    ASSUME NEW f \in Fingers, NEW x, NEW y, NEW v, NEW e \in InputEvents, e.t = "MTX", e.v = v,
           NEW s, NEW a, InFrame(s, a, f, x, y)
    PROVE  \E s2, a2 : /\ Follows(<<e>>, s, a, s2, a2)
                       /\ InFrame(s2, a2, f, IF f = 0 THEN v ELSE x, y)
                       /\ ~ s2.lastSyn
<1>. DEFINE r == vk_modify(s, a, e)
<1>1. InFrame(r.s, r.a, f, IF f = 0 THEN v ELSE x, y) /\ Quiet(r) /\ ~ r.s.lastSyn
  <2>1. CASE f = 0
    <3>0. Ready(s, a) /\ s.slot = 0
      BY <2>1 DEF InFrame
    <3>1. TakesMt(s, a, <<e.v, a.mt[2]>>, r)
      BY <3>0, AxisMtx
    <3>. HIDE DEF r
    <3>. QED
      BY <2>1, <3>0, <3>1 DEF InFrame, TakesMt
  <2>2. CASE f = 1
    <3>0. Ready(s, a) /\ s.slot > 0 /\ e.t \in {"MTX", "MTY", "TRACK"} /\ e.t # "SLOT"
      BY <2>2 DEF InFrame
    <3>1. /\ Ready(r.s, r.a) /\ Quiet(r)
          /\ r.s.slot = s.slot /\ ~ r.s.lastSyn
          /\ r.a = a
      BY <3>0, SlotEvent
    <3>. HIDE DEF r
    <3>. QED
      BY <2>2, <3>1 DEF InFrame
  <2>. QED
    BY <2>1, <2>2 DEF Fingers
<1>2. Follows(<<e>>, s, a, r.s, r.a)
  BY <1>1, QuietFollows
<1>. HIDE DEF r
<1>. QED
  BY <1>1, <1>2

LEMMA MtyFollows ==
    ASSUME NEW f \in Fingers, NEW x, NEW y, NEW v, NEW e \in InputEvents, e.t = "MTY", e.v = v,
           NEW s, NEW a, InFrame(s, a, f, x, y)
    PROVE  \E s2, a2 : /\ Follows(<<e>>, s, a, s2, a2)
                       /\ InFrame(s2, a2, f, x, IF f = 0 THEN v ELSE y)
                       /\ ~ s2.lastSyn
<1>. DEFINE r == vk_modify(s, a, e)
<1>1. InFrame(r.s, r.a, f, x, IF f = 0 THEN v ELSE y) /\ Quiet(r) /\ ~ r.s.lastSyn
  <2>1. CASE f = 0
    <3>0. Ready(s, a) /\ s.slot = 0
      BY <2>1 DEF InFrame
    <3>1. TakesMt(s, a, <<a.mt[1], e.v>>, r)
      BY <3>0, AxisMty
    <3>. HIDE DEF r
    <3>. QED
      BY <2>1, <3>0, <3>1 DEF InFrame, TakesMt
  <2>2. CASE f = 1
    <3>0. Ready(s, a) /\ s.slot > 0 /\ e.t \in {"MTX", "MTY", "TRACK"} /\ e.t # "SLOT"
      BY <2>2 DEF InFrame
    <3>1. /\ Ready(r.s, r.a) /\ Quiet(r)
          /\ r.s.slot = s.slot /\ ~ r.s.lastSyn
          /\ r.a = a
      BY <3>0, SlotEvent
    <3>. HIDE DEF r
    <3>. QED
      BY <2>2, <3>1 DEF InFrame
  <2>. QED
    BY <2>1, <2>2 DEF Fingers
<1>2. Follows(<<e>>, s, a, r.s, r.a)
  BY <1>1, QuietFollows
<1>. HIDE DEF r
<1>. QED
  BY <1>1, <1>2

\* The axes of a finger, of which only those that changed are sent.
LEMMA AxesFollow ==
    ASSUME NEW f \in Fingers, NEW x, NEW y, NEW v, NEW w, NEW oldV, NEW oldW,
           E("MTX", v) \in InputEvents, E("MTY", w) \in InputEvents,
           f = 0 => oldV = x /\ oldW = y,
           NEW s, NEW a, InFrame(s, a, f, x, y)
    PROVE  \E s2, a2 : /\ Follows(Changed("MTX", v, oldV) \o Changed("MTY", w, oldW), s, a, s2, a2)
                       /\ InFrame(s2, a2, f, IF f = 0 THEN v ELSE x, IF f = 0 THEN w ELSE y)
                       /\ v # oldV \/ w # oldW \/ ~ s.lastSyn => ~ s2.lastSyn
<1>. DEFINE nx == IF f = 0 THEN v ELSE x
            ny == IF f = 0 THEN w ELSE y
<1>1. \E s2, a2 : /\ Follows(Changed("MTX", v, oldV), s, a, s2, a2)
                  /\ InFrame(s2, a2, f, nx, y)
                  /\ v # oldV \/ ~ s.lastSyn => ~ s2.lastSyn
  <2>1. CASE v = oldV
    <3>1. Follows(Changed("MTX", v, oldV), s, a, s, a)
      BY <2>1, FollowsNothing DEF Changed
    <3>2. nx = x
      BY <2>1
    <3>. HIDE DEF nx
    <3>. QED
      BY <2>1, <3>1, <3>2
  <2>2. CASE v # oldV
    <3>1. Changed("MTX", v, oldV) = <<E("MTX", v)>>
      BY <2>2 DEF Changed
    <3>2. PICK s2, a2 : /\ Follows(<<E("MTX", v)>>, s, a, s2, a2)
                        /\ InFrame(s2, a2, f, nx, y)
                        /\ ~ s2.lastSyn
      BY EFields, MtxFollows
    <3>. HIDE DEF nx
    <3>. QED
      BY <3>1, <3>2
  <2>. QED
    BY <2>1, <2>2
<1>2. PICK s1, a1 : /\ Follows(Changed("MTX", v, oldV), s, a, s1, a1)
                    /\ InFrame(s1, a1, f, nx, y)
                    /\ v # oldV \/ ~ s.lastSyn => ~ s1.lastSyn
  BY <1>1
<1>3. \E s2, a2 : /\ Follows(Changed("MTY", w, oldW), s1, a1, s2, a2)
                  /\ InFrame(s2, a2, f, nx, ny)
                  /\ w # oldW \/ ~ s1.lastSyn => ~ s2.lastSyn
  <2>1. CASE w = oldW
    <3>1. Follows(Changed("MTY", w, oldW), s1, a1, s1, a1)
      BY <2>1, FollowsNothing DEF Changed
    <3>2. ny = y
      BY <2>1
    <3>. HIDE DEF nx, ny
    <3>. QED
      BY <1>2, <2>1, <3>1, <3>2
  <2>2. CASE w # oldW
    <3>1. Changed("MTY", w, oldW) = <<E("MTY", w)>>
      BY <2>2 DEF Changed
    <3>. HIDE DEF nx
    <3>2. PICK s2, a2 : /\ Follows(<<E("MTY", w)>>, s1, a1, s2, a2)
                        /\ InFrame(s2, a2, f, nx, ny)
                        /\ ~ s2.lastSyn
      BY <1>2, EFields, MtyFollows
    <3>. HIDE DEF ny
    <3>. QED
      BY <3>1, <3>2
  <2>. QED
    BY <2>1, <2>2
<1>4. PICK s2, a2 : /\ Follows(Changed("MTY", w, oldW), s1, a1, s2, a2)
                    /\ InFrame(s2, a2, f, nx, ny)
                    /\ w # oldW \/ ~ s1.lastSyn => ~ s2.lastSyn
  BY <1>3
<1>. HIDE DEF nx, ny
<1>5. Follows(Changed("MTX", v, oldV) \o Changed("MTY", w, oldW), s, a, s2, a2)
  BY <1>2, <1>4, FollowsOn
<1>6. v # oldV \/ w # oldW \/ ~ s.lastSyn => ~ s2.lastSyn
  BY <1>2, <1>4
<1>7. \E s3, a3 : /\ Follows(Changed("MTX", v, oldV) \o Changed("MTY", w, oldW), s, a, s3, a3)
                  /\ InFrame(s3, a3, f, nx, ny)
                  /\ v # oldV \/ w # oldW \/ ~ s.lastSyn => ~ s3.lastSyn
  BY <1>4, <1>5, <1>6
<1>. QED
  BY <1>7 DEF nx, ny

LEMMA EndFollows ==
    ASSUME NEW e \in InputEvents, e.t = "SYN", NEW s, NEW a, Conf(s, a),
           Settled(s) \/ Lifted(s),
           a.pSync \/ a.mtSync => Settled(s) /\ ~ s.lastSyn,
           a.pSync => \A c \in {1, 2} : a.p[c] \in {0, e.at[c]},
           a.mtSync => \A c \in {1, 2} : a.mt[c] \in {0, e.at[c]}
    PROVE  \E s2, a2 : Follows(<<e>>, s, a, s2, a2) /\ EndsFrame(s, a, s2, a2)
<1>. DEFINE r == vk_modify(s, a, e)
<1>1. EndsFrame(s, a, r.s, r.a) /\ Reports(a, r.out)
  BY SyncEvent
<1>. HIDE DEF r
<1>2. Honest(r.out, e)
  BY <1>1 DEF Reports, Honest
<1>. USE DEF r
<1>3. Follows(<<e>>, s, a, r.s, r.a)
  BY <1>2, FollowsOne
<1>. HIDE DEF r
<1>. QED
  BY <1>1, <1>3

\* The slot of a frame, sent unless the last frame was about the same finger.
LEMMA SlotFollows ==
    ASSUME driver = "slots", NEW f \in Fingers, NEW slot \in Fingers, NEW known,
           kernel.slot = slot \/ (f = 0 /\ slot = 0),
           NEW s, NEW a, AtRest(s, a, known, slot)
    PROVE  \E s2, a2 : /\ Follows(Slot(f), s, a, s2, a2)
                       /\ InFrame(s2, a2, f, known[1], known[2])
                       /\ ~ a2.mtSync
<1>0. /\ Ready(s, a) /\ ~ a.pSync /\ ~ a.mtSync /\ s.slot = slot
      /\ a.mt[1] \in {0, known[1]} /\ a.mt[2] \in {0, known[2]}
  BY DEF AtRest, Ready
<1>1. CASE f = kernel.slot
  <2>1. Follows(Slot(f), s, a, s, a)
    BY <1>1, FollowsNothing DEF Slot, Changed
  <2>2. s.slot = f
    BY <1>0, <1>1
  <2>. QED
    BY <1>0, <2>1, <2>2 DEF InFrame
<1>2. CASE f # kernel.slot
  <2>1. ASSUME NEW e \in InputEvents, e.t = "SLOT", e.v = f
        PROVE  \E s2, a2 : Follows(<<e>>, s, a, s2, a2) /\ Ready(s2, a2) /\ s2.slot = f /\ a2 = a
    <3>. DEFINE r == vk_modify(s, a, e)
    <3>1. Ready(r.s, r.a) /\ Quiet(r) /\ r.s.slot = f /\ r.a = a
      BY <1>0, <2>1, SlotEvent
    <3>2. Follows(<<e>>, s, a, r.s, r.a)
      BY <3>1, QuietFollows
    <3>. HIDE DEF r
    <3>. QED
      BY <3>1, <3>2
  <2>2. E("SLOT", f) \in InputEvents
    BY Pieces
  <2>3. Slot(f) = <<E("SLOT", f)>>
    BY <1>2 DEF Slot, Changed
  <2>4. PICK s2, a2 : /\ Follows(<<E("SLOT", f)>>, s, a, s2, a2)
                      /\ Ready(s2, a2) /\ s2.slot = f /\ a2 = a
    BY <2>1, <2>2, EFields
  <2>. QED
    BY <1>0, <2>3, <2>4 DEF InFrame
<1>. QED
  BY <1>1, <1>2

LEMMA PressFollows ==
    ASSUME NEW s, NEW a, Ready(s, a)
    PROVE  \E s2, a2 : /\ Follows(<<E("BTN", 1)>>, s, a, s2, a2)
                       /\ Ready(s2, a2) /\ s2.slot = s.slot /\ a2 = a
                       /\ (s2.lastSyn <=> s.lastSyn)
<1>1. ASSUME NEW e \in InputEvents, e.t = "BTN", e.v = 1
      PROVE  \E s2, a2 : /\ Follows(<<e>>, s, a, s2, a2)
                         /\ Ready(s2, a2) /\ s2.slot = s.slot /\ a2 = a
                         /\ (s2.lastSyn <=> s.lastSyn)
  <2>. DEFINE r == vk_modify(s, a, e)
  <2>1. Presses(s, a, r)
    BY <1>1, ButtonDown
  <2>2. Follows(<<e>>, s, a, r.s, r.a)
    BY <2>1, QuietFollows DEF Presses
  <2>. HIDE DEF r
  <2>. QED
    BY <2>1, <2>2 DEF Presses
<1>2. 0 \in Fingers /\ Up \in Pos \cup {Up}
  BY DEF Fingers
<1>3. E("BTN", 1) \in InputEvents
  BY <1>2, Pieces
<1>. QED
  BY <1>1, <1>3, EFields

LEMMA UnpressFollows ==
    ASSUME NEW s, NEW a, Conf(s, a)
    PROVE  \E s2, a2 : /\ Follows(<<E("BTN", 0)>>, s, a, s2, a2)
                       /\ Ready(s2, a2) /\ s2.slot = 0 /\ a2 = a
<1>1. ASSUME NEW e \in InputEvents, e.t = "BTN", e.v = 0
      PROVE  \E s2, a2 : /\ Follows(<<e>>, s, a, s2, a2)
                         /\ Ready(s2, a2) /\ s2.slot = 0 /\ a2 = a
  <2>. DEFINE r == vk_modify(s, a, e)
  <2>1. Unpresses(a, r)
    BY <1>1, ButtonUp
  <2>2. Follows(<<e>>, s, a, r.s, r.a)
    BY <2>1, QuietFollows DEF Unpresses
  <2>. HIDE DEF r
  <2>. QED
    BY <2>1, <2>2 DEF Unpresses
<1>2. 0 \in Fingers /\ Up \in Pos \cup {Up}
  BY DEF Fingers
<1>3. E("BTN", 0) \in InputEvents
  BY <1>2, Pieces
<1>. QED
  BY <1>1, <1>3, EFields

\* A tracking id, a pressure or a size that says a finger is there.
LEMMA ContactFollows ==
    ASSUME NEW t \in {"TRACK", "PRESSURE", "MAJOR"}, E(t, 1) \in InputEvents,
           NEW f \in Fingers, f = 0 \/ t = "TRACK", NEW x, NEW y,
           NEW s, NEW a, InFrame(s, a, f, x, y)
    PROVE  \E s2, a2 : /\ Follows(<<E(t, 1)>>, s, a, s2, a2)
                       /\ InFrame(s2, a2, f, x, y) /\ ~ s2.lastSyn /\ a2 = a
<1>1. ASSUME NEW e \in InputEvents, e.t = t, e.v = 1
      PROVE  \E s2, a2 : /\ Follows(<<e>>, s, a, s2, a2)
                         /\ InFrame(s2, a2, f, x, y) /\ ~ s2.lastSyn /\ a2 = a
  <2>. DEFINE r == vk_modify(s, a, e)
  <2>1. Ready(r.s, r.a) /\ Quiet(r) /\ r.s.slot = f /\ ~ r.s.lastSyn /\ r.a = a
    <3>0. Ready(s, a) /\ s.slot = f
      BY DEF InFrame
    <3>1. CASE f = 0
      BY <1>1, <3>0, <3>1, ContactEvent
    <3>2. CASE f = 1
      <4>1. e.t = "TRACK" /\ s.slot > 0
        BY <1>1, <3>0, <3>2
      <4>. QED
        BY <1>1, <3>0, <4>1, SlotEvent
    <3>. QED
      BY <3>1, <3>2 DEF Fingers
  <2>2. Follows(<<e>>, s, a, r.s, r.a)
    BY <2>1, QuietFollows
  <2>. HIDE DEF r
  <2>3. InFrame(r.s, r.a, f, x, y)
    BY <2>1 DEF InFrame
  <2>. QED
    BY <2>1, <2>2, <2>3
<1>. QED
  BY <1>1, EFields

LEMMA LiftFollows ==
    ASSUME NEW t \in {"TRACK", "PRESSURE", "MAJOR"}, NEW v \in {-1, 0}, E(t, v) \in InputEvents,
           NEW s, NEW a, Ready(s, a), s.slot = 0, ~ a.pSync, ~ a.mtSync
    PROVE  \E s2, a2 : /\ Follows(<<E(t, v)>>, s, a, s2, a2)
                       /\ Conf(s2, a2) /\ (Settled(s2) \/ Lifted(s2)) /\ s2.slot = 0
                       /\ a2.mt = <<0, 0>> /\ a2.p = a.p /\ ~ a2.pSync /\ ~ a2.mtSync
<1>1. ASSUME NEW e \in InputEvents, e.t = t, e.v = v
      PROVE  \E s2, a2 : /\ Follows(<<e>>, s, a, s2, a2)
                         /\ Conf(s2, a2) /\ (Settled(s2) \/ Lifted(s2)) /\ s2.slot = 0
                         /\ a2.mt = <<0, 0>> /\ a2.p = a.p /\ ~ a2.pSync /\ ~ a2.mtSync
  <2>. DEFINE r == vk_modify(s, a, e)
  <2>1. Lifts(a, r)
    BY <1>1, LiftEvent DEF Ready
  <2>2. Follows(<<e>>, s, a, r.s, r.a)
    BY <2>1, QuietFollows DEF Lifts
  <2>. HIDE DEF r
  <2>. QED
    BY <2>1, <2>2 DEF Lifts
<1>. QED
  BY <1>1, EFields

\* A lift of the second finger.
LEMMA FarLiftFollows ==
    ASSUME NEW x, NEW y, NEW s, NEW a, InFrame(s, a, 1, x, y), E("TRACK", -1) \in InputEvents
    PROVE  \E s2, a2 : /\ Follows(<<E("TRACK", -1)>>, s, a, s2, a2)
                       /\ InFrame(s2, a2, 1, x, y) /\ ~ s2.lastSyn /\ a2 = a
<1>1. ASSUME NEW e \in InputEvents, e.t = "TRACK"
      PROVE  \E s2, a2 : /\ Follows(<<e>>, s, a, s2, a2)
                         /\ InFrame(s2, a2, 1, x, y) /\ ~ s2.lastSyn /\ a2 = a
  <2>. DEFINE r == vk_modify(s, a, e)
  <2>0. Ready(s, a) /\ s.slot = 1 /\ s.slot > 0
    BY DEF InFrame
  <2>1. Ready(r.s, r.a) /\ Quiet(r) /\ r.s.slot = 1 /\ ~ r.s.lastSyn /\ r.a = a
    BY <1>1, <2>0, SlotEvent
  <2>2. Follows(<<e>>, s, a, r.s, r.a)
    BY <2>1, QuietFollows
  <2>. HIDE DEF r
  <2>3. InFrame(r.s, r.a, 1, x, y)
    BY <2>1 DEF InFrame
  <2>. QED
    BY <2>1, <2>2, <2>3
<1>. QED
  BY <1>1, EFields

LEMMA MtSynFollows ==
    ASSUME NEW s, NEW a
    PROVE  Follows(<<E("MTSYN", 0)>>, s, a, s, a)
<1>1. ASSUME NEW e \in InputEvents, e.t = "MTSYN"
      PROVE  Follows(<<e>>, s, a, s, a)
  <2>. DEFINE r == vk_modify(s, a, e)
  <2>1. r = [s |-> s, a |-> a, out |-> [kind |-> "other", at |-> Up]]
    BY <1>1 DEF vk_modify, Result, Out
  <2>2. r.s = s /\ r.a = a /\ Quiet(r)
    BY <2>1 DEF Quiet
  <2>3. Follows(<<e>>, s, a, r.s, r.a)
    BY <2>2, QuietFollows
  <2>. HIDE DEF r
  <2>. QED
    BY <2>2, <2>3
<1>2. 0 \in Fingers /\ Up \in Pos \cup {Up}
  BY DEF Fingers
<1>3. E("MTSYN", 0) \in InputEvents
  BY <1>2, Pieces
<1>. QED
  BY <1>1, <1>3, EFields

LEMMA XFollows ==
    ASSUME NEW x, NEW y, NEW v, E("X", v) \in InputEvents, NEW s, NEW a, InSingle(s, a, x, y)
    PROVE  \E s2, a2 : Follows(<<E("X", v)>>, s, a, s2, a2) /\ InSingle(s2, a2, v, y)
<1>1. ASSUME NEW e \in InputEvents, e.t = "X", e.v = v
      PROVE  \E s2, a2 : Follows(<<e>>, s, a, s2, a2) /\ InSingle(s2, a2, v, y)
  <2>. DEFINE r == vk_modify(s, a, e)
  <2>1. TakesP(s, a, <<e.v, a.p[2]>>, r)
    BY <1>1, AxisX DEF InSingle
  <2>2. Follows(<<e>>, s, a, r.s, r.a)
    BY <2>1, QuietFollows DEF TakesP
  <2>. HIDE DEF r
  <2>. QED
    BY <1>1, <2>1, <2>2 DEF TakesP, InSingle
<1>. QED
  BY <1>1, EFields

LEMMA YFollows ==
    ASSUME NEW x, NEW y, NEW v, E("Y", v) \in InputEvents, NEW s, NEW a, InSingle(s, a, x, y)
    PROVE  \E s2, a2 : Follows(<<E("Y", v)>>, s, a, s2, a2) /\ InSingle(s2, a2, x, v)
<1>1. ASSUME NEW e \in InputEvents, e.t = "Y", e.v = v
      PROVE  \E s2, a2 : Follows(<<e>>, s, a, s2, a2) /\ InSingle(s2, a2, x, v)
  <2>. DEFINE r == vk_modify(s, a, e)
  <2>1. TakesP(s, a, <<a.p[1], e.v>>, r)
    BY <1>1, AxisY DEF InSingle
  <2>2. Follows(<<e>>, s, a, r.s, r.a)
    BY <2>1, QuietFollows DEF TakesP
  <2>. HIDE DEF r
  <2>. QED
    BY <1>1, <2>1, <2>2 DEF TakesP, InSingle
<1>. QED
  BY <1>1, EFields

\* ABS_X and ABS_Y, of which only what changed is sent.
LEMMA PlaceFollows ==
    ASSUME NEW x, NEW y, NEW v, NEW w,
           E("X", v) \in InputEvents, E("Y", w) \in InputEvents,
           NEW s, NEW a, InSingle(s, a, x, y)
    PROVE  \E s2, a2 : /\ Follows(Changed("X", v, x) \o Changed("Y", w, y), s, a, s2, a2)
                       /\ InSingle(s2, a2, v, w)
<1>1. \E s1, a1 : Follows(Changed("X", v, x), s, a, s1, a1) /\ InSingle(s1, a1, v, y)
  <2>1. CASE v = x
    BY <2>1, FollowsNothing DEF Changed
  <2>2. CASE v # x
    BY <2>2, XFollows DEF Changed
  <2>. QED
    BY <2>1, <2>2
<1>2. PICK s1, a1 : Follows(Changed("X", v, x), s, a, s1, a1) /\ InSingle(s1, a1, v, y)
  BY <1>1
<1>3. \E s2, a2 : Follows(Changed("Y", w, y), s1, a1, s2, a2) /\ InSingle(s2, a2, v, w)
  <2>1. CASE w = y
    BY <1>2, <2>1, FollowsNothing DEF Changed
  <2>2. CASE w # y
    BY <1>2, <2>2, YFollows DEF Changed
  <2>. QED
    BY <2>1, <2>2
<1>4. PICK s2, a2 : Follows(Changed("Y", w, y), s1, a1, s2, a2) /\ InSingle(s2, a2, v, w)
  BY <1>3
<1>. QED
  BY <1>2, <1>4, FollowsOn

-----------------------------------------------------------------------------
(***************************************************************************)
(* A frame of each driver takes vk_modify from rest to rest                *)
(***************************************************************************)
\* What the frame of MoveFinger(f, to) starts from.
Moves(f, to) ==
    /\ driver \in Drivers /\ finger \in [Fingers -> Pos \cup {Up}]
    /\ f \in Fingers /\ to \in Pos \cup {Up}
    /\ f = 0 \/ (driver = "slots" /\ (Touching(0) \/ Touching(f)))
    /\ finger[f] # to
    /\ kernel.slot \in Fingers
    /\ \A g \in Fingers : Touching(g) => kernel.at[g] = finger[g]

\* What it ends at: the first finger's last place, and the slot.
Known(f, to) == IF f = 0 /\ to # Up THEN to ELSE kernel.at[0]
Held(f) == \E g \in Fingers \ {f} : Touching(g)

\* The frame moves vk_modify from rest to rest.
Carries(f, to, s, a, slot) ==
    \E s2, a2 : Follows(Frame(f, to), s, a, s2, a2) /\ AtRest(s2, a2, Known(f, to), slot)

LEMMA SynEvent ==
    ASSUME NEW at \in Pos \cup {Up}
    PROVE  Syn(at) \in InputEvents /\ Syn(at).t = "SYN" /\ Syn(at).at = at
  BY Ends DEF Syn

LEMMA SingleFrame ==
    ASSUME NEW f, NEW to, Moves(f, to), driver = "single",
           NEW s, NEW a, AtRest(s, a, kernel.at[0], 0)
    PROVE  Carries(f, to, s, a, 0)
<1>1. f = 0 /\ to \in Pos \cup {Up} /\ f \in Fingers
  BY DEF Moves
<1>. DEFINE end == Syn(to)
            known == kernel.at[0]
<1>2. end \in InputEvents /\ end.t = "SYN" /\ end.at = to
  BY <1>1, SynEvent
<1>3. Ready(s, a) /\ ~ a.pSync /\ ~ a.mtSync /\ a.p = known /\ s.slot = 0
  BY DEF AtRest, Ready
<1>. HIDE DEF end
<1>4. CASE to = Up
  <2>1. PICK s1, a1 : /\ Follows(<<E("BTN", 0)>>, s, a, s1, a1)
                      /\ Ready(s1, a1) /\ s1.slot = 0 /\ a1 = a
    BY <1>3, UnpressFollows DEF Ready
  <2>2. PICK s2, a2 : Follows(<<end>>, s1, a1, s2, a2) /\ EndsFrame(s1, a1, s2, a2)
    BY <1>2, <1>3, <2>1, EndFollows DEF Ready
  <2>3. Follows(<<E("BTN", 0)>> \o <<end>>, s, a, s2, a2)
    BY <2>1, <2>2, FollowsOn
  <2>4. Frame(f, to) = <<E("BTN", 0)>> \o <<end>>
    BY <1>1, <1>4 DEF Frame, end
  <2>5. AtRest(s2, a2, known, 0)
    BY <1>3, <2>1, <2>2 DEF EndsFrame, AtRest
  <2>6. Known(f, to) = known
    BY <1>4 DEF Known
  <2>. QED
    BY <2>3, <2>4, <2>5, <2>6 DEF Carries
<1>5. CASE to # Up
  <2>. DEFINE axes == Changed("X", to[1], known[1]) \o Changed("Y", to[2], known[2])
              press == IF finger[f] = Up THEN <<E("BTN", 1)>> ELSE <<>>
  <2>0. to \in Pos /\ to = <<to[1], to[2]>>
    BY <1>1, <1>5, InputAssumption
  <2>1. E("X", to[1]) \in InputEvents /\ E("Y", to[2]) \in InputEvents
    BY <1>1, <1>5, Pieces
  <2>2. InSingle(s, a, known[1], known[2])
    <3>1. a.p = <<a.p[1], a.p[2]>>
      BY <1>3 DEF Ready, Conf, AxesType, Place
    <3>. QED
      BY <1>3, <3>1 DEF InSingle
  <2>3. PICK s1, a1 : Follows(axes, s, a, s1, a1) /\ InSingle(s1, a1, to[1], to[2])
    BY <2>1, <2>2, PlaceFollows
  <2>4. \E s2, a2 : Follows(press, s1, a1, s2, a2) /\ InSingle(s2, a2, to[1], to[2])
    <3>1. CASE finger[f] = Up
      <4>1. PICK s2, a2 : /\ Follows(<<E("BTN", 1)>>, s1, a1, s2, a2)
                          /\ Ready(s2, a2) /\ s2.slot = s1.slot /\ a2 = a1
        BY <2>3, PressFollows DEF InSingle
      <4>2. InSingle(s2, a2, to[1], to[2])
        BY <2>3, <4>1 DEF InSingle
      <4>. QED
        BY <3>1, <4>1, <4>2
    <3>2. CASE finger[f] # Up
      BY <2>3, <3>2, FollowsNothing
    <3>. QED
      BY <3>1, <3>2
  <2>5. PICK s2, a2 : Follows(press, s1, a1, s2, a2) /\ InSingle(s2, a2, to[1], to[2])
    BY <2>4
  <2>6. PICK s3, a3 : Follows(<<end>>, s2, a2, s3, a3) /\ EndsFrame(s2, a2, s3, a3)
    <3>1. /\ Conf(s2, a2) /\ Settled(s2) /\ ~ a2.mtSync /\ (a2.pSync => ~ s2.lastSyn)
          /\ a2.p = to
      BY <2>0, <2>5 DEF InSingle, Ready
    <3>. QED
      BY <1>2, <3>1, EndFollows
  <2>. HIDE DEF axes, press
  <2>7. Follows((axes \o press) \o <<end>>, s, a, s3, a3)
    <3>1. Follows(axes \o press, s, a, s2, a2)
      BY <2>3, <2>5, FollowsOn
    <3>. QED
      BY <2>6, <3>1, FollowsOn
  <2>8. Frame(f, to) = axes \o press \o <<end>>
    BY <1>1, <1>5 DEF Frame, axes, press, end
  <2>9. AtRest(s3, a3, to, 0)
    <3>1. a2.p = to /\ s2.slot = 0
      BY <2>0, <2>5 DEF InSingle
    <3>. QED
      BY <2>6, <3>1 DEF EndsFrame, AtRest
  <2>10. Known(f, to) = to
    BY <1>1, <1>5 DEF Known
  <2>. QED
    BY <2>7, <2>8, <2>9, <2>10 DEF Carries
<1>. QED
  BY <1>4, <1>5

\* Both axes of protocol A.
LEMMA BothFollow ==
    ASSUME NEW to \in Pos \cup {Up}, to # Up, NEW s, NEW a, Ready(s, a), s.slot = 0, ~ a.pSync
    PROVE  \E s2, a2 : /\ Follows(<<E("MTX", to[1]), E("MTY", to[2])>>, s, a, s2, a2)
                       /\ InFrame(s2, a2, 0, to[1], to[2]) /\ ~ s2.lastSyn
<1>1. 0 \in Fingers /\ E("MTX", to[1]) \in InputEvents /\ E("MTY", to[2]) \in InputEvents
  <2>1. 0 \in Fingers
    BY DEF Fingers
  <2>. QED
    BY <2>1, Pieces
<1>2. InFrame(s, a, 0, a.mt[1], a.mt[2])
  BY DEF InFrame
<1>3. PICK s1, a1 : /\ Follows(<<E("MTX", to[1])>>, s, a, s1, a1)
                    /\ InFrame(s1, a1, 0, to[1], a.mt[2])
  BY <1>1, <1>2, EFields, MtxFollows
<1>4. PICK s2, a2 : /\ Follows(<<E("MTY", to[2])>>, s1, a1, s2, a2)
                    /\ InFrame(s2, a2, 0, to[1], to[2]) /\ ~ s2.lastSyn
  BY <1>1, <1>3, EFields, MtyFollows
<1>5. <<E("MTX", to[1]), E("MTY", to[2])>> = <<E("MTX", to[1])>> \o <<E("MTY", to[2])>>
  OBVIOUS
<1>6. Follows(<<E("MTX", to[1])>> \o <<E("MTY", to[2])>>, s, a, s2, a2)
  BY <1>3, <1>4, FollowsOn
<1>. QED
  BY <1>4, <1>5, <1>6

LEMMA FrameEnds ==
    ASSUME NEW e \in InputEvents, e.t = "SYN", NEW s, NEW a, InFrame(s, a, 0, e.at[1], e.at[2])
    PROVE  \E s2, a2 : Follows(<<e>>, s, a, s2, a2) /\ EndsFrame(s, a, s2, a2)
<1>1. /\ Conf(s, a) /\ Settled(s) /\ ~ a.pSync /\ (a.mtSync => ~ s.lastSyn)
      /\ \A c \in {1, 2} : a.mt[c] \in {0, e.at[c]}
  BY DEF InFrame, Ready
<1>. QED
  BY <1>1, EndFollows

\* Protocol A without a lift: an empty frame ends the touch.
LEMMA AnonymousFrame ==
    ASSUME NEW f, NEW to, Moves(f, to), driver = "anonymous",
           NEW s, NEW a, AtRest(s, a, kernel.at[0], 0)
    PROVE  Carries(f, to, s, a, 0)
<1>1. f = 0 /\ to \in Pos \cup {Up} /\ f \in Fingers
  BY DEF Moves
<1>. DEFINE end == Syn(to)
            syn == <<E("MTSYN", 0)>>
<1>2. end \in InputEvents /\ end.t = "SYN" /\ end.at = to
  BY <1>1, SynEvent
<1>3. Ready(s, a) /\ ~ a.pSync /\ ~ a.mtSync /\ s.slot = 0
  BY DEF AtRest, Ready
<1>. HIDE DEF end
<1>4. CASE to = Up
  <2>1. Follows(syn, s, a, s, a)
    BY MtSynFollows
  <2>2. PICK s2, a2 : Follows(<<end>>, s, a, s2, a2) /\ EndsFrame(s, a, s2, a2)
    BY <1>2, <1>3, EndFollows DEF Ready
  <2>. HIDE DEF syn
  <2>3. Follows((<<>> \o syn) \o <<end>>, s, a, s2, a2)
    BY <2>1, <2>2, FollowsNothing, FollowsOn
  <2>4. Frame(f, to) = <<>> \o syn \o <<end>>
    BY <1>1, <1>4 DEF Frame, syn, end
  <2>5. AtRest(s2, a2, Known(f, to), 0)
    BY <1>3, <2>2 DEF EndsFrame, AtRest
  <2>. QED
    BY <2>3, <2>4, <2>5 DEF Carries
<1>5. CASE to # Up
  <2>. DEFINE both == <<E("MTX", to[1]), E("MTY", to[2])>>
  <2>1. PICK s1, a1 : /\ Follows(both, s, a, s1, a1)
                      /\ InFrame(s1, a1, 0, to[1], to[2]) /\ ~ s1.lastSyn
    BY <1>1, <1>3, <1>5, BothFollow
  <2>2. Follows(syn, s1, a1, s1, a1)
    BY MtSynFollows
  <2>3. PICK s2, a2 : Follows(<<end>>, s1, a1, s2, a2) /\ EndsFrame(s1, a1, s2, a2)
    BY <1>2, <2>1, FrameEnds
  <2>. HIDE DEF both, syn
  <2>4. Follows((both \o syn) \o <<end>>, s, a, s2, a2)
    BY <2>1, <2>2, <2>3, FollowsOn
  <2>5. Frame(f, to) = both \o syn \o <<end>>
    BY <1>1, <1>5 DEF Frame, both, syn, end
  <2>6. AtRest(s2, a2, Known(f, to), 0)
    BY <2>1, <2>3 DEF EndsFrame, AtRest, InFrame
  <2>. QED
    BY <2>4, <2>5, <2>6 DEF Carries
<1>. QED
  BY <1>4, <1>5

\* Protocol A, whose lift is a zero of pressure or size.
LEMMA ZeroFrame ==
    ASSUME NEW f, NEW to, Moves(f, to), driver \in {"pressure", "major"},
           NEW s, NEW a, AtRest(s, a, kernel.at[0], 0)
    PROVE  Carries(f, to, s, a, 0)
<1>1. f = 0 /\ to \in Pos \cup {Up} /\ f \in Fingers
  BY DEF Moves
<1>. DEFINE end == Syn(to)
            syn == <<E("MTSYN", 0)>>
            t == IF driver = "pressure" THEN "PRESSURE" ELSE "MAJOR"
            zero(v) == <<E(t, v)>>
<1>2. end \in InputEvents /\ end.t = "SYN" /\ end.at = to
  BY <1>1, SynEvent
<1>3. Ready(s, a) /\ ~ a.pSync /\ ~ a.mtSync /\ s.slot = 0
  BY DEF AtRest, Ready
<1>6. /\ t \in {"TRACK", "PRESSURE", "MAJOR"}
      /\ E(t, 0) \in InputEvents /\ E(t, 1) \in InputEvents
      /\ \A v \in {0, 1} :
            zero(v) = IF driver = "pressure" THEN <<E("PRESSURE", v)>> ELSE <<E("MAJOR", v)>>
  BY <1>1, Pieces
<1>. HIDE DEF end, t
<1>4. CASE to = Up
  <2>1. PICK s1, a1 : /\ Follows(zero(0), s, a, s1, a1)
                      /\ Conf(s1, a1) /\ (Settled(s1) \/ Lifted(s1)) /\ s1.slot = 0
                      /\ ~ a1.pSync /\ ~ a1.mtSync
    BY <1>3, <1>6, LiftFollows
  <2>2. Follows(syn, s1, a1, s1, a1)
    BY MtSynFollows
  <2>3. PICK s2, a2 : Follows(<<end>>, s1, a1, s2, a2) /\ EndsFrame(s1, a1, s2, a2)
    BY <1>2, <2>1, EndFollows
  <2>5. Frame(f, to) = zero(0) \o syn \o <<end>>
    BY <1>1, <1>4, <1>6 DEF Frame, end
  <2>. HIDE DEF syn, zero
  <2>4. Follows((zero(0) \o syn) \o <<end>>, s, a, s2, a2)
    BY <2>1, <2>2, <2>3, FollowsOn
  <2>6. AtRest(s2, a2, Known(f, to), 0)
    BY <2>1, <2>3 DEF EndsFrame, AtRest
  <2>. QED
    BY <2>4, <2>5, <2>6 DEF Carries
<1>5. CASE to # Up
  <2>. DEFINE both == <<E("MTX", to[1]), E("MTY", to[2])>>
  <2>1. PICK s1, a1 : /\ Follows(both, s, a, s1, a1)
                      /\ InFrame(s1, a1, 0, to[1], to[2]) /\ ~ s1.lastSyn
    BY <1>1, <1>3, <1>5, BothFollow
  <2>2. PICK s2, a2 : /\ Follows(zero(1), s1, a1, s2, a2)
                      /\ InFrame(s2, a2, 0, to[1], to[2])
    BY <1>1, <1>6, <2>1, ContactFollows
  <2>3. Follows(syn, s2, a2, s2, a2)
    BY MtSynFollows
  <2>4. PICK s3, a3 : Follows(<<end>>, s2, a2, s3, a3) /\ EndsFrame(s2, a2, s3, a3)
    BY <1>2, <2>2, FrameEnds
  <2>5. Frame(f, to) = both \o zero(1) \o syn \o <<end>>
    BY <1>1, <1>5, <1>6 DEF Frame, end
  <2>. HIDE DEF both, syn, zero
  <2>6. Follows(((both \o zero(1)) \o syn) \o <<end>>, s, a, s3, a3)
    BY <2>1, <2>2, <2>3, <2>4, FollowsOn
  <2>7. AtRest(s3, a3, Known(f, to), 0)
    BY <2>2, <2>4 DEF EndsFrame, AtRest, InFrame
  <2>. QED
    BY <2>5, <2>6, <2>7 DEF Carries
<1>. QED
  BY <1>4, <1>5

LEMMA PackedFrame ==
    ASSUME NEW f, NEW to, Moves(f, to), driver = "packed",
           NEW s, NEW a, AtRest(s, a, kernel.at[0], 0)
    PROVE  Carries(f, to, s, a, 0)
<1>1. to \in Pos \cup {Up}
  BY DEF Moves
<1>2. ASSUME NEW e \in InputEvents, e.t = "MTPOS"
      PROVE  \E s2, a2 : Follows(<<e>>, s, a, s2, a2) /\ AtRest(s2, a2, Known(f, to), 0)
  <2>. DEFINE r == vk_modify(s, a, e)
  <2>1. Packs(s, e, r) /\ s.slot = 0
    BY <1>2, PackedEvent DEF AtRest
  <2>. HIDE DEF r
  <2>2. Honest(r.out, e)
    <3>1. \A at \in {<<0, 0>>, e.at} : \A c \in {1, 2} : at[c] \in {0, e.at[c]}
      OBVIOUS
    <3>. QED
      BY <2>1, <3>1 DEF Packs, Honest, Quiet
  <2>3. AtRest(r.s, r.a, Known(f, to), 0)
    BY <2>1 DEF Packs, AtRest
  <2>. USE DEF r
  <2>4. Follows(<<e>>, s, a, r.s, r.a)
    BY <2>2, FollowsOne
  <2>. HIDE DEF r
  <2>. QED
    BY <2>3, <2>4
<1>. DEFINE pos == [t |-> "MTPOS", v |-> 0, at |-> to]
<1>3. pos \in InputEvents /\ pos.t = "MTPOS"
  BY <1>1, Ends
<1>4. Frame(f, to) = <<pos>>
  BY DEF Frame
<1>. HIDE DEF pos
<1>. QED
  BY <1>2, <1>3, <1>4 DEF Carries

\* Protocol B: a finger comes or moves.
LEMMA CameFollows ==
    ASSUME NEW f \in Fingers, NEW x, NEW y, NEW other \in BOOLEAN,
           NEW s, NEW a, InFrame(s, a, f, x, y), ~ a.mtSync
    PROVE  \E s2, a2 : /\ Follows(<<E("TRACK", 1)>> \o (IF other THEN <<>> ELSE <<E("BTN", 1)>>),
                                  s, a, s2, a2)
                       /\ InFrame(s2, a2, f, x, y) /\ ~ s2.lastSyn
<1>1. E("TRACK", 1) \in InputEvents
  <2>1. Up \in Pos \cup {Up}
    OBVIOUS
  <2>. QED
    BY <2>1, Pieces
<1>2. PICK s1, a1 : /\ Follows(<<E("TRACK", 1)>>, s, a, s1, a1)
                    /\ InFrame(s1, a1, f, x, y) /\ ~ s1.lastSyn
  BY <1>1, ContactFollows
<1>3. CASE other
  <2>1. Follows(<<>>, s1, a1, s1, a1)
    BY FollowsNothing
  <2>2. Follows(<<E("TRACK", 1)>> \o <<>>, s, a, s1, a1)
    BY <1>2, <2>1, FollowsOn
  <2>. QED
    BY <1>2, <1>3, <2>2
<1>4. CASE ~ other
  <2>1. PICK s2, a2 : /\ Follows(<<E("BTN", 1)>>, s1, a1, s2, a2)
                      /\ Ready(s2, a2) /\ s2.slot = s1.slot /\ a2 = a1
                      /\ (s2.lastSyn <=> s1.lastSyn)
    BY <1>2, PressFollows DEF InFrame
  <2>2. Follows(<<E("TRACK", 1)>> \o <<E("BTN", 1)>>, s, a, s2, a2)
    BY <1>2, <2>1, FollowsOn
  <2>3. InFrame(s2, a2, f, x, y) /\ ~ s2.lastSyn
    BY <1>2, <2>1 DEF InFrame
  <2>. QED
    BY <1>4, <2>2, <2>3
<1>. QED
  BY <1>3, <1>4

LEMMA SlotsMove ==
    ASSUME NEW f, NEW to, Moves(f, to), driver = "slots", to # Up,
           NEW slot \in Fingers, kernel.slot = slot \/ (f = 0 /\ slot = 0),
           NEW s, NEW a, AtRest(s, a, kernel.at[0], slot)
    PROVE  Carries(f, to, s, a, f)
<1>1. to \in Pos \cup {Up} /\ f \in Fingers
  BY DEF Moves
<1>. DEFINE known == kernel.at[0]
            came == IF finger[f] = Up
                    THEN <<E("TRACK", 1)>> \o (IF Held(f) THEN <<>> ELSE <<E("BTN", 1)>>) ELSE <<>>
            axes == Changed("MTX", to[1], kernel.at[f][1]) \o Changed("MTY", to[2], kernel.at[f][2])
            end == Syn(IF f = 0 THEN to ELSE finger[0])
            x == IF f = 0 THEN to[1] ELSE known[1]
            y == IF f = 0 THEN to[2] ELSE known[2]
<1>2. end \in InputEvents /\ end.t = "SYN" /\ (f = 0 => end.at = to)
  <2>1. (IF f = 0 THEN to ELSE finger[0]) \in Pos \cup {Up}
    BY DEF Moves, Fingers
  <2>. QED
    BY <2>1, SynEvent
<1>3. E("MTX", to[1]) \in InputEvents /\ E("MTY", to[2]) \in InputEvents
  BY <1>1, Pieces
<1>4. Frame(f, to) = Slot(f) \o came \o axes \o <<end>>
  BY DEF Frame, Held
<1>5. PICK s1, a1 : /\ Follows(Slot(f), s, a, s1, a1)
                    /\ InFrame(s1, a1, f, known[1], known[2]) /\ ~ a1.mtSync
  BY <1>1, SlotFollows
<1>. HIDE DEF end
<1>6. \E s2, a2 : /\ Follows(came, s1, a1, s2, a2)
                  /\ InFrame(s2, a2, f, known[1], known[2])
                  /\ finger[f] = Up => ~ s2.lastSyn
  <2>1. CASE finger[f] = Up
    <3>. DEFINE other == Held(f)
    <3>1. other \in BOOLEAN
      BY DEF Held
    <3>2. came = <<E("TRACK", 1)>> \o (IF other THEN <<>> ELSE <<E("BTN", 1)>>)
      BY <2>1
    <3>. HIDE DEF other, came, known
    <3>3. PICK s2, a2 : /\ Follows(<<E("TRACK", 1)>> \o (IF other THEN <<>> ELSE <<E("BTN", 1)>>),
                                   s1, a1, s2, a2)
                        /\ InFrame(s2, a2, f, known[1], known[2]) /\ ~ s2.lastSyn
      BY <1>1, <1>5, <3>1, CameFollows
    <3>. QED
      BY <3>2, <3>3
  <2>2. CASE finger[f] # Up
    BY <1>5, <2>2, FollowsNothing
  <2>. QED
    BY <2>1, <2>2
<1>7. PICK s2, a2 : /\ Follows(came, s1, a1, s2, a2)
                    /\ InFrame(s2, a2, f, known[1], known[2])
                    /\ finger[f] = Up => ~ s2.lastSyn
  BY <1>6
<1>8. PICK s3, a3 : /\ Follows(axes, s2, a2, s3, a3)
                    /\ InFrame(s3, a3, f, x, y)
                    /\ (to[1] # kernel.at[f][1] \/ to[2] # kernel.at[f][2] \/ ~ s2.lastSyn)
                          => ~ s3.lastSyn
  BY <1>1, <1>3, <1>7, AxesFollow
<1>9. ~ s3.lastSyn
  <2>1. CASE finger[f] = Up
    BY <1>7, <1>8, <2>1
  <2>2. CASE finger[f] # Up
    <3>1. kernel.at[f] = finger[f] /\ finger[f] \in Pos /\ to \in Pos /\ finger[f] # to
      BY <1>1, <2>2 DEF Moves, Touching
    <3>2. finger[f] \in Nat \X Nat /\ to \in Nat \X Nat
      BY <3>1, InputAssumption
    <3>3. to[1] # kernel.at[f][1] \/ to[2] # kernel.at[f][2]
      BY <3>1, <3>2
    <3>. QED
      BY <1>8, <3>3
  <2>. QED
    BY <2>1, <2>2
<1>. HIDE DEF came, axes
<1>10. PICK s4, a4 : Follows(<<end>>, s3, a3, s4, a4) /\ EndsFrame(s3, a3, s4, a4)
  <2>1. CASE f = 0
    <3>1. InFrame(s3, a3, 0, end.at[1], end.at[2])
      BY <1>2, <1>8, <2>1
    <3>. QED
      BY <1>2, <3>1, FrameEnds
  <2>2. CASE f = 1
    <3>1. Conf(s3, a3) /\ Settled(s3) /\ ~ a3.pSync /\ ~ a3.mtSync
      BY <1>8, <2>2 DEF InFrame, Ready
    <3>. QED
      BY <1>2, <3>1, EndFollows
  <2>. QED
    BY <1>1, <2>1, <2>2 DEF Fingers
<1>11. Follows(((Slot(f) \o came) \o axes) \o <<end>>, s, a, s4, a4)
  BY <1>5, <1>7, <1>8, <1>10, FollowsOn
<1>12. AtRest(s4, a4, Known(f, to), f)
  <2>1. s3.slot = f /\ Settled(s3) /\ a3.mt[1] \in {0, x} /\ a3.mt[2] \in {0, y}
    BY <1>8 DEF InFrame, Ready
  <2>2. x = Known(f, to)[1] /\ y = Known(f, to)[2]
    BY DEF Known
  <2>. HIDE DEF x, y
  <2>. QED
    BY <1>9, <1>10, <2>1, <2>2 DEF EndsFrame, AtRest
<1>. QED
  BY <1>4, <1>11, <1>12 DEF Carries

\* Protocol B: a finger leaves.
LEMMA SlotsLift ==
    ASSUME NEW f, Moves(f, Up), driver = "slots",
           NEW slot \in Fingers, kernel.slot = slot \/ (f = 0 /\ slot = 0),
           NEW s, NEW a, AtRest(s, a, kernel.at[0], slot)
    PROVE  Carries(f, Up, s, a, IF Held(f) THEN f ELSE 0)
<1>1. f \in Fingers /\ Up \in Pos \cup {Up} /\ (IF f = 0 THEN Up ELSE finger[0]) \in Pos \cup {Up}
  BY DEF Moves, Fingers
<1>. DEFINE known == kernel.at[0]
            release == IF Held(f) THEN <<>> ELSE <<E("BTN", 0)>>
            gone == <<E("TRACK", -1)>>
            end == Syn(IF f = 0 THEN Up ELSE finger[0])
            here == IF Held(f) THEN f ELSE 0
<1>2. end \in InputEvents /\ end.t = "SYN"
  BY <1>1, SynEvent
<1>3. E("TRACK", -1) \in InputEvents
  BY <1>1, Pieces
<1>4. Frame(f, Up) = Slot(f) \o gone \o release \o <<end>>
  BY DEF Frame, Held
<1>5. PICK s1, a1 : /\ Follows(Slot(f), s, a, s1, a1)
                    /\ InFrame(s1, a1, f, known[1], known[2]) /\ ~ a1.mtSync
  BY <1>1, SlotFollows
<1>. HIDE DEF end, known
<1>6. \E s2, a2 : /\ Follows(gone, s1, a1, s2, a2)
                  /\ Conf(s2, a2) /\ s2.slot = f /\ ~ a2.pSync /\ ~ a2.mtSync
                  /\ a2.mt[1] \in {0, known[1]} /\ a2.mt[2] \in {0, known[2]}
                  /\ Settled(s2) \/ Lifted(s2)
                  /\ f = 1 => Settled(s2) /\ ~ s2.lastSyn
  <2>1. CASE f = 0
    <3>1. Ready(s1, a1) /\ s1.slot = 0 /\ ~ a1.pSync
      BY <1>5, <2>1 DEF InFrame
    <3>2. PICK s2, a2 : /\ Follows(gone, s1, a1, s2, a2)
                        /\ Conf(s2, a2) /\ (Settled(s2) \/ Lifted(s2)) /\ s2.slot = 0
                        /\ a2.mt = <<0, 0>> /\ a2.p = a1.p /\ ~ a2.pSync /\ ~ a2.mtSync
      BY <1>3, <1>5, <3>1, LiftFollows
    <3>3. a2.mt[1] = 0 /\ a2.mt[2] = 0
      BY <3>2
    <3>. HIDE DEF gone
    <3>. QED
      BY <2>1, <3>2, <3>3
  <2>2. CASE f = 1
    <3>1. PICK s2, a2 : /\ Follows(gone, s1, a1, s2, a2)
                        /\ InFrame(s2, a2, 1, known[1], known[2]) /\ ~ s2.lastSyn /\ a2 = a1
      BY <1>3, <1>5, <2>2, FarLiftFollows
    <3>. HIDE DEF gone
    <3>. QED
      BY <1>5, <2>2, <3>1 DEF InFrame, Ready
  <2>. QED
    BY <1>1, <2>1, <2>2 DEF Fingers
<1>7. PICK s2, a2 : /\ Follows(gone, s1, a1, s2, a2)
                    /\ Conf(s2, a2) /\ s2.slot = f /\ ~ a2.pSync /\ ~ a2.mtSync
                    /\ a2.mt[1] \in {0, known[1]} /\ a2.mt[2] \in {0, known[2]}
                    /\ Settled(s2) \/ Lifted(s2)
                    /\ f = 1 => Settled(s2) /\ ~ s2.lastSyn
  BY <1>6
<1>8. \E s3, a3 : /\ Follows(release, s2, a2, s3, a3) /\ a3 = a2
                  /\ Conf(s3, a3) /\ (Settled(s3) \/ Lifted(s3)) /\ s3.slot = here
                  /\ here = 1 => Settled(s3) /\ ~ s3.lastSyn
  <2>1. CASE Held(f)
    BY <1>7, <2>1, FollowsNothing
  <2>2. CASE ~ Held(f)
    <3>1. PICK s3, a3 : /\ Follows(<<E("BTN", 0)>>, s2, a2, s3, a3)
                        /\ Ready(s3, a3) /\ s3.slot = 0 /\ a3 = a2
      BY <1>7, UnpressFollows
    <3>2. here = 0 /\ release = <<E("BTN", 0)>>
      BY <2>2
    <3>. HIDE DEF here, release
    <3>. QED
      BY <3>1, <3>2 DEF Ready
  <2>. QED
    BY <2>1, <2>2
<1>9. PICK s3, a3 : /\ Follows(release, s2, a2, s3, a3) /\ a3 = a2
                    /\ Conf(s3, a3) /\ (Settled(s3) \/ Lifted(s3)) /\ s3.slot = here
                    /\ here = 1 => Settled(s3) /\ ~ s3.lastSyn
  BY <1>8
<1>10. PICK s4, a4 : Follows(<<end>>, s3, a3, s4, a4) /\ EndsFrame(s3, a3, s4, a4)
  BY <1>2, <1>7, <1>9, EndFollows
<1>13. here \in {0, 1}
  BY <1>1 DEF Fingers
<1>. HIDE DEF gone, release, here
<1>11. Follows(((Slot(f) \o gone) \o release) \o <<end>>, s, a, s4, a4)
  BY <1>5, <1>7, <1>9, <1>10, FollowsOn
<1>12. AtRest(s4, a4, Known(f, Up), here)
  <2>1. s4.slot = here
    BY <1>9, <1>10, <1>13 DEF EndsFrame
  <2>2. Known(f, Up) = known
    BY DEF Known, known
  <2>. QED
    BY <1>7, <1>9, <1>10, <2>1, <2>2 DEF EndsFrame, AtRest
<1>. QED
  BY <1>4, <1>11, <1>12 DEF Carries, here

-----------------------------------------------------------------------------
(***************************************************************************)
(* Whatever waits of the screen, vk_modify gets through it honestly        *)
(***************************************************************************)
\* The slot vk_modify is left with once it has read everything.
RestSlot == IF driver = "slots" /\ (\E f \in Fingers : Touching(f)) THEN kernel.slot ELSE 0

\* The input core remembers where a finger is that touches.
KernelAgrees ==
    /\ kernel \in [slot : Fingers, at : [Fingers -> Place]]
    /\ \A f \in Fingers : Touching(f) => kernel.at[f] = finger[f]
    /\ driver # "slots" => finger[1] = Up

\* What the other devices send.
KeypadEvents == {e \in InputEvents : e.t \in {"KEY", "SYN"}}
SensorEvents == {e \in InputEvents : e.t = "RELZ"}
OthersSend == queue[Keypad] \in Seq(KeypadEvents) /\ queue[Sensor] \in Seq(SensorEvents)

\* From s and a, what waits of the screen leads to rest.
LeadsOn(s, a) ==
    \E s2, a2 : Follows(queue[Screen], s, a, s2, a2) /\ AtRest(s2, a2, kernel.at[0], RestSlot)

\* Every device has one index, only the screen's has axes that wait.
OneIndex == \A i, j \in 1 .. Len(order) : order[i] = order[j] => i = j
NoAxesElsewhere ==
    \A i \in 1 .. Len(order) : order[i] # Screen => ~ evs[i].a.pSync /\ ~ evs[i].a.mtSync
ScreenLeads ==
    \A i \in 1 .. Len(order) : order[i] = Screen /\ ~ evs[i].ignored => LeadsOn(st, evs[i].a)

FingerIInv ==
    /\ KernelAgrees
    /\ OthersSend
    /\ ~ mixed => OneIndex /\ NoAxesElsewhere /\ ScreenLeads

\* The three devices differ.
LEMMA Differ == Screen # Keypad /\ Screen # Sensor /\ Keypad # Sensor
<1>1. Cardinality({Screen, Keypad, Sensor}) = 3
  BY InputAssumption DEF Device
<1>2. \A x : IsFiniteSet({x}) /\ Cardinality({x}) = 1
  BY FS_Singleton
<1>3. \A x, y : IsFiniteSet({x, y}) /\ Cardinality({x, y}) \in {1, 2}
  <2>. TAKE x, y
  <2>1. {x, y} = {x} \cup {y}
    OBVIOUS
  <2>2. IsFiniteSet({x}) /\ Cardinality({x}) = 1
    BY <1>2
  <2>3. IsFiniteSet({x} \cup {y})
        /\ Cardinality({x} \cup {y}) = IF y \in {x} THEN Cardinality({x}) ELSE Cardinality({x}) + 1
    BY <2>2, FS_AddElement
  <2>. QED
    BY <2>1, <2>2, <2>3
<1>4. ASSUME NEW x, NEW y, {Screen, Keypad, Sensor} = {x, y} PROVE FALSE
  <2>1. Cardinality({x, y}) \in {1, 2}
    BY <1>3
  <2>. QED
    BY <1>1, <1>4, <2>1
<1>5. CASE Screen = Keypad
  <2>1. {Screen, Keypad, Sensor} = {Screen, Sensor}
    BY <1>5
  <2>. QED
    BY <1>4, <2>1
<1>6. CASE Screen = Sensor \/ Keypad = Sensor
  <2>1. {Screen, Keypad, Sensor} = {Screen, Keypad}
    BY <1>6
  <2>. QED
    BY <1>4, <2>1
<1>. QED
  BY <1>5, <1>6

\* An order that lists every device lists each once.
LEMMA ListedOnce ==
    ASSUME NEW o \in Orders
    PROVE  o \in [1 .. 3 -> Device] /\ \A i, j \in 1 .. 3 : o[i] = o[j] => i = j
<1>1. o \in [1 .. 3 -> Device] /\ Range(o) = {Screen, Keypad, Sensor}
  BY InputAssumption DEF Device
<1>2. \A d \in {Screen, Keypad, Sensor} : \E i \in 1 .. 3 : o[i] = d
  BY <1>1 DEF Range
<1>3. PICK a \in 1 .. 3, b \in 1 .. 3, c \in 1 .. 3 : o[a] = Screen /\ o[b] = Keypad /\ o[c] = Sensor
  BY <1>2
<1>4. a # b /\ a # c /\ b # c
  BY <1>3, Differ
<1>5. \A i \in 1 .. 3 : i = a \/ i = b \/ i = c
  BY <1>4
<1>. QED
  BY <1>1, <1>3, <1>5, Differ

\* Initially nothing waits and everything is at rest.
LEMMA FingerStarts == TouchInit => FingerIInv
<1>. SUFFICES ASSUME TouchInit PROVE FingerIInv
  OBVIOUS
<1>1. KernelAgrees
  <2>1. /\ kernel = [slot |-> 0, at |-> [f \in Fingers |-> <<0, 0>>]]
        /\ finger = [f \in Fingers |-> Up] /\ 0 \in Fingers /\ 1 \in Fingers
    BY DEF TouchInit, Fingers
  <2>2. <<0, 0>> \in Place
    BY Places
  <2>3. kernel \in [slot : Fingers, at : [Fingers -> Place]]
    BY <2>1, <2>2
  <2>. QED
    BY <2>1, <2>3 DEF KernelAgrees, Touching
<1>2. OthersSend
  <2>1. queue[Keypad] = <<>> /\ queue[Sensor] = <<>>
    BY DEF TouchInit, Device
  <2>. HIDE DEF KeypadEvents, SensorEvents
  <2>. QED
    BY <2>1, SequencesOf DEF OthersSend
<1>3. order \in Orders /\ evs = ev_init(EmptyEvs, order) /\ st = Statics
  BY DEF TouchInit
<1>4. order \in [1 .. 3 -> Device] /\ Len(order) = 3 /\ OneIndex
  <2>1. order \in [1 .. 3 -> Device] /\ \A i, j \in 1 .. 3 : order[i] = order[j] => i = j
    BY <1>3, ListedOnce
  <2>2. Len(order) = 3
    BY <2>1
  <2>. QED
    BY <2>1, <2>2 DEF OneIndex
<1>. DEFINE Unread(a) == /\ AxesType(a) /\ ~ a.pSync /\ ~ a.mtSync
                        /\ a.mt = <<0, 0>> /\ a.p = <<0, 0>>
<1>5. \A i \in 1 .. 3 : Unread(evs[i].a)
  <2>. DEFINE a == [Axes EXCEPT !.pSync = FALSE, !.mtSync = FALSE]
  <2>1. Unread(a)
    BY Places DEF Axes, AxesType
  <2>2. \A i \in 1 .. 3 : EmptyEvs[i].a = Axes
    BY DEF EmptyEvs
  <2>3. \A i \in 1 .. 3 : evs[i] = vk_init(EmptyEvs[i], order[i])
    BY <1>3, <1>4 DEF ev_init
  <2>4. \A e, d : vk_init(e, d).a = [e.a EXCEPT !.pSync = FALSE, !.mtSync = FALSE]
    BY DEF vk_init
  <2>5. ASSUME NEW i \in 1 .. 3 PROVE evs[i].a = a
    <3>1. evs[i].a = [EmptyEvs[i].a EXCEPT !.pSync = FALSE, !.mtSync = FALSE]
      BY <2>3, <2>4, Zenon
    <3>. QED
      BY <2>2, <3>1, Zenon
  <2>. HIDE DEF a, Unread
  <2>. QED
    BY <2>1, <2>5
<1>6. NoAxesElsewhere
  BY <1>4, <1>5 DEF NoAxesElsewhere
<1>7. ASSUME NEW a, Unread(a) PROVE LeadsOn(Statics, a)
  <2>1. StaticsType(Statics) /\ Gesture(Statics)
    <3>1. TouchIInv
      BY TouchStarts
    <3>. QED
      BY <1>3, <3>1 DEF TouchIInv, Agrees
  <2>2. Settled(Statics) /\ Statics.slot = 0
    BY DEF Statics, Settled
  <2>3. queue[Screen] = <<>>
    BY DEF TouchInit, Device
  <2>4. kernel.at[0] = <<0, 0>> /\ RestSlot = 0
    BY DEF TouchInit, RestSlot, Fingers, Touching
  <2>5. Follows(queue[Screen], Statics, a, Statics, a)
    BY <2>3, FollowsNothing
  <2>6. AtRest(Statics, a, kernel.at[0], RestSlot)
    BY <1>7, <2>1, <2>2, <2>4 DEF AtRest, Conf
  <2>. QED
    BY <2>5, <2>6 DEF LeadsOn
<1>8. ScreenLeads
  <2>. HIDE DEF Unread
  <2>. QED
    BY <1>3, <1>4, <1>5, <1>7 DEF ScreenLeads
<1>. QED
  BY <1>1, <1>2, <1>4, <1>6, <1>8 DEF FingerIInv

\* Steps that leave the screen's part of everything alone.
LEMMA LeadingStays ==
    ASSUME UNCHANGED <<driver, finger, kernel, order, evs, st>>, queue'[Screen] = queue[Screen]
    PROVE  /\ OneIndex /\ NoAxesElsewhere /\ ScreenLeads
                => OneIndex' /\ NoAxesElsewhere' /\ ScreenLeads'
           /\ KernelAgrees => KernelAgrees'
<1>1. RestSlot' = RestSlot
  BY DEF RestSlot, Touching
<1>2. ASSUME NEW s, NEW a, LeadsOn(s, a) PROVE LeadsOn(s, a)'
  BY <1>1, <1>2 DEF LeadsOn, AtRest
<1>3. OneIndex /\ NoAxesElsewhere => OneIndex' /\ NoAxesElsewhere'
  BY DEF OneIndex, NoAxesElsewhere
<1>4. ScreenLeads => ScreenLeads'
  BY <1>2 DEF ScreenLeads
<1>5. KernelAgrees => KernelAgrees'
  BY DEF KernelAgrees, Touching
<1>. QED
  BY <1>3, <1>4, <1>5

\* Where the frame of MoveFinger(f, to) leaves the slot.
SlotAfter(f, to) == IF driver = "slots" /\ (to # Up \/ Held(f)) THEN f ELSE 0

\* Whatever the driver.
LEMMA FrameCarries ==
    ASSUME NEW f, NEW to, Moves(f, to), NEW s, NEW a, AtRest(s, a, kernel.at[0], RestSlot)
    PROVE  Carries(f, to, s, a, SlotAfter(f, to))
<1>1. driver \in {"slots", "anonymous", "pressure", "major", "single", "packed"}
  BY InputAssumption DEF Moves
<1>2. CASE driver = "slots"
  <2>1. kernel.slot = RestSlot \/ (f = 0 /\ RestSlot = 0)
    BY <1>2 DEF RestSlot, Moves, Fingers
  <2>2. RestSlot \in Fingers
    BY DEF RestSlot, Moves, Fingers
  <2>3. CASE to = Up
    <3>1. Carries(f, Up, s, a, IF Held(f) THEN f ELSE 0)
      BY <1>2, <2>1, <2>2, <2>3, SlotsLift
    <3>2. SlotAfter(f, Up) = IF Held(f) THEN f ELSE 0
      BY <1>2 DEF SlotAfter
    <3>. QED
      BY <2>3, <3>1, <3>2
  <2>4. CASE to # Up
    <3>1. Carries(f, to, s, a, f)
      BY <1>2, <2>1, <2>2, <2>4, SlotsMove
    <3>2. SlotAfter(f, to) = f
      BY <1>2, <2>4 DEF SlotAfter
    <3>. QED
      BY <3>1, <3>2
  <2>. QED
    BY <2>3, <2>4
<1>3. CASE driver # "slots"
  <2>1. RestSlot = 0 /\ SlotAfter(f, to) = 0
    BY <1>3 DEF RestSlot, SlotAfter
  <2>. QED
    BY <1>1, <1>3, <2>1, SingleFrame, AnonymousFrame, ZeroFrame, PackedFrame
<1>. QED
  BY <1>2, <1>3

\* A frame joins the queue of the screen, and leads from rest to rest.
LEMMA MoveFingerLeads ==
    ASSUME TouchIInv, FingerIInv, NEW f \in Fingers, NEW to \in Pos \cup {Up}, MoveFinger(f, to)
    PROVE  FingerIInv'
<1>1. /\ f = 0 \/ (driver = "slots" /\ (Touching(0) \/ Touching(f)))
      /\ finger[f] # to
      /\ queue' = [queue EXCEPT ![Screen] = @ \o Frame(f, to)]
      /\ finger' = [finger EXCEPT ![f] = to]
      /\ kernel' = [slot |-> IF driver = "slots" THEN f ELSE 0,
                    at |-> IF to = Up THEN kernel.at ELSE [kernel.at EXCEPT ![f] = to]]
      /\ UNCHANGED <<driver, order, evs, st, mixed>>
  BY DEF MoveFinger, Send, reader
<1>2. /\ kernel.slot \in Fingers /\ kernel.at \in [Fingers -> Place]
      /\ \A g \in Fingers : Touching(g) => kernel.at[g] = finger[g]
      /\ driver # "slots" => finger[1] = Up
  BY DEF FingerIInv, KernelAgrees
<1>3. /\ driver \in Drivers /\ finger \in [Fingers -> Pos \cup {Up}]
      /\ queue \in [Device -> Seq(InputEvents)]
  BY DEF TouchIInv, DevicesTyped, QueuesTyped
<1>4. Moves(f, to)
  BY <1>1, <1>2, <1>3 DEF Moves
<1>5. /\ kernel'.slot = IF driver = "slots" THEN f ELSE 0
      /\ kernel'.at = IF to = Up THEN kernel.at ELSE [kernel.at EXCEPT ![f] = to]
  BY <1>1
<1>6. \A g \in Fingers : finger'[g] = IF g = f THEN to ELSE finger[g]
  BY <1>1, <1>3
<1>7. KernelAgrees'
  <2>1. kernel'.slot \in Fingers /\ kernel'.at \in [Fingers -> Place]
    <3>1. to # Up => to \in Place
      BY Places
    <3>. QED
      BY <1>2, <1>5, <3>1 DEF Fingers
  <2>2. kernel' \in [slot : Fingers, at : [Fingers -> Place]]
    <3>. DEFINE k == kernel'.slot
                w == kernel'.at
    <3>1. kernel' = [slot |-> k, at |-> w]
      BY <1>1
    <3>2. k \in Fingers /\ w \in [Fingers -> Place]
      BY <2>1
    <3>. HIDE DEF k, w
    <3>. QED
      BY <3>1, <3>2
  <2>3. ASSUME NEW g \in Fingers, finger'[g] # Up PROVE kernel'.at[g] = finger'[g]
    BY <1>2, <1>5, <1>6, <2>3 DEF Touching
  <2>4. driver' # "slots" => finger'[1] = Up
    BY <1>1, <1>2, <1>6 DEF Fingers
  <2>. QED
    BY <2>2, <2>3, <2>4 DEF KernelAgrees, Touching
<1>8. OthersSend'
  <2>1. queue'[Keypad] = queue[Keypad] /\ queue'[Sensor] = queue[Sensor]
    BY <1>1, <1>3, Differ
  <2>. QED
    BY <2>1 DEF FingerIInv, OthersSend
<1>9. ASSUME NEW s, NEW a, LeadsOn(s, a) PROVE LeadsOn(s, a)'
  <2>1. PICK s1, a1 : Follows(queue[Screen], s, a, s1, a1) /\ AtRest(s1, a1, kernel.at[0], RestSlot)
    BY <1>9 DEF LeadsOn
  <2>2. PICK s2, a2 : /\ Follows(Frame(f, to), s1, a1, s2, a2)
                      /\ AtRest(s2, a2, Known(f, to), SlotAfter(f, to))
    BY <1>4, <2>1, FrameCarries DEF Carries
  <2>3. Follows(queue[Screen] \o Frame(f, to), s, a, s2, a2)
    BY <2>1, <2>2, FollowsOn
  <2>4. queue'[Screen] = queue[Screen] \o Frame(f, to)
    BY <1>1, <1>3 DEF Device
  <2>5. kernel'.at[0] = Known(f, to)
    BY <1>2, <1>5 DEF Known, Fingers
  <2>6. RestSlot' = SlotAfter(f, to)
    <3>1. (\E g \in Fingers : Touching(g)') <=> (to # Up \/ Held(f))
      BY <1>6 DEF Touching, Held
    <3>. QED
      BY <1>1, <1>5, <3>1 DEF RestSlot, SlotAfter
  <2>7. AtRest(s2, a2, Known(f, to), SlotAfter(f, to)) => AtRest(s2, a2, kernel.at[0], RestSlot)'
    BY <1>1, <2>5, <2>6 DEF AtRest
  <2>. QED
    BY <2>2, <2>3, <2>4, <2>7 DEF LeadsOn
<1>10. ~ mixed' => OneIndex' /\ NoAxesElsewhere' /\ ScreenLeads'
  BY <1>1, <1>9 DEF FingerIInv, OneIndex, NoAxesElsewhere, ScreenLeads
<1>. QED
  BY <1>7, <1>8, <1>10 DEF FingerIInv

\* The other devices only add to their own queues.
LEMMA OthersLead ==
    ASSUME TouchIInv, FingerIInv, PressKey \/ Measure \/ Replug
    PROVE  FingerIInv'
<1>1. /\ UNCHANGED <<driver, finger, kernel, order, evs, st, mixed>>
      /\ queue' = [queue EXCEPT ![Keypad] = @ \o <<E("KEY", 1), Syn(Up)>>]
         \/ queue' = [queue EXCEPT ![Sensor] = @ \o <<E("RELZ", 0)>>]
         \/ queue' = [queue EXCEPT ![Sensor] = <<>>]
  BY DEF PressKey, Measure, Replug, Send, hardware, reader
<1>2. <<E("KEY", 1), Syn(Up)>> \in Seq(KeypadEvents) /\ <<E("RELZ", 0)>> \in Seq(SensorEvents)
  <2>1. \A t \in {"KEY", "RELZ"} :
           /\ t \in Kinds /\ t # "SLOT"
           /\ t \notin {"X", "MTX"} /\ t \notin {"Y", "MTY"}
    BY DEF Kinds
  <2>2. E("KEY", 1) \in InputEvents /\ E("RELZ", 0) \in InputEvents
    BY <2>1, Sendable
  <2>3. Syn(Up) \in InputEvents /\ Syn(Up).t = "SYN"
    BY SynEvent
  <2>4. E("KEY", 1) \in KeypadEvents /\ E("RELZ", 0) \in SensorEvents /\ Syn(Up) \in KeypadEvents
    <3>. HIDE DEF InputEvents
    <3>. QED
      BY <2>2, <2>3, EFields DEF KeypadEvents, SensorEvents
  <2>. HIDE DEF KeypadEvents, SensorEvents
  <2>. QED
    BY <2>4, SequencesOf
<1>3. /\ queue \in [Device -> Seq(InputEvents)]
      /\ Screen \in Device /\ Keypad \in Device /\ Sensor \in Device
  BY DEF TouchIInv, QueuesTyped, Device
<1>4. OthersSend'
  <2>. HIDE DEF KeypadEvents, SensorEvents, InputEvents
  <2>1. queue[Keypad] \in Seq(KeypadEvents) /\ queue[Sensor] \in Seq(SensorEvents)
    BY DEF FingerIInv, OthersSend
  <2>2. /\ queue[Keypad] \o <<E("KEY", 1), Syn(Up)>> \in Seq(KeypadEvents)
        /\ queue[Sensor] \o <<E("RELZ", 0)>> \in Seq(SensorEvents)
        /\ <<>> \in Seq(SensorEvents)
    BY <1>2, <2>1, SequencesOf
  <2>3. queue'[Keypad] \in Seq(KeypadEvents) /\ queue'[Sensor] \in Seq(SensorEvents)
    BY <1>1, <1>3, <2>1, <2>2, Differ
  <2>. QED
    BY <2>3 DEF OthersSend
<1>5. queue'[Screen] = queue[Screen]
  BY <1>1, <1>3, Differ
<1>. QED
  BY <1>1, <1>4, <1>5, LeadingStays DEF FingerIInv

\* A reload cuts the touch and leaves no events.
LEMMA ReloadLeads ==
    ASSUME TouchIInv, FingerIInv, Reload
    PROVE  FingerIInv'
<1>1. UNCHANGED <<driver, finger, kernel>> /\ mixed' = TRUE /\ queue' = [d \in Device |-> <<>>]
  BY DEF Reload, hardware
<1>2. KernelAgrees'
  BY <1>1 DEF FingerIInv, KernelAgrees, Touching
<1>3. OthersSend'
  <2>1. queue'[Keypad] = <<>> /\ queue'[Sensor] = <<>>
    BY <1>1 DEF Device
  <2>. HIDE DEF KeypadEvents, SensorEvents
  <2>. QED
    BY <2>1, SequencesOf DEF OthersSend
<1>. QED
  BY <1>1, <1>2, <1>3 DEF FingerIInv

\* What an event of another device than the screen does.
Aside(h, a) ==
    /\ Quiet(h) /\ h.a = a
    /\ \/ h.s = st
       \/ ~ evs[Turn].ignored /\ Event.t = "SYN" /\ Elsewhere(st, a, h)

LEMMA ReadAside ==
    ASSUME TouchIInv, FingerIInv, ~ mixed,
           scan # {}, queue[order[Turn]] # <<>>, order[Turn] # Screen
    PROVE  Aside(Handled, evs[Turn].a)
<1>. DEFINE n == Turn
            d == order[n]
            a == evs[n].a
            e == Event
            quiet == [s |-> st, a |-> a, out |-> [kind |-> "none", at |-> Up]]
<1>1. n \in 1 .. 3 /\ n \in 1 .. Len(order) /\ d \in Device /\ e \in InputEvents
  BY Answer
<1>2. ~ a.pSync /\ ~ a.mtSync
  BY <1>1 DEF FingerIInv, NoAxesElsewhere
<1>3. Conf(st, a)
  <2>1. evs[n] \in Entries
    BY <1>1 DEF TouchIInv, ReaderTyped
  <2>2. AxesType(a)
    BY <2>1, EntryFields
  <2>. QED
    BY <2>2 DEF TouchIInv, Agrees, Conf
<1>4. e.t \in {"KEY", "SYN", "RELZ"}
  <2>1. d \in {Keypad, Sensor}
    BY <1>1 DEF Device
  <2>. DEFINE q == queue[d]
  <2>2. q \in Seq(KeypadEvents) \/ q \in Seq(SensorEvents)
    BY <2>1 DEF FingerIInv, OthersSend
  <2>3. e = Head(q) /\ q # <<>>
    BY DEF Event
  <2>. HIDE DEF q, e
  <2>4. e \in KeypadEvents \/ e \in SensorEvents
    <3>. HIDE DEF KeypadEvents, SensorEvents
    <3>. QED
      BY <2>2, <2>3
  <2>. QED
    BY <2>4 DEF KeypadEvents, SensorEvents
<1>5. Handled = IF evs[n].ignored \/ e.t = "RELZ" THEN quiet ELSE vk_modify(st, a, e)
  BY DEF Handled, Result, Consumed
<1>6. quiet.s = st /\ quiet.a = a /\ Quiet(quiet)
  BY DEF Quiet
<1>7. e.t = "KEY" => /\ vk_modify(st, a, e).s = st /\ vk_modify(st, a, e).a = a
                     /\ Quiet(vk_modify(st, a, e))
  BY DEF vk_modify, Result, Out, Quiet
<1>8. e.t = "SYN" => Elsewhere(st, a, vk_modify(st, a, e))
  BY <1>1, <1>2, <1>3, SyncElsewhere
<1>. HIDE DEF quiet, a, n, e
<1>9. CASE evs[n].ignored \/ e.t = "RELZ"
  <2>1. Handled = quiet
    BY <1>5, <1>9
  <2>. QED
    BY <1>6, <2>1 DEF Aside, a, n
<1>10. CASE ~ (evs[n].ignored \/ e.t = "RELZ")
  <2>. DEFINE h == vk_modify(st, a, e)
  <2>1. Handled = h
    BY <1>5, <1>10
  <2>2. CASE e.t = "KEY"
    <3>1. h.s = st /\ h.a = a /\ Quiet(h)
      BY <1>7, <2>2
    <3>. HIDE DEF h
    <3>. QED
      BY <2>1, <3>1 DEF Aside, a, n
  <2>3. CASE e.t = "SYN"
    <3>1. Elsewhere(st, a, h)
      BY <1>8, <2>3
    <3>. HIDE DEF h
    <3>2. Quiet(h) /\ h.a = a
      BY <3>1 DEF Elsewhere
    <3>. QED
      BY <1>10, <2>1, <2>3, <3>1, <3>2 DEF Aside, a, n, e
  <2>. QED
    BY <1>4, <1>10, <2>2, <2>3
<1>. QED
  BY <1>9, <1>10

\* An event of the screen is answered honestly, and the rest leads on.
LEMMA ReadScreen ==
    ASSUME TouchIInv, FingerIInv, ~ mixed,
           scan # {}, queue[order[Turn]] # <<>>, order[Turn] = Screen,
           ~ evs[Turn].ignored, Event.t # "RELZ"
    PROVE  /\ Honest(Handled.out, Event)
           /\ \E s2, a2 : /\ Follows(Tail(queue[Screen]), Handled.s, Handled.a, s2, a2)
                          /\ AtRest(s2, a2, kernel.at[0], RestSlot)
<1>. DEFINE a == evs[Turn].a
            q == queue[Screen]
<1>1. Turn \in 1 .. Len(order)
  BY Answer
<1>2. LeadsOn(st, a)
  BY <1>1 DEF FingerIInv, ScreenLeads
<1>3. PICK s2, a2 : Follows(q, st, a, s2, a2) /\ AtRest(s2, a2, kernel.at[0], RestSlot)
  BY <1>2 DEF LeadsOn
<1>4. Handled = vk_modify(st, a, Head(q)) /\ Event = Head(q) /\ q # <<>>
  BY DEF Handled, Event
<1>. HIDE DEF a, q
<1>5. /\ Honest(vk_modify(st, a, Head(q)).out, Head(q))
      /\ Follows(Tail(q), vk_modify(st, a, Head(q)).s, vk_modify(st, a, Head(q)).a, s2, a2)
  BY <1>3, <1>4, FollowsHead
<1>. QED
  BY <1>3, <1>4, <1>5 DEF q

\* One turn of the loop: of the screen, its queue shrinks; of another device, the
\* screen keeps what it had, or nothing waits of it.
LEMMA ReadLeads ==
    ASSUME TouchIInv, FingerIInv, Read
    PROVE  FingerIInv'
<1>. DEFINE n == Turn
            h == Handled
            d == order[n]
<1>1. /\ n \in 1 .. 3 /\ n \in 1 .. Len(order) /\ d \in Device
      /\ Outcome(st, h)
  BY Answer DEF Read
<1>2. /\ scan # {} /\ queue[d] # <<>>
      /\ queue' = [queue EXCEPT ![d] = Tail(@)]
      /\ st' = h.s
      /\ evs' = [evs EXCEPT ![n] = [ignored |-> @.ignored \/ Event.t = "RELZ", a |-> h.a]]
      /\ mixed' = (mixed \/ (~ evs[n].ignored /\ Cuts(d, Event)))
      /\ UNCHANGED <<driver, finger, kernel, order>>
  BY DEF Read, hardware
<1>3. /\ queue \in [Device -> Seq(InputEvents)] /\ evs \in [1 .. 3 -> Entries]
      /\ \A i \in 1 .. Len(order) : i \in 1 .. 3
  <2>1. Len(order) \in {2, 3}
    BY DEF TouchIInv, ReaderTyped
  <2>2. \A i \in 1 .. Len(order) : i \in 1 .. 3
    <3>1. \A l \in {2, 3} : \A i \in 1 .. l : i \in 1 .. 3
      OBVIOUS
    <3>. QED
      BY <2>1, <3>1, Zenon
  <2>. QED
    BY <2>2 DEF TouchIInv, QueuesTyped, ReaderTyped
<1>4. /\ \A i \in 1 .. 3 : i # n => evs'[i] = evs[i]
      /\ evs'[n].a = h.a
      /\ ~ evs'[n].ignored => ~ evs[n].ignored /\ Event.t # "RELZ"
  <2>. DEFINE new == [ignored |-> evs[n].ignored \/ Event.t = "RELZ", a |-> h.a]
  <2>1. evs' = [evs EXCEPT ![n] = new]
    BY <1>2
  <2>2. new.a = h.a /\ (~ new.ignored => ~ evs[n].ignored /\ Event.t # "RELZ")
    OBVIOUS
  <2>. HIDE DEF new, n, h
  <2>3. evs'[n] = new /\ \A i \in 1 .. 3 : i # n => evs'[i] = evs[i]
    BY <1>1, <1>3, <2>1
  <2>. QED
    BY <2>2, <2>3
<1>5. KernelAgrees' /\ RestSlot' = RestSlot
  BY <1>2 DEF FingerIInv, KernelAgrees, Touching, RestSlot
<1>. HIDE DEF n, h, d
<1>6. \A c \in Device : queue'[c] = IF c = d THEN Tail(queue[c]) ELSE queue[c]
  BY <1>1, <1>2, <1>3
<1>7. OthersSend'
  <2>. HIDE DEF KeypadEvents, SensorEvents, InputEvents
  <2>1. queue[Keypad] \in Seq(KeypadEvents) /\ queue[Sensor] \in Seq(SensorEvents)
    BY DEF FingerIInv, OthersSend
  <2>2. queue[Keypad] # <<>> => Tail(queue[Keypad]) \in Seq(KeypadEvents)
    BY <2>1
  <2>3. queue[Sensor] # <<>> => Tail(queue[Sensor]) \in Seq(SensorEvents)
    BY <2>1
  <2>4. Keypad \in Device /\ Sensor \in Device
    BY DEF Device
  <2>5. queue'[Keypad] \in Seq(KeypadEvents) /\ queue'[Sensor] \in Seq(SensorEvents)
    BY <1>2, <1>6, <2>1, <2>2, <2>3, <2>4
  <2>. QED
    BY <2>5 DEF OthersSend
<1>8. ASSUME ~ mixed' PROVE OneIndex' /\ NoAxesElsewhere' /\ ScreenLeads'
  <2>1. ~ mixed /\ (evs[n].ignored \/ ~ Cuts(d, Event))
    BY <1>2, <1>8
  <2>2. OneIndex /\ NoAxesElsewhere /\ ScreenLeads
    BY <2>1 DEF FingerIInv
  <2>3. OneIndex'
    BY <1>2, <2>2 DEF OneIndex
  <2>4. d # Screen => Aside(h, evs[n].a)
    BY <1>2, <2>1, ReadAside DEF n, d, h
  <2>5. NoAxesElsewhere'
    <3>1. ASSUME NEW i \in 1 .. Len(order), order[i] # Screen PROVE evs'[i].a = evs[i].a
      <4>1. CASE i = n
        BY <1>4, <2>4, <3>1, <4>1 DEF Aside, d
      <4>2. CASE i # n
        BY <1>3, <1>4, <4>2
      <4>. QED
        BY <4>1, <4>2
    <3>. QED
      BY <1>2, <2>2, <3>1 DEF NoAxesElsewhere
  <2>6. ASSUME NEW i \in 1 .. Len(order), order[i] = Screen, ~ evs'[i].ignored
        PROVE  \E s2, a2 : /\ Follows(queue'[Screen], st', evs'[i].a, s2, a2)
                           /\ AtRest(s2, a2, kernel.at[0], RestSlot)
    <3>1. CASE i = n
      <4>1. d = Screen /\ ~ evs[n].ignored /\ Event.t # "RELZ"
        BY <1>4, <2>6, <3>1 DEF d
      <4>2. \E s2, a2 : /\ Follows(Tail(queue[Screen]), h.s, h.a, s2, a2)
                        /\ AtRest(s2, a2, kernel.at[0], RestSlot)
        BY <1>2, <2>1, <4>1, ReadScreen DEF n, d, h
      <4>3. queue'[Screen] = Tail(queue[Screen]) /\ st' = h.s /\ evs'[i].a = h.a
        BY <1>1, <1>2, <1>4, <1>6, <3>1, <4>1
      <4>. QED
        BY <4>2, <4>3
    <3>2. CASE i # n
      <4>1. d # Screen
        BY <1>1, <2>2, <2>6, <3>2 DEF OneIndex, d
      <4>. DEFINE a == evs[i].a
      <4>2. evs'[i] = evs[i] /\ queue'[Screen] = queue[Screen]
        <5>1. Screen \in Device
          BY DEF Device
        <5>. QED
          BY <1>3, <1>4, <1>6, <3>2, <4>1, <5>1
      <4>3. PICK s2, a2 : /\ Follows(queue[Screen], st, a, s2, a2)
                          /\ AtRest(s2, a2, kernel.at[0], RestSlot)
        BY <2>2, <2>6, <4>2 DEF ScreenLeads, LeadsOn
      <4>4. Aside(h, evs[n].a)
        BY <2>4, <4>1
      <4>5. CASE h.s = st
        BY <1>2, <4>2, <4>3, <4>5
      <4>6. CASE h.s # st
        <5>1. ~ evs[n].ignored /\ Event.t = "SYN" /\ Elsewhere(st, evs[n].a, h)
          BY <4>4, <4>6 DEF Aside, n
        <5>2. queue[Screen] = <<>> /\ ~ (\E f \in Fingers : Touching(f))
          BY <2>1, <4>1, <5>1 DEF Cuts
        <5>3. AtRest(st, a, kernel.at[0], RestSlot) /\ RestSlot = 0
          <6>1. st = s2 /\ a = a2
            BY <4>3, <5>2, FollowedNothing
          <6>. QED
            BY <4>3, <5>2, <6>1 DEF RestSlot
        <5>4. /\ StaticsType(h.s) /\ Gesture(h.s) /\ h.s.slot = 0 /\ (Settled(st) => Settled(h.s))
          BY <5>1, <5>3 DEF Elsewhere, Conf, AtRest
        <5>. HIDE DEF a
        <5>5. AtRest(h.s, a, kernel.at[0], RestSlot)
          BY <5>3, <5>4 DEF AtRest, Conf
        <5>6. Follows(<<>>, h.s, a, h.s, a)
          BY FollowsNothing
        <5>. QED
          BY <1>2, <4>2, <5>2, <5>5, <5>6 DEF a
      <4>. QED
        BY <4>5, <4>6
    <3>. QED
      BY <3>1, <3>2
  <2>7. ScreenLeads'
    <3>1. ASSUME NEW s, NEW a, AtRest(s, a, kernel.at[0], RestSlot)
          PROVE  AtRest(s, a, kernel.at[0], RestSlot)'
      BY <1>2, <1>5, <3>1 DEF AtRest
    <3>2. ASSUME NEW i \in 1 .. Len(order), order[i] = Screen, ~ evs'[i].ignored
          PROVE  LeadsOn(st, evs[i].a)'
      BY <2>6, <3>1, <3>2 DEF LeadsOn
    <3>. QED
      BY <1>2, <3>2 DEF ScreenLeads
  <2>. QED
    BY <2>3, <2>5, <2>7
<1>. QED
  BY <1>5, <1>7, <1>8 DEF FingerIInv

\* Every step keeps the invariant.
LEMMA FingerSteps == TouchIInv /\ FingerIInv /\ [TouchNext]_TouchVars => FingerIInv'
<1>. SUFFICES ASSUME TouchIInv, FingerIInv, [TouchNext]_TouchVars PROVE FingerIInv'
  OBVIOUS
<1>1. ASSUME NEW f \in Fingers, NEW to \in Pos \cup {Up}, MoveFinger(f, to) PROVE FingerIInv'
  BY <1>1, MoveFingerLeads
<1>2. CASE PressKey \/ Measure \/ Replug
  BY <1>2, OthersLead
<1>3. CASE Reload
  BY <1>3, ReloadLeads
<1>4. CASE Read
  BY <1>4, ReadLeads
<1>5. CASE Poll \/ ReadFails \/ UNCHANGED TouchVars
  <2>1. UNCHANGED <<driver, finger, kernel, queue, order, evs, st, mixed>>
    BY <1>5 DEF Poll, ReadFails, TouchVars, hardware
  <2>2. OthersSend'
    BY <2>1 DEF FingerIInv, OthersSend
  <2>. QED
    BY <2>1, <2>2, LeadingStays DEF FingerIInv
<1>. QED
  BY <1>1, <1>2, <1>3, <1>4, <1>5 DEF TouchNext

(* The second finger never moves the pointer, with any driver and layout,  *)
(* however long the queues and however polls interleave: a coordinate the  *)
(* GUI gets is the first finger's at that SYN_REPORT, or the zero of a     *)
(* lift, until another device or a reload cuts the touch.                  *)
THEOREM FirstFingerLeads == TouchSpec => FirstFinger
<1>1. ASSUME TouchIInv, FingerIInv, [TouchNext]_TouchVars
      PROVE  [ (Read /\ ~ mixed /\ Handled.out.kind \in {"touch", "keydown"}) =>
                  \A c \in {1, 2} : Handled.out.at[c] \in {0, Event.at[c]} ]_TouchVars
  <2>. SUFFICES ASSUME Read, ~ mixed, Handled.out.kind \in {"touch", "keydown"}
                PROVE  \A c \in {1, 2} : Handled.out.at[c] \in {0, Event.at[c]}
    OBVIOUS
  <2>1. scan # {} /\ queue[order[Turn]] # <<>>
    BY DEF Read
  <2>2. ~ Quiet(Handled)
    BY DEF Quiet
  <2>3. order[Turn] = Screen
    BY <1>1, <2>1, <2>2, ReadAside DEF Aside
  <2>4. ~ evs[Turn].ignored /\ Event.t # "RELZ"
    BY <2>2 DEF Handled, Result, Consumed, Quiet
  <2>5. Honest(Handled.out, Event)
    BY <1>1, <2>1, <2>3, <2>4, ReadScreen
  <2>. QED
    BY <2>5 DEF Honest
<1>2. TouchSpec => []FingerIInv
  BY FingerStarts, FingerSteps, TouchInvariant, PTL DEF TouchSpec
<1>. QED
  BY <1>1, <1>2, TouchInvariant, PTL DEF TouchSpec, FirstFinger

=============================================================================
