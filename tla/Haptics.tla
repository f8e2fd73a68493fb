------------------------------- MODULE Haptics -------------------------------
(***************************************************************************)
(* The vibrator of SC27XX boards in minuitwrp/events.cpp.  vibrate leaves  *)
(* its timeout in sc27xx_pending_timeout_ms and signals; a detached worker *)
(* thread, created by the first call, takes it and drives the input        *)
(* device.  Both sides share one mutex, the pending timeout and the file   *)
(* descriptor; the worker sleeps through the vibration without the mutex.  *)
(***************************************************************************)
EXTENDS Integers

CONSTANTS
    Client,   \* the threads that call vibrate
    Worker,   \* sc27xx_vibrate_worker
    Free,     \* nobody holds sc27xx_vibrate_lock
    Asked,    \* the timeouts vibrate may be called with
    MaxCalls  \* bound: calls of vibrate in one behaviour

ASSUME ThreadAssumption ==
    /\ Worker \notin Client
    /\ Free \notin Client \cup {Worker}

ASSUME AskedAssumption == Asked \subseteq Int /\ MaxCalls \in Nat

\* vibrate: if (timeout_ms > 10000) timeout_ms = 1000
Clamped(t) == IF t > 10000 THEN 1000 ELSE t

\* What passes the test of sc27xx_input_vibrate.
Timeout == {Clamped(t) : t \in {u \in Asked : Clamped(u) > 0}}

VARIABLES
    lock,     \* the thread that holds sc27xx_vibrate_lock
    pending,  \* sc27xx_pending_timeout_ms
    started,  \* sc27xx_vibrate_thread_started
    fd,       \* sc27xx_vibrate_fd is open
    effects,  \* force feedback effects uploaded through fd
    motor,    \* an effect is playing
    cpc,      \* where each caller is, "idle" outside vibrate
    arg,      \* timeout_ms of sc27xx_input_vibrate
    calls,    \* calls of vibrate so far
    wpc,      \* where the worker is, "off" before it is created
    timeout   \* timeout_ms of sc27xx_play_vibrator, 0 outside of it

HapticsVars == <<lock, pending, started, fd, effects, motor, cpc, arg, calls, wpc, timeout>>
device == <<fd, effects, motor>>
callers == <<cpc, arg, calls>>

InCall == {"start", "post", "unlock"}
InPlay == {"open", "upload", "play", "stop"}

HapticsTypeOK ==
    /\ lock \in Client \cup {Worker, Free}
    /\ pending \in Timeout \cup {0}
    /\ started \in BOOLEAN
    /\ fd \in BOOLEAN
    /\ effects \in Nat
    /\ motor \in BOOLEAN
    /\ cpc \in [Client -> {"idle", "lock"} \cup InCall]
    /\ arg \in [Client -> Timeout \cup {0}]
    /\ calls \in 0..MaxCalls
    /\ wpc \in {"off", "lock", "test", "wait", "woken", "taken", "sleep", "slept"} \cup InPlay
    /\ timeout \in Timeout \cup {0}

HapticsInit ==
    /\ lock = Free
    /\ pending = 0
    /\ started = FALSE
    /\ fd = FALSE
    /\ effects = 0
    /\ motor = FALSE
    /\ cpc = [c \in Client |-> "idle"]
    /\ arg = [c \in Client |-> 0]
    /\ calls = 0
    /\ wpc = "off"
    /\ timeout = 0

-----------------------------------------------------------------------------
(* sc27xx_input_vibrate, in the caller's thread.                           *)

Go(c, label) == cpc' = [cpc EXCEPT ![c] = label]

\* A timeout that is not positive is refused before the lock.
vibrate(c) ==
    /\ cpc[c] = "idle"
    /\ calls < MaxCalls
    /\ calls' = calls + 1
    /\ \E t \in Asked :
           IF Clamped(t) > 0
           THEN arg' = [arg EXCEPT ![c] = Clamped(t)] /\ Go(c, "lock")
           ELSE UNCHANGED <<arg, cpc>>
    /\ UNCHANGED <<lock, pending, started, device, wpc, timeout>>

LockCall(c) ==
    /\ cpc[c] = "lock"
    /\ lock = Free
    /\ lock' = c
    /\ Go(c, "start")
    /\ UNCHANGED <<pending, started, device, arg, calls, wpc, timeout>>

\* sc27xx_start_vibrate_worker_locked: the worker is created once; when
\* pthread_create fails the call ends, and a later one tries again.
StartWorker(c) ==
    /\ cpc[c] = "start"
    /\ \/ /\ started
          /\ Go(c, "post")
          /\ UNCHANGED <<lock, started, wpc>>
       \/ /\ ~ started
          /\ started' = TRUE
          /\ wpc' = "lock"
          /\ Go(c, "post")
          /\ UNCHANGED lock
       \/ /\ ~ started
          /\ lock' = Free
          /\ Go(c, "idle")
          /\ UNCHANGED <<started, wpc>>
    /\ UNCHANGED <<pending, device, arg, calls, timeout>>

\* pthread_cond_signal wakes a waiting worker, and is lost without one.
Post(c) ==
    /\ cpc[c] = "post"
    /\ pending' = arg[c]
    /\ wpc' = IF wpc = "wait" THEN "woken" ELSE wpc
    /\ Go(c, "unlock")
    /\ UNCHANGED <<lock, started, device, arg, calls, timeout>>

UnlockCall(c) ==
    /\ cpc[c] = "unlock"
    /\ lock' = Free
    /\ Go(c, "idle")
    /\ UNCHANGED <<pending, started, device, arg, calls, wpc, timeout>>

Call(c) == LockCall(c) \/ StartWorker(c) \/ Post(c) \/ UnlockCall(c)

-----------------------------------------------------------------------------
(* sc27xx_vibrate_worker.                                                  *)

\* Mutant of LockWorker: the loop waits without a look at the pending timeout.
LockWorkerToWait ==
    /\ wpc \in {"lock", "woken"}
    /\ lock = Free
    /\ lock' = IF wpc = "lock" THEN Free ELSE Worker
    /\ wpc' = IF wpc = "lock" THEN "wait" ELSE "test"
    /\ UNCHANGED <<pending, started, device, callers, timeout>>

\* pthread_mutex_lock, at the head of the loop or inside pthread_cond_wait.
LockWorker ==
    /\ wpc \in {"lock", "woken"}
    /\ lock = Free
    /\ lock' = Worker
    /\ wpc' = "test"
    /\ UNCHANGED <<pending, started, device, callers, timeout>>

WaitForRequest ==
    /\ wpc = "test"
    /\ pending <= 0
    /\ lock' = Free
    /\ wpc' = "wait"
    /\ UNCHANGED <<pending, started, device, callers, timeout>>

TakeRequest ==
    /\ wpc = "test"
    /\ pending > 0
    /\ timeout' = pending
    /\ pending' = 0
    /\ lock' = Free
    /\ wpc' = "taken"
    /\ UNCHANGED <<started, device, callers>>

\* pthread_cond_wait may return without a signal.
SpuriousWakeup ==
    /\ wpc = "wait"
    /\ wpc' = "woken"
    /\ UNCHANGED <<lock, pending, started, device, callers, timeout>>

-----------------------------------------------------------------------------
(* sc27xx_play_vibrator.                                                   *)

\* Every return: the lock is free and the worker is at the head of its loop.
PlayReturns ==
    /\ lock' = Free
    /\ wpc' = "lock"
    /\ timeout' = 0

\* Mutant of sc27xx_close_vibrator_locked: the failure paths do not close.
sc27xx_close_forgotten == UNCHANGED device

\* Closing the device takes the effects uploaded through it away.
sc27xx_close_vibrator_locked ==
    /\ fd' = FALSE
    /\ effects' = 0
    /\ motor' = FALSE

LockPlay ==
    /\ wpc = "taken"
    /\ lock = Free
    /\ lock' = Worker
    /\ wpc' = "open"
    /\ UNCHANGED <<pending, started, device, callers, timeout>>

sc27xx_open_vibrator_locked ==
    /\ wpc = "open"
    /\ \/ /\ fd' = TRUE
          /\ wpc' = "upload"
          /\ UNCHANGED <<lock, timeout>>
       \/ /\ ~ fd
          /\ PlayReturns
          /\ UNCHANGED fd
    /\ UNCHANGED <<pending, started, effects, motor, callers>>

\* ioctl(fd, EVIOCSFF, &effect), which fails when the device has no slot left.
UploadEffect ==
    /\ wpc = "upload"
    /\ \/ /\ effects' = effects + 1
          /\ wpc' = "play"
          /\ UNCHANGED <<lock, fd, motor, timeout>>
       \/ /\ sc27xx_close_vibrator_locked
          /\ PlayReturns
    /\ UNCHANGED <<pending, started, callers>>

\* Mutant of PlayEffect: the lock is kept while the effect plays.
PlayEffectLocked ==
    /\ wpc = "play"
    /\ \/ /\ motor' = TRUE
          /\ wpc' = "sleep"
          /\ UNCHANGED <<lock, fd, effects, timeout>>
       \/ /\ sc27xx_close_vibrator_locked
          /\ PlayReturns
    /\ UNCHANGED <<pending, started, callers>>

PlayEffect ==
    /\ wpc = "play"
    /\ \/ /\ motor' = TRUE
          /\ lock' = Free
          /\ wpc' = "sleep"
          /\ UNCHANGED <<fd, effects, timeout>>
       \/ /\ sc27xx_close_vibrator_locked
          /\ PlayReturns
    /\ UNCHANGED <<pending, started, callers>>

Sleep ==
    /\ wpc = "sleep"
    /\ wpc' = "slept"
    /\ UNCHANGED <<lock, pending, started, device, callers, timeout>>

LockStop ==
    /\ wpc = "slept"
    /\ lock = Free
    /\ lock' = Worker
    /\ wpc' = "stop"
    /\ UNCHANGED <<pending, started, device, callers, timeout>>

\* EVIOCRMFF stops the effect and frees its slot, whatever the write did.
StopEffect ==
    /\ wpc = "stop"
    /\ IF fd
       THEN effects' = effects - 1 /\ motor' = FALSE
       ELSE UNCHANGED <<effects, motor>>
    /\ PlayReturns
    /\ UNCHANGED <<pending, started, fd, callers>>

Work ==
    \/ LockWorker \/ WaitForRequest \/ TakeRequest
    \/ LockPlay \/ sc27xx_open_vibrator_locked \/ UploadEffect \/ PlayEffect
    \/ Sleep \/ LockStop \/ StopEffect

HapticsNext ==
    \/ \E c \in Client : vibrate(c) \/ Call(c)
    \/ Work
    \/ SpuriousWakeup

\* Threads that can run do run.  Nobody has to call vibrate.  Returns of
\* pthread_cond_wait without a signal are rare events: they do not go on
\* forever, taking the mutex from a caller each time.
HapticsFairness ==
    /\ \A c \in Client : WF_HapticsVars(Call(c))
    /\ WF_HapticsVars(Work)
    /\ <>[][~ SpuriousWakeup]_HapticsVars

HapticsSpec == HapticsInit /\ [][HapticsNext]_HapticsVars /\ HapticsFairness

-----------------------------------------------------------------------------
(* Properties.                                                             *)

\* Who holds the mutex.
LockHolders ==
    /\ \A c \in Client : lock = c <=> cpc[c] \in InCall
    /\ lock = Worker <=> wpc \in {"test"} \cup InPlay

\* The mutex is held exactly by the thread inside a critical section: the
\* pending timeout and the descriptor are touched by one thread at a time,
\* and nobody keeps it through usleep or a wait, so that a page that calls
\* vibrate never waits for the motor.
LockDiscipline == HapticsTypeOK /\ LockHolders

\* Whichever step of playing failed, once the worker is back at its loop no
\* effect is left in the device and the motor is off.
QuietAtRest ==
    /\ wpc \notin {"play", "sleep", "slept", "stop"} => effects = 0
    /\ motor => fd /\ effects = 1 /\ wpc \in {"sleep", "slept", "stop"}

\* The worker plays the latest of the requests that waited, one at a time,
\* and no signal is lost: a request that waits is taken up.
V == INSTANCE Vibration WITH asked <- pending, chosen <- timeout
PlaysLatest == V!Spec

=============================================================================
