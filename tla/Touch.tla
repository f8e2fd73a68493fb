-------------------------------- MODULE Touch --------------------------------
(***************************************************************************)
(* Input events of the recovery (HimaxPatches minuitwrp/events.cpp): the   *)
(* GUI loop calls ev_get, which polls the devices of /dev/input, reads one *)
(* event of each and has vk_modify turn those of the touchscreen into      *)
(* touches, releases and virtual keys.  What vk_modify remembers is static *)
(* and shared by all devices; what it knows of a device is kept by index,  *)
(* and the indices change when ev_get finds /dev/input changed.            *)
(* Scaling, rotation and the codes that change nothing are left out.       *)
(***************************************************************************)
EXTENDS Integers, Sequences, SequencesExt, FiniteSets

CONSTANTS
    Screen,       \* the touchscreen
    Keypad,       \* the device of the hardware keys
    Sensor,       \* a device that sends REL_Z and may be unplugged
    Blacklisted,  \* devices whose name is in TW_INPUT_BLACKLIST
    Drivers,      \* kinds of touchscreen drivers, see Frame
    Pos,          \* positions of a finger, pairs of coordinates
    Orders,       \* orders in which readdir lists the devices
    KeyArea,      \* positions inside a virtual key
    MaxMoves,     \* bound: changes of the fingers
    MaxOthers,    \* bound: hardware keys pressed, sensor events and replugs
    MaxQueue      \* bound: events that wait when a driver adds a frame

Device == {Screen, Keypad, Sensor}

ASSUME InputAssumption ==
    /\ Cardinality(Device) = 3
    /\ Blacklisted \subseteq Device
    /\ Drivers \subseteq {"slots", "anonymous", "pressure", "major", "single", "packed"}
    /\ Orders \subseteq [1 .. 3 -> Device] /\ \A o \in Orders : Range(o) = Device
    /\ Pos \subseteq Nat \X Nat
    /\ KeyArea \subseteq Pos \ {<<0, 0>>}
    /\ MaxMoves \in Nat /\ MaxOthers \in Nat /\ MaxQueue \in Nat

VARIABLES
    driver,   \* the kind of the touchscreen's driver
    finger,   \* where each finger is, Up when it is not on the screen
    kernel,   \* what the input core remembers: slot, and the last axes sent
    queue,    \* events of each device that were not read yet
    plugged,  \* devices that are present
    changed,  \* /dev/input is newer than lastInputMTime
    order,    \* the devices in the order of evs
    evs,      \* per index: ignored, and the axes p and mt_p
    scan,     \* indices the current poll has still to read
    st,       \* the static variables of vk_modify
    guiSaw,   \* what the GUI saw last: nothing, a touch or a virtual key, and where
    mixed,    \* the stream of a touch was cut by another device or by a reload
    moves, others

TouchVars == <<driver, finger, kernel, queue, plugged, changed, order, evs, scan, st,
               guiSaw, mixed, moves, others>>
hardware == <<driver, finger, kernel, moves>>
reader == <<order, evs, scan, st, guiSaw>>

Up == <<-1, -1>>
Fingers == {0, 1}
Touching(f) == finger[f] # Up

-----------------------------------------------------------------------------
(* The drivers: a frame is the events that report one change.              *)

E(t, v) == [t |-> t, v |-> v, at |-> Up]

(* The end of a frame; its at, which no code reads, is the first finger's  *)
(* place.                                                                  *)
Syn(at) == [t |-> "SYN", v |-> 0, at |-> at]

(* An axis of a slot is sent only when it differs from the last value sent. *)
Changed(t, new, old) == IF new = old THEN <<>> ELSE <<E(t, new)>>

Slot(f) == Changed("SLOT", f, kernel.slot)

(* slots: protocol B with two fingers and BTN_TOUCH; anonymous: protocol A,*)
(* a lift is a frame without axes; pressure and major: a lift is a zero;   *)
(* single: ABS_X, ABS_Y and BTN_TOUCH; packed: ABS_MT_POSITION, whose sign *)
(* is the lift, without SYN_REPORT.                                        *)
Frame(f, to) ==
    LET was == finger[f]
        held == \E g \in Fingers \ {f} : Touching(g)
        btn(v) == IF held THEN <<>> ELSE <<E("BTN", v)>>
        axes(x, y) == Changed(x, to[1], kernel.at[f][1]) \o Changed(y, to[2], kernel.at[f][2])
        both == <<E("MTX", to[1]), E("MTY", to[2])>>
        syn == <<Syn(IF f = 0 THEN to ELSE finger[0])>>
        zero(v) == IF driver = "pressure" THEN <<E("PRESSURE", v)>> ELSE <<E("MAJOR", v)>>
        new == was = Up
    IN  CASE driver = "slots" /\ to = Up -> Slot(f) \o <<E("TRACK", -1)>> \o btn(0) \o syn
          [] driver = "slots" /\ to # Up ->
                Slot(f) \o (IF new THEN <<E("TRACK", 1)>> \o btn(1) ELSE <<>>)
                \o axes("MTX", "MTY") \o syn
          [] driver = "single" /\ to = Up -> <<E("BTN", 0)>> \o syn
          [] driver = "single" /\ to # Up ->
                axes("X", "Y") \o (IF new THEN <<E("BTN", 1)>> ELSE <<>>) \o syn
          [] driver = "anonymous" -> (IF to = Up THEN <<>> ELSE both) \o <<E("MTSYN", 0)>> \o syn
          [] driver \in {"pressure", "major"} ->
                (IF to = Up THEN zero(0) ELSE both \o zero(1)) \o <<E("MTSYN", 0)>> \o syn
          [] driver = "packed" -> <<[t |-> "MTPOS", v |-> 0, at |-> to]>>

Send(d, events) ==
    /\ Len(queue[d]) <= MaxQueue
    /\ queue' = [queue EXCEPT ![d] = @ \o events]

(* A finger comes, moves or goes; only protocol B tells fingers apart, and *)
(* a controller gives a new finger the lowest slot that is free.           *)
MoveFinger(f, to) ==
    /\ moves < MaxMoves
    /\ f = 0 \/ (driver = "slots" /\ (Touching(0) \/ Touching(f)))
    /\ finger[f] # to
    /\ Send(Screen, Frame(f, to))
    /\ finger' = [finger EXCEPT ![f] = to]
    /\ kernel' = [slot |-> IF driver = "slots" THEN f ELSE 0,
                  at |-> IF to = Up THEN kernel.at ELSE [kernel.at EXCEPT ![f] = to]]
    /\ moves' = moves + 1
    /\ UNCHANGED <<driver, plugged, changed, reader, mixed, others>>

Other ==
    /\ others < MaxOthers
    /\ others' = others + 1

PressKey ==
    /\ Other
    /\ Send(Keypad, <<E("KEY", 1), Syn(Up)>>)
    /\ UNCHANGED <<hardware, plugged, changed, reader, mixed>>

Measure ==
    /\ Sensor \in plugged
    /\ Other
    /\ Send(Sensor, <<E("RELZ", 0)>>)
    /\ UNCHANGED <<hardware, plugged, changed, reader, mixed>>

Replug ==
    /\ Other
    /\ plugged' = IF Sensor \in plugged THEN plugged \ {Sensor} ELSE Device
    /\ changed' = TRUE
    /\ queue' = [queue EXCEPT ![Sensor] = <<>>]
    /\ UNCHANGED <<hardware, reader, mixed>>

-----------------------------------------------------------------------------
(* vk_modify on event e of a device with the axes a: the new statics s, the *)
(* new axes, and out, what the GUI gets; Consumed when it returns 1.        *)

Consumed == [kind |-> "none", at |-> Up]
Result(s, a, out) == [s |-> s, a |-> a, out |-> out]
Out(kind, at) == [kind |-> kind, at |-> at]

Axes == [p |-> <<0, 0>>, pSync |-> FALSE, mt |-> <<0, 0>>, mtSync |-> FALSE]

Statics == [down |-> Up, discard |-> FALSE, lastSyn |-> FALSE, release |-> 0,
            slot |-> 0, finger |-> FALSE, reported |-> FALSE, negative |-> FALSE]

(* Mutant of ReportRelease: the release of the unpatched file, reported    *)
(* whether or not there was a touch.                                       *)
ReportAnyRelease(s, a) ==
    LET s2 == [s EXCEPT !.down = Up, !.discard = FALSE] IN
    IF s.discard THEN Result(s2, a, Out("keyup", Up))
    ELSE Result(s2, a, Out("up", s.down))

(* vk_report_touch_release: nothing when no touch was reported.            *)
ReportRelease(s, a) ==
    LET s2 == [s EXCEPT !.down = Up, !.discard = FALSE] IN
    IF s.down = Up /\ ~ s.discard THEN Result(s, a, Consumed)
    ELSE IF s.discard THEN Result(s2, a, Out("keyup", Up))
    ELSE Result(s2, a, Out("up", s.down))

Button(s, a, value) ==
    LET s2 == [s EXCEPT !.finger = (value # 0), !.release = 0, !.negative = FALSE] IN
    IF value # 0 THEN Result(s2, a, Consumed)
    ELSE ReportRelease([s2 EXCEPT !.slot = 0, !.reported = FALSE, !.lastSyn = FALSE], a)

(* A zero of pressure or size, or a negative tracking id.                  *)
Lift(s, kind) ==
    IF kind = "TRACK" THEN [s EXCEPT !.finger = FALSE, !.release = 2, !.negative = TRUE]
    ELSE [s EXCEPT !.finger = FALSE,
                   !.release = IF s.reported /\ @ # 2 THEN 1 ELSE @]

Contact(s, kind) ==
    IF kind = "TRACK" THEN [s EXCEPT !.finger = TRUE, !.release = 0, !.negative = FALSE]
    ELSE [s EXCEPT !.finger = TRUE]

MtAxis(a, kind, v) ==
    [a EXCEPT !.mt = IF kind = "MTX" THEN <<v, @[2]>> ELSE <<@[1], v>>, !.mtSync = TRUE]

(* Mutant of OtherSlot: its coordinates are taken.                         *)
OtherSlotMoves(s, kind) == s.slot > 0 /\ kind = "TRACK"

(* Events of the fingers beyond the first are passed over.                 *)
OtherSlot(s, kind) == s.slot > 0

(* The switch over the codes of EV_ABS; all of these are consumed.         *)
AbsEvent(s, a, e) ==
    LET t == e.t
        seen == [s EXCEPT !.lastSyn = FALSE]
    IN  CASE t = "X" -> Result(seen, [a EXCEPT !.p = <<e.v, @[2]>>, !.pSync = TRUE], Consumed)
          [] t = "Y" -> Result(seen, [a EXCEPT !.p = <<@[1], e.v>>, !.pSync = TRUE], Consumed)
          [] t = "SLOT" -> Result([seen EXCEPT !.slot = e.v], a, Consumed)
          [] t \in {"MTX", "MTY", "TRACK", "PRESSURE", "MAJOR"} /\ OtherSlot(s, t) ->
                Result(seen, a, Consumed)
          [] t \in {"MTX", "MTY"} /\ ~ OtherSlot(s, t) ->
                Result(Contact(seen, t), MtAxis(a, t, e.v), Consumed)
          [] t \in {"TRACK", "PRESSURE", "MAJOR"} /\ ~ OtherSlot(s, t) /\ e.v > 0 ->
                Result(Contact(seen, t), a, Consumed)
          [] t \in {"TRACK", "PRESSURE", "MAJOR"} /\ ~ OtherSlot(s, t) /\ e.v <= 0 ->
                Result(Lift(seen, t), [a EXCEPT !.mt = <<0, 0>>], Consumed)

(* Mutant of Lifted: an empty frame does not end a touch.                  *)
LiftedByZero(s) ==
    \/ s.reported /\ ~ s.finger
    \/ s.release = 1 /\ ~ s.negative
    \/ s.negative /\ s.release = 2

(* What a SYN_REPORT takes for the end of a touch.                         *)
Lifted(s) ==
    \/ s.reported /\ ~ s.finger
    \/ (s.lastSyn \/ s.release = 1) /\ ~ s.negative
    \/ s.negative /\ s.release = 2

(* Mutant of Press: the place of a touch is not kept while it moves.       *)
PressOnce(s, a, at) ==
    LET touch == [s EXCEPT !.finger = TRUE, !.reported = TRUE] IN
    IF at = <<0, 0>> THEN Result(s, a, Consumed)
    ELSE IF s.down[1] = -1 /\ at \in KeyArea
    THEN Result([touch EXCEPT !.discard = TRUE, !.down = <<0, @[2]>>], a, Out("keydown", at))
    ELSE IF s.discard THEN Result(s, a, Consumed)
    ELSE Result([touch EXCEPT !.down = IF @ = Up THEN at ELSE @], a, Out("touch", at))

(* A touch at (x, y): the corner is ignored, the first touch may press a   *)
(* virtual key, and what follows on that key is passed over.               *)
Press(s, a, at) ==
    LET touch == [s EXCEPT !.finger = TRUE, !.reported = TRUE] IN
    IF at = <<0, 0>> THEN Result(s, a, Consumed)
    ELSE IF s.down[1] = -1 /\ at \in KeyArea
    THEN Result([touch EXCEPT !.discard = TRUE, !.down = <<0, @[2]>>], a, Out("keydown", at))
    ELSE IF s.discard THEN Result(s, a, Consumed)
    ELSE Result([touch EXCEPT !.down = at], a, Out("touch", at))

Sync(s, a) ==
    LET s2 == [s EXCEPT !.lastSyn = TRUE]
        a2 == [a EXCEPT !.pSync = FALSE, !.mtSync = FALSE]
    IN  IF Lifted(s)
        THEN ReportRelease([s EXCEPT !.release = 0, !.negative = FALSE, !.finger = FALSE,
                                     !.reported = FALSE, !.slot = 0, !.lastSyn = FALSE], a)
        ELSE IF a.pSync THEN Press(s2, a2, a.p)
        ELSE IF a.mtSync THEN Press(s2, a2, a.mt)
        ELSE Result(s2, a, Consumed)

(* ABS_MT_POSITION is an axis and a SYN_REPORT in one.                     *)
Packed(s, a, v) ==
    IF v = Up THEN Sync([s EXCEPT !.lastSyn = TRUE], [a EXCEPT !.mt = <<0, 0>>, !.mtSync = TRUE])
    ELSE Sync([s EXCEPT !.lastSyn = FALSE], [a EXCEPT !.mt = v, !.mtSync = TRUE])

vk_modify(s, a, e) ==
    CASE e.t = "KEY" -> Result(s, a, Out("key", Up))
      [] e.t = "BTN" -> Button(s, a, e.v)
      [] e.t = "MTSYN" -> Result(s, a, Out("other", Up))
      [] e.t = "SYN" -> Sync(s, a)
      [] e.t = "MTPOS" -> Packed(s, a, e.at)
      [] OTHER -> AbsEvent(s, a, e)

-----------------------------------------------------------------------------
(* The GUI loop.                                                           *)

EmptyEvs == [i \in 1 .. 3 |-> [ignored |-> FALSE, a |-> Axes]]

(* vk_init on the entry of an index that device d gets: what the index     *)
(* ignored before stays ignored.                                           *)
vk_init(entry, d) ==
    [ignored |-> entry.ignored \/ d \in Blacklisted,
     a |-> [entry.a EXCEPT !.pSync = FALSE, !.mtSync = FALSE]]

(* ev_init fills evs from the first index on, in the order of readdir.     *)
ev_init(old, seq) == [i \in 1 .. 3 |-> IF i > Len(seq) THEN old[i] ELSE vk_init(old[i], seq[i])]

TouchInit ==
    /\ driver \in Drivers
    /\ finger = [f \in Fingers |-> Up]
    /\ kernel = [slot |-> 0, at |-> [f \in Fingers |-> <<0, 0>>]]
    /\ queue = [d \in Device |-> <<>>]
    /\ plugged = Device
    /\ changed = FALSE
    /\ order \in Orders
    /\ evs = ev_init(EmptyEvs, order)
    /\ scan = {}
    /\ st = Statics
    /\ guiSaw = [kind |-> "none", at |-> Up]
    /\ mixed = FALSE
    /\ moves = 0 /\ others = 0

(* What readdir lists of the order o: the sensor only while it is plugged. *)
Listed(o) ==
    LET unplugged == CHOOSE i \in 1 .. 3 : o[i] = Sensor IN
    IF Sensor \in plugged THEN o
    ELSE [k \in 1 .. 2 |-> IF k < unplugged THEN o[k] ELSE o[k + 1]]

(* ev_get finds a newer /dev/input: every device is closed, with what was  *)
(* not read of it, and opened again.                                       *)
Reload ==
    /\ scan = {}
    /\ changed
    /\ changed' = FALSE
    /\ order' \in {Listed(o) : o \in Orders}
    /\ evs' = ev_init(evs, order')
    /\ queue' = [d \in Device |-> <<>>]
    /\ mixed' = TRUE
    /\ UNCHANGED <<hardware, plugged, scan, st, guiSaw, others>>

Readable == {i \in DOMAIN order : queue[order[i]] # <<>>}

Poll ==
    /\ scan = {}
    /\ Readable # {}
    /\ scan' = Readable
    /\ UNCHANGED <<hardware, queue, plugged, changed, order, evs, st, guiSaw, mixed, others>>

See(out) ==
    guiSaw' = CASE out.kind = "touch" -> out
                [] out.kind = "keydown" -> out
                [] out.kind \in {"up", "keyup"} -> [kind |-> "none", at |-> Up]
                [] OTHER -> guiSaw

(* A SYN_REPORT of another device cuts a touch that is under way.          *)
Cuts(d, e) ==
    /\ d # Screen /\ e.t = "SYN"
    /\ \/ \E f \in Fingers : Touching(f)
       \/ queue[Screen] # <<>>
       \/ guiSaw.kind # "none"

(* The device whose turn it is, its event, and what vk_modify makes of it. *)
Turn == CHOOSE n \in scan : \A m \in scan : n <= m
Event == Head(queue[order[Turn]])
Handled ==
    IF evs[Turn].ignored \/ Event.t = "RELZ" THEN Result(st, evs[Turn].a, Consumed)
    ELSE vk_modify(st, evs[Turn].a, Event)

(* One turn of the loop over the polled devices: an event that is reported *)
(* ends the call, a consumed one goes on to the next device.               *)
Read ==
    /\ scan # {}
    /\ queue[order[Turn]] # <<>>
    /\ queue' = [queue EXCEPT ![order[Turn]] = Tail(@)]
    /\ st' = Handled.s
    /\ evs' = [evs EXCEPT ![Turn] = [ignored |-> @.ignored \/ Event.t = "RELZ", a |-> Handled.a]]
    /\ See(Handled.out)
    /\ scan' = IF Handled.out = Consumed THEN scan \ {Turn} ELSE {}
    /\ mixed' = (mixed \/ (~ evs[Turn].ignored /\ Cuts(order[Turn], Event)))
    /\ UNCHANGED <<hardware, plugged, changed, order, others>>

(* The device was unplugged since the poll: the read fails.                *)
ReadFails ==
    /\ scan # {}
    /\ queue[order[Turn]] = <<>>
    /\ scan' = scan \ {Turn}
    /\ UNCHANGED <<hardware, queue, plugged, changed, order, evs, st, guiSaw, mixed, others>>

TouchNext ==
    \/ \E f \in Fingers, to \in Pos \cup {Up} : MoveFinger(f, to)
    \/ PressKey
    \/ Measure
    \/ Replug
    \/ Reload
    \/ Poll
    \/ Read
    \/ ReadFails

TouchFairness == WF_TouchVars(Reload) /\ WF_TouchVars(Poll) /\ WF_TouchVars(Read \/ ReadFails)

TouchSpec == TouchInit /\ [][TouchNext]_TouchVars /\ TouchFairness

-----------------------------------------------------------------------------
(* Properties.                                                             *)

(* Every variable keeps to its type.                                       *)
TouchTypeOK ==
    /\ driver \in Drivers
    /\ finger \in [Fingers -> Pos \cup {Up}]
    /\ \A d \in Device : \A k \in DOMAIN queue[d] : queue[d][k].at \in Pos \cup {Up} /\ queue[d][k].v \in Int
    /\ plugged \in SUBSET Device
    /\ {changed, mixed} \subseteq BOOLEAN
    /\ Range(order) \subseteq Device /\ Len(order) \in {2, 3}
    /\ \A i \in 1 .. 3 : evs[i].ignored \in BOOLEAN
    /\ scan \subseteq 1 .. 3
    /\ \A c \in {1, 2} : st.down[c] \in {-1, 0} \cup {at[c] : at \in Pos}
    /\ st.release \in 0 .. 2 /\ st.slot \in Fingers
    /\ guiSaw.kind \in {"none", "touch", "keydown"}

(* What the GUI sees is a sequence of gestures whatever the devices do and *)
(* however they interleave: a release only after a touch and where that    *)
(* touch was seen last, a virtual key only between gestures, and nothing   *)
(* but its release while it is down.                                       *)
GestureOrder ==
    [][ Read => LET out == Handled.out IN
            /\ out.kind = "touch" => guiSaw.kind # "keydown"
            /\ out.kind = "keydown" => guiSaw.kind = "none"
            /\ out.kind = "up" => guiSaw = [kind |-> "touch", at |-> out.at]
            /\ out.kind = "keyup" => guiSaw.kind = "keydown" ]_TouchVars

(* What the GUI believes is what vk_modify remembers, across reloads too:  *)
(* it holds a virtual key exactly when later movement is discarded, and a  *)
(* touch exactly where the next release will be reported.                  *)
GuiAgrees ==
    /\ TouchTypeOK
    /\ (guiSaw.kind = "keydown") <=> st.discard
    /\ (guiSaw.kind = "none") <=> (st.down = Up /\ ~ st.discard)
    /\ guiSaw.kind = "touch" => st.down = guiSaw.at

(* The second finger never moves the pointer: each coordinate reported at  *)
(* a SYN_REPORT is where the first finger was put, or the zero a lift left *)
(* behind, as long as no other device cut the touch.                       *)
FirstFinger ==
    [][ (Read /\ ~ mixed /\ Handled.out.kind \in {"touch", "keydown"}) =>
            \A c \in {1, 2} : Handled.out.at[c] \in {0, Event.at[c]} ]_TouchVars

(* A finger that left the screen is released in the GUI, unless it came    *)
(* back, or its events were cut by another device or lost in a reload.     *)
TouchEnds ==
    (\A f \in Fingers : ~ Touching(f))
        ~> (guiSaw.kind = "none" \/ mixed \/ \E f \in Fingers : Touching(f))

=============================================================================
