------------------------------ MODULE Vibration ------------------------------
(***************************************************************************)
(* What the vibrator promises to the pages of the recovery: one request at *)
(* a time is played, a newer one replaces the one that waits, a request    *)
(* that waits is taken up, and the motor is on only while a request plays. *)
(***************************************************************************)
EXTENDS Naturals

CONSTANT Timeout  \* the times a motor may be asked to run, in ms, none of them 0

VARIABLES
    asked,   \* the request that waits, 0 for none
    chosen,  \* the request that is played, 0 for none
    motor    \* the motor runs

vars == <<asked, chosen, motor>>

Init ==
    /\ asked = 0
    /\ chosen = 0
    /\ motor = FALSE

Ask ==
    /\ asked' \in Timeout
    /\ UNCHANGED <<chosen, motor>>

Choose ==
    /\ asked # 0
    /\ chosen = 0
    /\ chosen' = asked
    /\ asked' = 0
    /\ UNCHANGED motor

Start ==
    /\ chosen # 0
    /\ motor' = TRUE
    /\ UNCHANGED <<asked, chosen>>

\* A device that cannot be opened or driven: the request is given up.
Drop ==
    /\ chosen # 0
    /\ ~ motor
    /\ chosen' = 0
    /\ UNCHANGED <<asked, motor>>

Stop ==
    /\ motor
    /\ motor' = FALSE
    /\ chosen' = 0
    /\ UNCHANGED asked

Next == Ask \/ Choose \/ Start \/ Drop \/ Stop

Safe == Init /\ [][Next]_vars

Spec ==
    /\ Safe
    /\ WF_vars(Choose)
    /\ WF_vars(Start \/ Drop)
    /\ WF_vars(Stop)

=============================================================================
