-------------------------------- MODULE KeySlot --------------------------------
(***************************************************************************)
(* What key storage promises of each key path: a key is there or is not,   *)
(* a reported key stays until its owner gives it up, and a key whose       *)
(* destruction was reported never comes back, whatever crashes.            *)
(***************************************************************************)
CONSTANTS Slot, Key, None

VARIABLES
    value,     \* the key that can be read at every slot, or None
    stored,    \* the key reported as stored there, or None
    destroyed  \* keys whose destruction was reported as complete

slotVars == <<value, stored, destroyed>>

Init ==
    /\ value = [s \in Slot |-> None]
    /\ stored = [s \in Slot |-> None]
    /\ destroyed = {}

\* Only keys nobody relies on come and go: one that is being stored or given
\* up, or whatever a crash decides of them.
Unsettled(s) == stored[s] = None

ComeAndGo ==
    /\ value' \in [Slot -> (Key \ destroyed) \cup {None}]
    /\ \A s \in Slot : ~Unsettled(s) => value'[s] = value[s]
    /\ \A s, t \in Slot : value'[s] = value'[t] /\ s # t => value'[s] = None
    /\ UNCHANGED <<stored, destroyed>>

Report(s) ==
    /\ value[s] # None
    /\ stored' = [stored EXCEPT ![s] = value[s]]
    /\ UNCHANGED <<value, destroyed>>

GiveUp(s) ==
    /\ stored' = [stored EXCEPT ![s] = None]
    /\ UNCHANGED <<value, destroyed>>

Destroyed(k) ==
    /\ \A s \in Slot : value[s] # k
    /\ destroyed' = destroyed \cup {k}
    /\ UNCHANGED <<value, stored>>

Next ==
    \/ ComeAndGo
    \/ \E s \in Slot : Report(s) \/ GiveUp(s)
    \/ \E k \in Key : Destroyed(k)

Spec == Init /\ [][Next]_slotVars
=============================================================================
