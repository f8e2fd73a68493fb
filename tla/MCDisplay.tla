------------------------------ MODULE MCDisplay ------------------------------
(* A panel on DSI with an external screen before or after it, and planes   *)
(* of which some cannot be used with the panel's CRTC.                     *)
EXTENDS Display

Panel == [type |-> "DSI", usable |-> TRUE, crtc |-> 1, possible |-> 1]
Idle == [type |-> "DSI", usable |-> TRUE, crtc |-> 0, possible |-> 1]
External == [type |-> "DP", usable |-> TRUE, crtc |-> 2, possible |-> 2]
Gone == [type |-> "DP", usable |-> FALSE, crtc |-> 0, possible |-> 2]
Writeback == [type |-> "Writeback", usable |-> FALSE, crtc |-> 0, possible |-> 0]

MCScreens ==
    [connectors : {<<Panel>>, <<Idle, Gone>>, <<External, Panel>>, <<External>>, <<Gone>>,
                   <<Panel, Writeback>>},
     planes : {<<{1}, {2}, {1, 2}, {1}, {1}>>, <<{1, 2}, {2}>>},
     lms : {1, 2, 4}]
=============================================================================
