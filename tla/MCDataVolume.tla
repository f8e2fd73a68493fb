---------------------------- MODULE MCDataVolume ----------------------------
(* DataVolume for TLC: the owner and one more user.                        *)
EXTENDS DataVolume

TwoUsers == <<0, 10>>

=============================================================================
