------------------------------ MODULE MCHaptics ------------------------------
(* Two threads call vibrate: a short and a long time, none, and too long.  *)
EXTENDS Haptics

const_Asked == {-1, 40, 160, 20000}

=============================================================================
