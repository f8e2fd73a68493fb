------------------------------ MODULE MCSettings ------------------------------
(* Two threads; the card has a partition, a third path has none any more.  *)
EXTENDS Settings

=============================================================================
