----------------------------- MODULE MCKeyStorage -----------------------------
(***************************************************************************)
(* The instance of KeyStorage for TLC: its constants are given in the cfg. *)
(***************************************************************************)
EXTENDS KeyStorage
===============================================================================
