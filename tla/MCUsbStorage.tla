----------------------------- MODULE MCUsbStorage -----------------------------
(***************************************************************************)
(* A removable card, and /data with its media: one storage that can be     *)
(* exported and disappear, and one that is never exported.                 *)
(***************************************************************************)
EXTENDS UsbStorage

CONSTANTS card, data

CardThenData == <<card, data>>

EachFault == {{f} : f \in Fault} \cup {{"mount", "umount", "lun", "fork"}}
===============================================================================
