---------------------------------- MODULE MCLob ----------------------------------
(* Module Lob needs no definitions for TLC: its constants are numbers and flags. *)
EXTENDS Lob
===============================================================================
