------------------------------ MODULE MCCache ------------------------------
(***************************************************************************)
(* Instances of Cache for TLC: all of its constants are numbers.           *)
(***************************************************************************)
EXTENDS Cache
=============================================================================
