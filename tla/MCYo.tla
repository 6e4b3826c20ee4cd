------------------------------- MODULE MCYo -------------------------------
(***************************************************************************)
(* Instances of Yo for TLC.  The servers are model values.                 *)
(***************************************************************************)
EXTENDS Yo
=============================================================================
