---------------------------- MODULE MCDbmchunk ----------------------------
(***************************************************************************)
(* Instances of Dbmchunk for TLC: its constants are numbers and sets of    *)
(* model values.  A byte of the bitmap has two bits, so that two growths   *)
(* of the bitmap fit into a small state space.                             *)
(***************************************************************************)
EXTENDS Dbmchunk

=============================================================================
