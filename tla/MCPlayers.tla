----------------------------- MODULE MCPlayers ------------------------------
(***************************************************************************)
(* The connections for TLC.  Two descriptors and a limit of two: both can  *)
(* be taken, and a descriptor that is closed is given out again.  A burst  *)
(* of one command and one millisecond a command from then on, with lines   *)
(* enough for the quota of a connection to be negative, zero and full      *)
(* again.                                                                  *)
(***************************************************************************)
EXTENDS Players

=============================================================================
