------------------------------ MODULE MCTasks ------------------------------
(***************************************************************************)
(* Instances of Tasks for TLC.  Each .cfg picks the operations programs    *)
(* use, so that each run explores one mechanism in depth.                  *)
(***************************************************************************)
EXTENDS Tasks

CONSTANTS o1, o2, r1

=============================================================================
