------------------------------ MODULE DiskMap ------------------------------
(***************************************************************************)
(* What the disk store promises: a map from object numbers to contents in  *)
(* which one operation touches one object.  An object is torn while it is  *)
(* being written, and stays so if that is cut short: nothing is known of   *)
(* it until it is written again, and nothing else is affected.             *)
(***************************************************************************)
CONSTANT Ids

VARIABLES map,     \* what is found of each object
          want     \* the object the current put is to store, an input

Whole(c) == [is |-> "whole", obj |-> {c}]
Torn == [is |-> "torn", obj |-> {}]
None == [is |-> "none", obj |-> {}]

Init == map = [id \in Ids |-> None]

Tear(id) == map' = [map EXCEPT ![id] = Torn]
Put(id)  == want.id = id /\ map[id] = Torn /\ map' = [map EXCEPT ![id] = Whole(want)]
Del(id)  == map' = [map EXCEPT ![id] = None]

Next == \E id \in Ids : Tear(id) \/ Del(id) \/ Put(id)

Spec == Init /\ [][Next]_map
=============================================================================
