------------------------------ MODULE ObjStore ------------------------------
(***************************************************************************)
(* What the cache and the database promise together: a store of objects    *)
(* that methods read and write, and a copy of it on disk that lags behind. *)
(* An object reaches the disk at some time between its write and the next  *)
(* dump; a crash goes back to what the disk holds.                         *)
(***************************************************************************)
EXTENDS Integers

CONSTANTS Ids,     \* the object numbers
          Sys      \* the system object, whose content is the highest number used

VARIABLES store, disk     \* the content of each object, 0 if it does not exist

vars == <<store, disk>>

Init == store \in [Ids -> Nat] /\ store[Sys] # 0 /\ disk = store

\* While a method runs any object may be written to disk, as it was before the
\* step or as the step leaves it.
Flushes ==
    /\ DOMAIN disk' = Ids
    /\ \A id \in Ids : disk'[id] \in {disk[id], store[id], store'[id]}

Read == UNCHANGED store /\ Flushes

Write(id) ==
    /\ store[id] # 0
    /\ store'[id] # 0 /\ store' = [store EXCEPT ![id] = store'[id]]
    /\ Flushes

\* A new object gets the number after the highest one used so far.
Create ==
    LET new == store[Sys] + 1 IN
    /\ new \in Ids
    /\ store'[new] # 0 /\ store' = [store EXCEPT ![Sys] = new, ![new] = store'[new]]
    /\ Flushes

Delete(id) ==
    /\ store[id] # 0
    /\ store' = [store EXCEPT ![id] = 0] /\ disk' = [disk EXCEPT ![id] = 0]

Dump == UNCHANGED store /\ disk' = store

Crash == store' = disk /\ UNCHANGED disk

Next ==
    \/ Read \/ Create \/ Dump \/ Crash
    \/ \E id \in Ids : Write(id) \/ Delete(id)

Spec == Init /\ [][Next]_vars
=============================================================================
