------------------------------- MODULE Cache -------------------------------
(***************************************************************************)
(* The object cache of cache.c, the database below it as cache.c uses it,  *)
(* and the users of the cache: clone, destroy and assign_object of         *)
(* storage.c, dbtop, and a method that runs on an object and holds a       *)
(* pointer to it in the global variable this.                              *)
(*                                                                         *)
(* A bucket has an active chain and an old chain.  Slots are linked at the *)
(* head of the active chain only, cache_reset() puts the active chain in   *)
(* front of the old one, and slots leave the old chain at its tail.  So a  *)
(* slot is stamped with a serial n when it is linked; a search looks at    *)
(* larger stamps first, a slot is on the active chain if its stamp is      *)
(* later than the last reset, and the tail of the old chain is the         *)
(* smallest stamp.  A pointer to an object is a serial too.                *)
(***************************************************************************)
EXTENDS Integers

CONSTANTS Width,      \* cwidth: buckets
          Depth,      \* cdepth: slots a bucket starts with
          MaxId,      \* bound: the largest object number
          MaxVal,     \* bound: versions of an object
          MaxSerial,  \* bound: serials used
          Fails,      \* TRUE if writing to the database may fail
          Crashes,    \* when the server may die: "never", "any" time, or only when
                      \* the number of the last object is on disk, "dumped"
          Programs    \* what programs compile: a subset of {"method", "object", "self"},
                      \* "self" for a method that compiles its own object anew

ASSUME CacheAssumption ==
    /\ Width \in Nat \ {0} /\ Depth \in Nat /\ MaxId \in Nat \ {0}
    /\ MaxVal \in Nat \ {0} /\ MaxSerial \in Nat
    /\ Fails \in BOOLEAN /\ Programs \subseteq {"method", "object", "self"}
    /\ Crashes \in {"never", "dumped", "any"}

Ids == 0 .. MaxId
Sys == 0                \* SYS_OBJ
Empty == -1             \* oid of a slot that was never used

VARIABLES
    c,       \* the cache and the database: slots, mark, db and n
    me,      \* frame.this, or Empty if no method runs
    this,    \* the pointer to its object
    used     \* history: the object numbers ever given out

vars == <<c, me, this, used>>

\* val stands for an object's content; the content of the system object that
\* matters here is its variable dbtop.
Slot == [n: Nat, h: 0 .. Width - 1, oid: Ids \cup {Empty}, p: Nat, val: Nat,
         dirty: BOOLEAN, dead: BOOLEAN]

\* Mutant: one bucket too many.
objid_hash_wide(id) == id % (Width + 1)

objid_hash(id) == id % Width

-----------------------------------------------------------------------------
(* cache.c                                                                 *)

First(S) == CHOOSE s \in S : \A t \in S : s.n <= t.n
Last(S) == CHOOSE s \in S : \A t \in S : s.n >= t.n

Active(k, s) == s.n > k.mark

\* Mutant: only the active chain is searched.
LiveActive(k, id) == {s \in k.slots : s.oid = id /\ ~s.dead /\ Active(k, s)}

Live(k, id) == {s \in k.slots : s.oid = id /\ ~s.dead}

OldChain(k, id) == {s \in k.slots : s.h = objid_hash(id) /\ ~Active(k, s)}

\* The pointer cache_get() returned, if k is what it left behind.
Ptr(k, id) == IF Live(k, id) = {} THEN 0 ELSE Last(Live(k, id)).p

Val(k, id) == IF Live(k, id) = {} THEN k.db[id] ELSE Last(Live(k, id)).val

\* valid(): cache_check() finds a live slot, or the database has the object.
cache_check(k, id) == Val(k, id) # 0

NewSlot(k, id, p, v, d) ==
    [n |-> k.n, h |-> objid_hash(id), oid |-> id, p |-> p, val |-> v,
     dirty |-> d, dead |-> FALSE]

\* Mutant: the slot stays on the old chain.
TouchNot(k, s) == k

\* The slot s is dechained and linked at the head of the active chain.
Touch(k, s) == [k EXCEPT !.slots = (@ \ {s}) \cup {[s EXCEPT !.n = k.n]}, !.n = @ + 1]

\* Mutant: the object that has to leave is not written.
WrittenNever(k, t) == k.db

\* DB_PUT() of the object in slot t, if it is dirty.
Written(k, t) == IF t.dirty /\ t.oid # Empty THEN [k.db EXCEPT ![t.oid] = t.val] ELSE k.db

\* Slot t leaves for a new one, or there is none to leave and one is allocated.
Replace(k, T, s) ==
    [k EXCEPT !.slots = (@ \ T) \cup {s}, !.n = @ + 1,
              !.db = IF T = {} THEN @ ELSE Written(k, First(T))]

Tail(k, id) == IF OldChain(k, id) = {} THEN {} ELSE {First(OldChain(k, id))}

Stuck(T, ok) == ~ok /\ \E t \in T : t.dirty

\* retrieve(): ok is FALSE if the database cannot be written.  The tail of the old
\* chain has been unlinked by the time the write fails.
cache_get(k, id, ok) ==
    IF Live(k, id) # {}
    THEN IF Active(k, Last(Live(k, id))) THEN k ELSE Touch(k, Last(Live(k, id)))
    ELSE IF k.db[id] = 0 THEN k
    ELSE IF Stuck(Tail(k, id), ok) THEN [k EXCEPT !.slots = @ \ Tail(k, id)]
    ELSE Replace(k, Tail(k, id), NewSlot(k, id, k.n, k.db[id], FALSE))

\* A slot of that number is taken even if it is dead.
PutHits(k, id) == {s \in k.slots : s.oid = id}

\* The object at pointer p, with content v, becomes the object of that number.
cache_put(k, id, p, v, ok) ==
    IF PutHits(k, id) # {}
    THEN LET s == Last(PutHits(k, id))
         IN  [k EXCEPT !.slots = (@ \ {s}) \cup {[s EXCEPT !.p = p, !.val = v, !.dirty = TRUE]}]
    ELSE IF Stuck(Tail(k, id), ok) THEN k
    ELSE Replace(k, Tail(k, id), NewSlot(k, id, p, v, TRUE))

cache_del(k, id) ==
    [k EXCEPT !.slots = {IF s.oid = id THEN [s EXCEPT !.dead = TRUE, !.dirty = FALSE] ELSE s
                            : s \in @},
              !.db[id] = 0]

Before(t, s) == t.h < s.h \/ (t.h = s.h /\ t.n > s.n)

\* What cache_sync() writes: all dirty slots, or those before a write that fails.
Syncs(k, ok) ==
    LET D == {s \in k.slots : s.dirty}
    IN  IF ok THEN {D}
        ELSE {S \in SUBSET D : \A s \in S, t \in D : Before(t, s) => t \in S}

cache_sync(k, S) ==
    [k EXCEPT !.slots = {IF s \in S THEN [s EXCEPT !.dirty = FALSE] ELSE s : s \in @},
              !.db = [id \in Ids |->
                        IF \E s \in S : s.oid = id
                        THEN (CHOOSE s \in S : s.oid = id).val ELSE @[id]]]

cache_reset(k) == [k EXCEPT !.mark = k.n - 1]

\* cache_init(): Depth empty slots in each bucket.
InitSlots ==
    {[n |-> 1 + h * Depth + i, h |-> h, oid |-> Empty, p |-> 0, val |-> 0,
      dirty |-> FALSE, dead |-> FALSE] : h \in 0 .. Width - 1, i \in 0 .. Depth - 1}

cache_init(db) == [slots |-> InitSlots, mark |-> Width * Depth, db |-> db,
                   n |-> Width * Depth + 1]

-----------------------------------------------------------------------------
(* storage.c                                                               *)

\* dbtop(): 0 if the system object is not found.
dbtop(k) == IF Ptr(k, Sys) = 0 THEN 0 ELSE Val(k, Sys)

set_dbtop(k, top, ok) ==
    LET j == cache_get(k, Sys, ok)
    IN  IF Ptr(j, Sys) = 0 THEN j ELSE cache_put(j, Sys, Ptr(j, Sys), top, ok)

\* Mutant: dbtop follows whatever object was assigned last.
AboveTopAlways(k, id) == TRUE

AboveTop(k, id) == id > dbtop(k)

\* A new object of content v takes the place of object id, if there is one.
assign_object(k, id, v, ok) ==
    LET old == cache_get(k, id, ok)
        j == cache_get(cache_put([old EXCEPT !.n = @ + 1], id, old.n, v, ok), Sys, ok)
    IN  IF AboveTop(j, id) THEN set_dbtop(j, id, ok) ELSE j

NewTop(k) == dbtop(k) + 1

clone(k, ok) ==
    LET j == cache_get(k, Sys, ok)
    IN  assign_object(set_dbtop(j, NewTop(j), ok), NewTop(j), 1, ok)

-----------------------------------------------------------------------------
Init ==
    /\ \E top \in Ids \ {Sys} :
          \E there \in SUBSET (1 .. top) :
            c = cache_init([id \in Ids |-> IF id = Sys THEN top
                                           ELSE IF id \in there THEN 1 ELSE 0])
    /\ used = {id \in Ids : id <= c.db[Sys]}
    /\ me = Empty /\ this = 0

Room == c.n < MaxSerial

Running == me # Empty

Oks == IF Fails THEN BOOLEAN ELSE {TRUE}

\* execute(): a method of object id, or of an ancestor of it, starts or goes on.
execute(id, ok) ==
    /\ Room /\ ~Running
    /\ c' = cache_get(c, id, ok)
    /\ this' = Ptr(c', id)
    /\ me' = IF Ptr(c', id) = 0 THEN Empty ELSE id
    /\ UNCHANGED used

\* Objects are looked up all the time: parents, owners, the system object.
retrieve(id, ok) ==
    /\ Room /\ Running
    /\ c' = cache_get(c, id, ok)
    /\ UNCHANGED <<me, this, used>>

\* An assignment to a global variable, and every other operation that changes
\* this and puts it.  The content of the system object that counts is dbtop.
var_assign_global(ok) ==
    /\ Room /\ Running
    /\ me # Sys => Val(c, me) < MaxVal
    /\ c' = cache_put(c, me, this, IF me = Sys THEN Val(c, me) ELSE Val(c, me) + 1, ok)
    /\ UNCHANGED <<me, this, used>>

op_clone(ok) ==
    /\ Room /\ Running
    /\ NewTop(cache_get(c, Sys, ok)) \in Ids
    /\ c' = clone(c, ok)
    /\ used' = used \cup {NewTop(cache_get(c, Sys, ok))}
    /\ UNCHANGED <<me, this>>

\* program() of whole objects: one that exists is compiled anew.
op_compile_object(id, ok) ==
    /\ Room /\ Running /\ id # Sys
    /\ (IF id = me THEN "self" ELSE "object") \in Programs
    /\ cache_check(c, id) /\ Val(c, id) < MaxVal
    /\ c' = assign_object(c, id, Val(c, id) + 1, ok)
    /\ UNCHANGED <<me, this, used>>

\* program() of one method, which changes the object in place.
op_compile_method(id, ok) ==
    LET k == cache_get(c, id, ok) IN
    /\ Room /\ Running /\ "method" \in Programs /\ id # Sys
    /\ Ptr(k, id) # 0 /\ Val(k, id) < MaxVal
    /\ c' = cache_get(cache_put(k, id, Ptr(k, id), Val(k, id) + 1, ok), me, ok)
    /\ this' = Ptr(c', me)
    /\ UNCHANGED <<me, used>>

\* Programs do not destroy the system object.
op_destroy ==
    /\ Running /\ me # Sys
    /\ c' = cache_del(c, me)
    /\ me' = Empty /\ this' = 0 /\ UNCHANGED used

\* dump()
op_sync(ok) ==
    /\ Running
    /\ \E S \in Syncs(c, ok) : c' = cache_sync(c, S)
    /\ UNCHANGED <<me, this, used>>

\* The method ends or blocks.
EndMethod == Running /\ me' = Empty /\ this' = 0 /\ UNCHANGED <<c, used>>

\* The end of process_queues().
EndRound == ~Running /\ c' = cache_reset(c) /\ UNCHANGED <<me, this, used>>

\* The server dies and is started again.
Crash ==
    /\ Room
    /\ Crashes = "any" \/ (Crashes = "dumped" /\ c.db[Sys] = Val(c, Sys))
    /\ c' = cache_init(c.db) /\ me' = Empty /\ this' = 0 /\ UNCHANGED used

Next ==
    \/ EndMethod \/ EndRound \/ Crash \/ op_destroy
    \/ \E ok \in Oks :
          \/ var_assign_global(ok) \/ op_clone(ok) \/ op_sync(ok)
          \/ \E id \in Ids : \/ execute(id, ok) \/ retrieve(id, ok)
                             \/ op_compile_object(id, ok) \/ op_compile_method(id, ok)

Spec == Init /\ [][Next]_vars

-----------------------------------------------------------------------------
TypeOK ==
    /\ c.slots \subseteq Slot /\ c.db \in [Ids -> Nat] /\ c.n \in Nat /\ c.mark \in Nat
    /\ me \in Ids \cup {Empty} /\ this \in Nat /\ used \subseteq Ids

\* No object number has two slots, on whichever chains: cache_put(), cache_get()
\* and cache_del() stop at the first one they find (cache.c 203-245, 371-429,
\* 580-598).
OneSlot == \A s, t \in c.slots : s.oid = t.oid /\ s.oid # Empty => s = t

\* A method uses the pointer it got from retrieve() until it ends or blocks
\* (execute.c 218).  However many objects it looks up, the slot of its own object
\* is not given to another one, and the pointer is the one in the slot: the object
\* is not freed, and what it assigns is not lost.
ThisCurrent ==
    Running => \E s \in Live(c, me) : s.p = this /\ Active(c, s)

Store == INSTANCE ObjStore WITH
            store <- [id \in Ids |-> Val(c, id)], disk <- c.db

\* Cache and database together are the store of objects of ObjStore: no write is
\* lost but by a crash, and after dump() not even then (cache.c 490-526).
StoreSpec == Store!Spec

\* "The identifying number associated with an object is unique to that object.  It
\* is assigned when the object is created and will never be reused": a number that
\* clone() gives out was not given out before (storage.c 41-62).
NeverReused ==
    [][\A new \in Ids : Val(c, Sys) < new /\ Val(c, Sys)' = new => new \notin used]_vars

\* The same sentence: the number of a new object is not the number of an object that
\* exists.
NumbersUnique ==
    [][\A new \in Ids : Val(c, Sys) < new /\ Val(c, Sys)' = new => Val(c, new) = 0]_vars
=============================================================================
