----------------------------- MODULE CacheProofs -----------------------------
(***************************************************************************)
(* Theorems about the object cache, for every size of the cache and every  *)
(* value of the bounds.  Types are right whatever fails.  The rest holds as*)
(* long as the database can be written, the server dies only when the      *)
(* number of the last object is on disk, and no method compiles its own    *)
(* object (Sound).  CacheReuse.cfg shows that a number is used again       *)
(* without the first two.                                                  *)
(*                                                                         *)
(* The operations of cache.c are operators from a cache to a cache, so     *)
(* most of what is proved is a lemma about one of them: that it keeps      *)
(* CacheInv, what it does to the contents of the objects, what it may      *)
(* write to the database, and that it keeps the pointer of a method.       *)
(***************************************************************************)
EXTENDS Cache, WellFoundedInduction, TLAPS

Sound == ~Fails /\ Crashes # "any" /\ "self" \notin Programs

Caches == [slots: SUBSET Slot, mark: Nat, db: [Ids -> Nat], n: Nat]

Single(k) == \A s, t \in k.slots : s.oid = t.oid /\ s.oid # Empty => s = t

\* A slot that is not dirty has what the database has.
Mirrors(k) ==
    \A s \in k.slots :
        /\ s.oid = Empty => ~s.dirty /\ ~s.dead
        /\ s.oid # Empty /\ s.dead => ~s.dirty /\ k.db[s.oid] = 0
        /\ s.oid # Empty /\ ~s.dead => s.p # 0 /\ s.val # 0 /\ (s.dirty \/ k.db[s.oid] = s.val)

\* No number above dbtop is used, by an object or by what is left of one.
BelowTop(k) ==
    /\ Val(k, Sys) # 0
    /\ \A id \in Ids : k.db[id] # 0 => id <= Val(k, Sys)
    /\ \A s \in k.slots : s.oid # Empty => s.oid <= Val(k, Sys)

CacheInv(k) == k \in Caches /\ k.mark < k.n /\ Single(k) /\ Mirrors(k) /\ BelowTop(k)

\* The pointer p to object id is good to the end of the round.
Holds(k, id, p) == \E s \in Live(k, id) : s.p = p /\ Active(k, s)

IInv ==
    /\ CacheInv(c)
    /\ me \in Ids \cup {Empty} /\ this \in Nat
    /\ used \subseteq Ids /\ \A id \in used : id <= Val(c, Sys)
    /\ Running => Holds(c, me, this)

-----------------------------------------------------------------------------
(* Slots.                                                                  *)

\* The tail of a chain is one of its slots: the smallest stamp exists.
LEMMA FirstIn ==
  ASSUME NEW S, S \subseteq Slot, S # {}
  PROVE  First(S) \in S
  <1> DEFINE T == {s.n : s \in S}
             R == OpToRel(<, Nat)
  <1>1. T \subseteq Nat /\ T # {}
    BY DEF Slot
  <1>2. PICK n \in T : \A m \in T : ~(<<m, n>> \in R)
    <2> HIDE DEF T, R
    <2>1. IsWellFoundedOn(R, Nat)
      BY NatLessThanWellFounded DEF R
    <2>2. QED
      BY <1>1, <2>1, WFMin, Zenon
  <1>3. \A m \in T : n <= m
    <2> SUFFICES ASSUME NEW m \in T PROVE n <= m
      OBVIOUS
    <2>1. n \in Nat /\ m \in Nat
      BY <1>1
    <2>2. ~(m < n)
      BY <1>2, <2>1 DEF OpToRel
    <2>3. QED
      BY <2>1, <2>2
  <1>4. \E s \in S : \A t \in S : s.n <= t.n
    BY <1>2, <1>3
  <1>5. QED
    BY <1>4, Zenon DEF First

LEMMA LiveOne ==
  ASSUME NEW k, k \in Caches, Single(k), NEW id \in Ids, NEW s \in Live(k, id)
  PROVE  /\ Live(k, id) = {s} /\ Last(Live(k, id)) = s
         /\ Ptr(k, id) = s.p /\ Val(k, id) = s.val
  <1>1. Live(k, id) = {s}
    BY DEF Live, Single, Ids, Empty
  <1>2. s.n \in Nat
    BY DEF Live, Caches, Slot
  <1>3. Last({s}) = s
    BY <1>2 DEF Last
  <1>4. QED
    BY <1>1, <1>3 DEF Ptr, Val

LEMMA LiveNone ==
  ASSUME NEW k, NEW id, Live(k, id) = {}
  PROVE  Ptr(k, id) = 0 /\ Val(k, id) = k.db[id]
  BY DEF Ptr, Val

-----------------------------------------------------------------------------
(* What an operation of the cache may do: Flushed, objects are written to  *)
(* the database as they are; Buries, it kills no slot; Pins, pointers of   *)
(* methods stay good.                                                      *)

Flushed(k, j) == \A i \in Ids : j.db[i] \in {k.db[i], Val(k, i)}

Buries(k, j) == \A s \in j.slots : s.dead => s \in k.slots

Pins(k, j, i) == \A p \in Nat : Holds(k, i, p) => Holds(j, i, p)

\* No object that exists has a number above dbtop.
LEMMA Below ==
  ASSUME NEW k, CacheInv(k), NEW i \in Ids, Val(k, i) # 0
  PROVE  i <= Val(k, Sys)
  <1>1. CASE Live(k, i) = {}
    BY <1>1, LiveNone DEF CacheInv, BelowTop
  <1>2. CASE Live(k, i) # {}
    BY <1>2 DEF CacheInv, BelowTop, Live, Ids, Empty
  <1>3. QED
    BY <1>1, <1>2

\* A live slot has the number and the content of an object that exists.
LEMMA ValType ==
  ASSUME NEW k, CacheInv(k), NEW i \in Ids
  PROVE  Val(k, i) \in Nat /\ Ptr(k, i) \in Nat /\ (Live(k, i) # {} => Val(k, i) # 0 /\ Ptr(k, i) # 0)
  <1>1. CASE Live(k, i) = {}
    BY <1>1, LiveNone DEF CacheInv, Caches
  <1>2. CASE Live(k, i) # {}
    <2>1. PICK s \in Live(k, i) : TRUE
      BY <1>2
    <2>2. Val(k, i) = s.val /\ Ptr(k, i) = s.p
      BY <2>1, LiveOne DEF CacheInv
    <2>3. s \in Slot /\ s.val # 0 /\ s.p # 0
      BY <2>1 DEF CacheInv, Caches, Mirrors, Live, Ids, Empty
    <2>4. QED
      BY <2>2, <2>3 DEF Slot
  <1>3. QED
    BY <1>1, <1>2

(***************************************************************************)
(* The slots in gone leave the cache and slot x of object id enters it:    *)
(* the one thing that cache_get() and cache_put() do, in four ways.        *)
(***************************************************************************)
Swaps(k, j, id, gone, x) ==
    /\ CacheInv(k) /\ j \in Caches /\ j.mark = k.mark /\ k.n <= j.n
    /\ gone \subseteq k.slots /\ j.slots = (k.slots \ gone) \cup {x}
    /\ id \in Ids /\ x \in Slot /\ x.oid = id /\ ~x.dead /\ x.p # 0 /\ x.val # 0
    /\ x.dirty \/ x.val = k.db[id]
    /\ \A s \in k.slots : s.oid = id => s \in gone
    /\ \A s \in gone : s.oid = id \/ ~Active(k, s)
    /\ id <= Val(k, Sys) /\ (id = Sys => Val(k, Sys) <= x.val)
    /\ \A i \in Ids : j.db[i] = IF i # id /\ \E s \in gone : s.oid = i /\ s.dirty
                                THEN Val(k, i) ELSE k.db[i]

LEMMA SwapVal ==
  ASSUME NEW k, NEW j, NEW id, NEW gone, NEW x, Swaps(k, j, id, gone, x), NEW i \in Ids
  PROVE  Val(j, i) = IF i = id THEN x.val ELSE Val(k, i)
  <1>1. Single(j)
    BY DEF Swaps, CacheInv, Single
  <1>2. CASE i = id
    <2>1. x \in Live(j, id)
      BY DEF Swaps, Live
    <2>2. QED
      BY <1>1, <1>2, <2>1, LiveOne DEF Swaps
  <1>3. CASE i # id /\ Live(j, i) # {}
    <2>1. PICK s \in Live(j, i) : TRUE
      BY <1>3
    <2>2. s \in Live(k, i)
      BY <1>3, <2>1 DEF Swaps, Live
    <2>3. QED
      BY <1>1, <1>3, <2>1, <2>2, LiveOne DEF Swaps, CacheInv
  <1>4. CASE i # id /\ Live(j, i) = {} /\ Live(k, i) = {}
    <2>1. j.db[i] = k.db[i]
      BY <1>4, LiveNone DEF Swaps
    <2>2. QED
      BY <1>4, <2>1, LiveNone
  <1>5. CASE i # id /\ Live(j, i) = {} /\ Live(k, i) # {}
    <2>1. PICK s \in Live(k, i) : TRUE
      BY <1>5
    <2>2. s \in gone
      BY <1>5, <2>1 DEF Swaps, Live
    <2>3. Val(k, i) = s.val
      BY <2>1, LiveOne DEF Swaps, CacheInv
    <2>4. s.dirty \/ k.db[i] = s.val
      BY <2>1 DEF Swaps, CacheInv, Mirrors, Live, Ids, Empty
    <2>5. s.oid = i
      BY <2>1 DEF Live
    <2>6. j.db[i] = s.val
      BY <1>5, <2>2, <2>3, <2>4, <2>5 DEF Swaps
    <2>7. QED
      BY <1>5, <2>3, <2>6, LiveNone
  <1>6. QED
    BY <1>2, <1>3, <1>4, <1>5

LEMMA SwapInv ==
  ASSUME NEW k, NEW j, NEW id, NEW gone, NEW x, Swaps(k, j, id, gone, x)
  PROVE  CacheInv(j)
  <1>1. j \in Caches /\ j.mark < j.n
    BY DEF Swaps, CacheInv, Caches
  <1>2. Single(j)
    BY DEF Swaps, CacheInv, Single
  <1>3. Mirrors(j)
    <2> SUFFICES ASSUME NEW s \in j.slots
                 PROVE  /\ s.oid = Empty => ~s.dirty /\ ~s.dead
                        /\ s.oid # Empty /\ s.dead => ~s.dirty /\ j.db[s.oid] = 0
                        /\ s.oid # Empty /\ ~s.dead =>
                             s.p # 0 /\ s.val # 0 /\ (s.dirty \/ j.db[s.oid] = s.val)
      BY DEF Mirrors
    <2>1. CASE s = x
      <3>1. id # Empty /\ j.db[id] = k.db[id]
        BY DEF Swaps, Ids, Empty
      <3>2. QED
        BY <2>1, <3>1 DEF Swaps
    <2>2. CASE s # x
      <3>1. s \in k.slots /\ s \notin gone /\ s.oid # id
        BY <2>2 DEF Swaps
      <3>2. s.oid # Empty => s.oid \in Ids /\ j.db[s.oid] = k.db[s.oid]
        <4>1. s \in Slot
          BY <3>1 DEF Swaps, CacheInv, Caches
        <4>2. s.oid # Empty => ~ \E t \in gone : t.oid = s.oid /\ t.dirty
          BY <3>1 DEF Swaps, CacheInv, Single
        <4>3. QED
          BY <3>1, <4>1, <4>2 DEF Swaps, Slot
      <3>3. QED
        BY <3>1, <3>2 DEF Swaps, CacheInv, Mirrors
    <2>3. QED
      BY <2>1, <2>2
  <1>4. BelowTop(j)
    <2>1. Val(j, Sys) # 0 /\ Val(k, Sys) <= Val(j, Sys) /\ Val(j, Sys) \in Nat
      <3>1. Sys \in Ids /\ Val(k, Sys) # 0
        BY CacheAssumption DEF Swaps, CacheInv, BelowTop, Sys, Ids
      <3>2. Val(j, Sys) = IF Sys = id THEN x.val ELSE Val(k, Sys)
        BY <3>1, SwapVal
      <3>3. Val(k, Sys) \in Nat
        BY <3>1, ValType DEF Swaps
      <3>4. QED
        BY <3>1, <3>2, <3>3 DEF Swaps, Slot
    <2>2. \A i \in Ids : i <= Val(k, Sys) => i <= Val(j, Sys)
      BY <2>1, ValType, CacheAssumption DEF Swaps, Sys, Ids
    <2>3. ASSUME NEW i \in Ids, j.db[i] # 0 PROVE i <= Val(j, Sys)
      <3>1. k.db[i] # 0 \/ Val(k, i) # 0
        BY <2>3 DEF Swaps
      <3>2. i <= Val(k, Sys)
        BY <3>1, Below DEF Swaps, CacheInv, BelowTop
      <3>3. QED
        BY <2>2, <3>2
    <2>4. ASSUME NEW s \in j.slots, s.oid # Empty PROVE s.oid <= Val(j, Sys)
      <3>1. s.oid \in Ids
        BY <1>1, <2>4 DEF Caches, Slot
      <3>2. s.oid <= Val(k, Sys)
        BY <2>4 DEF Swaps, CacheInv, BelowTop
      <3>3. QED
        BY <2>2, <3>1, <3>2
    <2>5. QED
      BY <2>1, <2>3, <2>4 DEF BelowTop
  <1>5. QED
    BY <1>1, <1>2, <1>3, <1>4 DEF CacheInv

LEMMA SwapFlushed ==
  ASSUME NEW k, NEW j, NEW id, NEW gone, NEW x, Swaps(k, j, id, gone, x)
  PROVE  Flushed(k, j) /\ Buries(k, j)
  BY DEF Swaps, Flushed, Buries

LEMMA SwapPins ==
  ASSUME NEW k, NEW j, NEW id, NEW gone, NEW x, Swaps(k, j, id, gone, x), NEW i \in Ids
  PROVE  /\ i # id => Pins(k, j, i)
         /\ k.mark < x.n => Holds(j, id, x.p)
  <1>1. ASSUME i # id, NEW p \in Nat, Holds(k, i, p)
        PROVE  Holds(j, i, p)
    <2>1. PICK s \in Live(k, i) : s.p = p /\ Active(k, s)
      BY <1>1 DEF Holds
    <2>2. s \in Live(j, i) /\ Active(j, s)
      BY <1>1, <2>1 DEF Swaps, Live, Active
    <2>3. QED
      BY <2>1, <2>2 DEF Holds
  <1>2. ASSUME k.mark < x.n PROVE Holds(j, id, x.p)
    <2>1. x \in Live(j, id) /\ Active(j, x)
      BY <1>2 DEF Swaps, Live, Active, Slot, Caches
    <2>2. QED
      BY <2>1 DEF Holds
  <1>3. QED
    BY <1>1, <1>2 DEF Pins

-----------------------------------------------------------------------------
(* cache_get() and cache_put().                                            *)

\* j is k after some objects have been looked up.
Reads(k, j) ==
    /\ CacheInv(j) /\ Flushed(k, j) /\ Buries(k, j)
    /\ \A i \in Ids : Val(j, i) = Val(k, i) /\ Pins(k, j, i)

LEMMA ReadsNothing ==
  ASSUME NEW k, CacheInv(k)
  PROVE  Reads(k, k)
  BY DEF Reads, Flushed, Buries, Pins

\* The slot that leaves for a new one.
LEMMA TailSlot ==
  ASSUME NEW k, CacheInv(k), NEW id \in Ids, NEW t \in Tail(k, id)
  PROVE  Tail(k, id) = {t} /\ First(Tail(k, id)) = t /\ t \in k.slots /\ ~Active(k, t)
  <1>1. t = First(OldChain(k, id)) /\ Tail(k, id) = {t} /\ OldChain(k, id) # {}
    BY DEF Tail
  <1>2. OldChain(k, id) \subseteq Slot
    BY DEF OldChain, CacheInv, Caches
  <1>3. t \in OldChain(k, id)
    BY <1>1, <1>2, FirstIn
  <1>4. First({t}) = t
    <2>1. t \in Slot
      BY <1>2, <1>3
    <2>2. First({t}) \in {t}
      BY <2>1, FirstIn
    <2>3. QED
      BY <2>2
  <1>5. QED
    BY <1>1, <1>3, <1>4 DEF OldChain

LEMMA NewSlotType ==
  ASSUME NEW k, CacheInv(k), NEW id \in Ids, NEW p \in Nat, NEW v \in Nat, NEW d \in BOOLEAN
  PROVE  NewSlot(k, id, p, v, d) \in Slot
  <1>1. objid_hash(id) \in 0 .. Width - 1
    BY CacheAssumption DEF objid_hash, Ids
  <1>2. QED
    BY <1>1 DEF NewSlot, Slot, CacheInv, Caches

LEMMA TouchType ==
  ASSUME NEW k \in Caches, NEW S, S \subseteq Slot
  PROVE  [k EXCEPT !.slots = S, !.n = @ + 1] \in Caches
  <1> DEFINE k1 == [k EXCEPT !.slots = S]
  <1>1. k1 \in Caches /\ k.n + 1 \in Nat
    BY DEF Caches
  <1>2. [k1 EXCEPT !.n = k.n + 1] \in Caches
    <2> HIDE DEF k1
    <2>1. QED
      BY <1>1 DEF Caches
  <1>3. QED
    BY <1>2

LEMMA ReplaceType ==
  ASSUME NEW k \in Caches, NEW S, S \subseteq Slot, NEW d \in [Ids -> Nat]
  PROVE  [k EXCEPT !.slots = S, !.n = @ + 1, !.db = d] \in Caches
  <1> DEFINE k1 == [k EXCEPT !.slots = S, !.n = @ + 1]
  <1>1. k1 \in Caches
    BY TouchType
  <1>2. [k1 EXCEPT !.db = d] \in Caches
    <2> HIDE DEF k1
    <2>1. QED
      BY <1>1 DEF Caches
  <1>3. QED
    BY <1>2

LEMMA ReplaceSwaps ==
  ASSUME NEW k, CacheInv(k), NEW id \in Ids, NEW p \in Nat \ {0}, NEW v \in Nat \ {0},
         NEW d \in BOOLEAN, d \/ v = k.db[id],
         \A s \in k.slots : s.oid # id,
         id <= Val(k, Sys), id = Sys => Val(k, Sys) <= v
  PROVE  Swaps(k, Replace(k, Tail(k, id), NewSlot(k, id, p, v, d)), id, Tail(k, id),
               NewSlot(k, id, p, v, d))
  <1> DEFINE x == NewSlot(k, id, p, v, d)
             T == Tail(k, id)
             j == Replace(k, T, x)
  <1>1. x \in Slot /\ x.oid = id /\ x.p = p /\ x.val = v /\ x.dirty = d /\ ~x.dead
    BY NewSlotType DEF NewSlot
  <1>2. T \subseteq k.slots /\ \A s \in T : ~Active(k, s)
    BY TailSlot
  <1>3. \A i \in Ids : j.db[i] = IF \E s \in T : s.oid = i /\ s.dirty
                                THEN Val(k, i) ELSE k.db[i]
    <2>1. CASE T = {}
      BY <2>1 DEF Replace
    <2>2. CASE T # {}
      <3>1. PICK t \in T : TRUE
        BY <2>2
      <3>2. T = {t} /\ First(T) = t /\ t \in k.slots
        BY <3>1, TailSlot
      <3>3. j.db = IF t.dirty /\ t.oid # Empty THEN [k.db EXCEPT ![t.oid] = t.val] ELSE k.db
        BY <2>2, <3>2 DEF Replace, Written, CacheInv, Caches
      <3>4. t.dirty /\ t.oid # Empty => t \in Live(k, t.oid) /\ t.oid \in Ids
        BY <3>2 DEF CacheInv, Caches, Slot, Mirrors, Live
      <3>5. t.dirty /\ t.oid # Empty => t.val = Val(k, t.oid)
        BY <3>4, LiveOne DEF CacheInv
      <3>6. \A i \in Ids : i # Empty
        BY DEF Ids, Empty
      <3>7. k.db \in [Ids -> Nat]
        BY DEF CacheInv, Caches
      <3>8. QED
        BY <3>2, <3>3, <3>4, <3>5, <3>6, <3>7
    <2>3. QED
      BY <2>1, <2>2
  <1>4. \A s \in T : s.oid # id
    BY <1>2
  <1>5. j.slots = (k.slots \ T) \cup {x} /\ j.mark = k.mark /\ j.n = k.n + 1
    BY DEF Replace, CacheInv, Caches
  <1>6. j \in Caches
    <2>1. (IF T = {} THEN k.db ELSE Written(k, First(T))) \in [Ids -> Nat]
      <3>1. \A t \in k.slots : t.val \in Nat
        BY DEF CacheInv, Caches, Slot
      <3>2. T # {} => First(T) \in k.slots
        BY TailSlot
      <3>3. QED
        BY <3>1, <3>2 DEF Written, CacheInv, Caches
    <2>2. k \in Caches /\ (k.slots \ T) \cup {x} \subseteq Slot
      BY <1>1 DEF CacheInv, Caches
    <2>3. QED
      BY <2>1, <2>2, ReplaceType DEF Replace
  <1>7. k.n <= j.n
    BY <1>5 DEF CacheInv, Caches
  <1> HIDE DEF x, T, j
  <1>8. Swaps(k, j, id, T, x)
    BY <1>1, <1>2, <1>3, <1>4, <1>5, <1>6, <1>7 DEF Swaps
  <1>9. QED
    BY <1>8 DEF x, T, j

LEMMA SwapReads ==
  ASSUME NEW k, NEW j, NEW id, NEW gone, NEW x, Swaps(k, j, id, gone, x),
         x.val = Val(k, id), Pins(k, j, id)
  PROVE  Reads(k, j)
  BY SwapVal, SwapInv, SwapFlushed, SwapPins DEF Reads

\* An object that exists is found, and its pointer is good.
LEMMA GetReads ==
  ASSUME NEW k, CacheInv(k), NEW id \in Ids
  PROVE  LET j == cache_get(k, id, TRUE)
         IN  Reads(k, j) /\ (Val(k, id) # 0 => Holds(j, id, Ptr(j, id)))
  <1> DEFINE j == cache_get(k, id, TRUE)
  <1>1. CASE Live(k, id) # {}
    <2>1. PICK s \in Live(k, id) : TRUE
      BY <1>1
    <2>2. Last(Live(k, id)) = s /\ Ptr(k, id) = s.p /\ Val(k, id) = s.val
      BY <2>1, LiveOne DEF CacheInv
    <2>3. s \in k.slots /\ s \in Slot /\ s.oid = id /\ ~s.dead /\ id # Empty
      BY <2>1 DEF Live, CacheInv, Caches, Ids, Empty
    <2>4. CASE Active(k, s)
      <3>1. j = k
        BY <1>1, <2>2, <2>4 DEF cache_get
      <3>2. Holds(k, id, Ptr(k, id))
        BY <2>1, <2>2, <2>4 DEF Holds
      <3>3. QED
        BY <3>1, <3>2, ReadsNothing
    <2>5. CASE ~Active(k, s)
      <3> DEFINE x == [s EXCEPT !.n = k.n]
      <3>1. j = Touch(k, s)
        BY <1>1, <2>2, <2>5 DEF cache_get
      <3>2. /\ x \in Slot /\ x.oid = id /\ ~x.dead /\ x.p = s.p /\ x.val = s.val
            /\ x.dirty = s.dirty /\ x.n = k.n
        BY <2>3 DEF Slot, CacheInv, Caches
      <3>3. /\ j.slots = (k.slots \ {s}) \cup {x} /\ j.mark = k.mark /\ j.db = k.db
            /\ j.n = k.n + 1
        BY <3>1 DEF Touch, CacheInv, Caches
      <3>4. j \in Caches
        <4>1. (k.slots \ {s}) \cup {x} \subseteq Slot
          BY <3>2 DEF CacheInv, Caches
        <4>2. k \in Caches
          BY DEF CacheInv
        <4>3. QED
          BY <3>1, <4>1, <4>2, TouchType DEF Touch
      <3>5. s.p # 0 /\ s.val # 0 /\ (s.dirty \/ s.val = k.db[id])
        BY <2>3 DEF CacheInv, Mirrors
      <3>6. \A t \in k.slots : t.oid = id => t = s
        BY <2>3 DEF CacheInv, Single
      <3>7. id <= Val(k, Sys) /\ (id = Sys => Val(k, Sys) <= s.val)
        BY <2>2, <2>3, <3>5, Below, ValType
      <3> HIDE DEF x, j
      <3>8. Swaps(k, j, id, {s}, x)
        <4>1. k.n <= j.n
          BY <3>3 DEF CacheInv, Caches
        <4>2. QED
          BY <2>3, <3>2, <3>3, <3>4, <3>5, <3>6, <3>7, <4>1 DEF Swaps
      <3>9. Holds(j, id, s.p)
        <4>1. k.mark < x.n
          BY <3>2 DEF CacheInv
        <4>2. QED
          BY <3>2, <3>8, <4>1, SwapPins
      <3>10. Ptr(j, id) = s.p
        <4>1. x \in Live(j, id)
          BY <3>2, <3>3 DEF Live
        <4>2. QED
          BY <3>2, <3>8, <4>1, SwapInv, LiveOne DEF CacheInv
      <3>11. Pins(k, j, id)
        <4>1. ASSUME NEW p \in Nat, Holds(k, id, p) PROVE FALSE
          BY <2>1, <2>5, <4>1, LiveOne DEF Holds, CacheInv
        <4>2. QED
          BY <4>1 DEF Pins
      <3>12. Reads(k, j)
        BY <2>2, <3>2, <3>8, <3>11, SwapReads
      <3>13. QED
        BY <3>9, <3>10, <3>12 DEF j
    <2>6. QED
      BY <2>4, <2>5
  <1>2. CASE Live(k, id) = {} /\ k.db[id] = 0
    <2>1. j = k
      BY <1>2 DEF cache_get
    <2>2. Val(k, id) = 0
      BY <1>2, LiveNone
    <2>3. QED
      BY <2>1, <2>2, ReadsNothing
  <1>3. CASE Live(k, id) = {} /\ k.db[id] # 0
    <2> DEFINE x == NewSlot(k, id, k.n, k.db[id], FALSE)
    <2>1. j = Replace(k, Tail(k, id), x)
      BY <1>3 DEF cache_get, Stuck
    <2>2. Val(k, id) = k.db[id]
      BY <1>3, LiveNone
    <2>3. id <= Val(k, Sys) /\ (id = Sys => Val(k, Sys) <= k.db[id])
      BY <1>3, <2>2, Below, ValType
    <2>4. k.n \in Nat \ {0} /\ k.db[id] \in Nat \ {0}
      BY <1>3 DEF CacheInv, Caches
    <2>5. \A s \in k.slots : s.oid # id
      <3>1. SUFFICES ASSUME NEW s \in k.slots, s.oid = id PROVE FALSE
        OBVIOUS
      <3>2. s.dead /\ id # Empty
        BY <1>3, <3>1 DEF Live, Ids, Empty
      <3>3. QED
        BY <1>3, <3>1, <3>2 DEF CacheInv, Mirrors
    <2>6. Swaps(k, j, id, Tail(k, id), x)
      BY <2>1, <2>3, <2>4, <2>5, ReplaceSwaps
    <2>7. x.val = Val(k, id) /\ x.n = k.n /\ x.p = k.n /\ x.oid = id /\ ~x.dead
      BY <2>2 DEF NewSlot
    <2> HIDE DEF x, j
    <2>8. Holds(j, id, x.p)
      BY <2>6, <2>7, SwapPins DEF CacheInv
    <2>9. Ptr(j, id) = x.p
      <3>1. x \in Live(j, id)
        BY <2>6, <2>7 DEF Live, Swaps
      <3>2. QED
        BY <2>6, <3>1, SwapInv, LiveOne DEF CacheInv
    <2>10. Pins(k, j, id)
      BY <1>3 DEF Pins, Holds
    <2>11. Reads(k, j)
      BY <2>6, <2>7, <2>10, SwapReads
    <2>12. QED
      BY <2>8, <2>9, <2>11 DEF j
  <1>4. QED
    BY <1>1, <1>2, <1>3

\* j is k after object id has been put with content v.
Puts(k, j, id, v) ==
    /\ CacheInv(j) /\ Flushed(k, j) /\ Buries(k, j)
    /\ \A i \in Ids : /\ Val(j, i) = IF i = id THEN v ELSE Val(k, i)
                      /\ i # id => Pins(k, j, i)

LEMMA SwapPuts ==
  ASSUME NEW k, NEW j, NEW id, NEW gone, NEW x, Swaps(k, j, id, gone, x)
  PROVE  Puts(k, j, id, x.val)
  BY SwapVal, SwapInv, SwapFlushed, SwapPins DEF Puts

\* What an object is put into is not left of one that was destroyed.
PutOK(k, id, p, v) ==
    /\ CacheInv(k) /\ id \in Ids /\ p \in Nat \ {0} /\ v \in Nat \ {0}
    /\ id <= Val(k, Sys) /\ (id = Sys => Val(k, Sys) <= v)
    /\ \A s \in k.slots : s.oid = id => ~s.dead

LEMMA PutPuts ==
  ASSUME NEW k, NEW id, NEW p, NEW v, PutOK(k, id, p, v)
  PROVE  LET j == cache_put(k, id, p, v, TRUE)
         IN  Puts(k, j, id, v) /\ \A q \in Nat : Holds(k, id, q) => Holds(j, id, p)
  <1> DEFINE j == cache_put(k, id, p, v, TRUE)
  <1>1. CASE PutHits(k, id) # {}
    <2>1. PICK s \in Live(k, id) : TRUE
      BY <1>1 DEF PutHits, Live, PutOK
    <2>2. s \in k.slots /\ s \in Slot /\ s.oid = id /\ ~s.dead /\ id # Empty
      BY <2>1 DEF Live, PutOK, CacheInv, Caches, Ids, Empty
    <2>3. Last(PutHits(k, id)) = s
      <3>1. PutHits(k, id) = Live(k, id)
        BY DEF PutHits, Live, PutOK
      <3>2. QED
        BY <3>1, <2>1, LiveOne DEF PutOK, CacheInv
    <2> DEFINE x == [s EXCEPT !.p = p, !.val = v, !.dirty = TRUE]
    <2>4. j = [k EXCEPT !.slots = (@ \ {s}) \cup {x}]
      BY <1>1, <2>3 DEF cache_put
    <2>5. x \in Slot /\ x.oid = id /\ ~x.dead /\ x.p = p /\ x.val = v /\ x.dirty /\ x.n = s.n
      BY <2>2 DEF Slot, PutOK
    <2>6. (k.slots \ {s}) \cup {x} \subseteq Slot
      BY <2>5 DEF PutOK, CacheInv, Caches
    <2> HIDE DEF x
    <2>7. j \in Caches
      BY <2>4, <2>6 DEF PutOK, CacheInv, Caches
    <2>8. j.slots = (k.slots \ {s}) \cup {x} /\ j.mark = k.mark /\ j.db = k.db /\ j.n = k.n
      BY <2>4 DEF PutOK, CacheInv, Caches
    <2>9. \A t \in k.slots : t.oid = id => t = s
      BY <2>2 DEF PutOK, CacheInv, Single
    <2> HIDE DEF j
    <2>10. Swaps(k, j, id, {s}, x)
      <3>1. k.n <= j.n
        BY <2>8 DEF PutOK, CacheInv, Caches
      <3>2. QED
        BY <2>2, <2>5, <2>7, <2>8, <2>9, <3>1 DEF Swaps, PutOK
    <2>11. ASSUME NEW q \in Nat, Holds(k, id, q) PROVE Holds(j, id, p)
      <3>1. k.mark < x.n
        BY <2>1, <2>5, <2>11, LiveOne DEF Holds, Active, PutOK, CacheInv, Caches, Slot
      <3>2. QED
        BY <2>5, <2>10, <3>1, SwapPins DEF PutOK
    <2>12. QED
      BY <2>5, <2>10, <2>11, SwapPuts DEF j
  <1>2. CASE PutHits(k, id) = {}
    <2> DEFINE x == NewSlot(k, id, p, v, TRUE)
    <2>1. j = Replace(k, Tail(k, id), x)
      BY <1>2 DEF cache_put, Stuck
    <2>2. \A s \in k.slots : s.oid # id
      BY <1>2 DEF PutHits
    <2>3. Swaps(k, j, id, Tail(k, id), x)
      BY <2>1, <2>2, ReplaceSwaps DEF PutOK
    <2>4. x.val = v
      BY DEF NewSlot
    <2>5. \A q \in Nat : ~Holds(k, id, q)
      BY <2>2 DEF Holds, Live
    <2> HIDE DEF x, j
    <2>6. Puts(k, j, id, v)
      BY <2>3, <2>4, SwapPuts
    <2>7. QED
      BY <2>5, <2>6 DEF j
  <1>3. QED
    BY <1>1, <1>2

-----------------------------------------------------------------------------
(* storage.c.                                                              *)

\* j is k after object id has become one of content v: in the meantime any object
\* may have been written to the database.
Assigns(k, j, id, v) ==
    /\ CacheInv(j) /\ Buries(k, j)
    /\ \A i \in Ids : /\ Val(j, i) = IF i = id THEN v ELSE Val(k, i)
                      /\ j.db[i] \in {k.db[i], Val(k, i), Val(j, i)}
                      /\ i # id => Pins(k, j, i)

LEMMA ReadsPuts ==
  ASSUME NEW k, NEW j, NEW l, NEW id, NEW v, Reads(k, j), Puts(j, l, id, v)
  PROVE  Puts(k, l, id, v)
  BY DEF Reads, Puts, Flushed, Buries, Pins

LEMMA PutsReads ==
  ASSUME NEW k, NEW j, NEW l, NEW id, NEW v, Puts(k, j, id, v), Reads(j, l)
  PROVE  Assigns(k, l, id, v)
  <1>1. ASSUME NEW i \in Ids
        PROVE  /\ Val(l, i) = IF i = id THEN v ELSE Val(k, i)
               /\ l.db[i] \in {k.db[i], Val(k, i), Val(l, i)}
    BY DEF Reads, Puts, Flushed
  <1>2. \A i \in Ids : i # id => Pins(k, l, i)
    BY DEF Reads, Puts, Pins
  <1>3. CacheInv(l) /\ Buries(k, l)
    BY DEF Reads, Puts, Buries
  <1>4. QED
    BY <1>1, <1>2, <1>3 DEF Assigns

\* The system object is always found.
LEMMA SysFound ==
  ASSUME NEW k, CacheInv(k)
  PROVE  LET j == cache_get(k, Sys, TRUE)
         IN  /\ Reads(k, j) /\ Ptr(j, Sys) \in Nat \ {0} /\ Live(j, Sys) # {}
             /\ dbtop(j) = Val(k, Sys) /\ Val(j, Sys) = Val(k, Sys) /\ Sys \in Ids
  <1> DEFINE j == cache_get(k, Sys, TRUE)
  <1>1. Sys \in Ids /\ Val(k, Sys) # 0
    BY CacheAssumption DEF CacheInv, BelowTop, Sys, Ids
  <1>2. Reads(k, j) /\ Holds(j, Sys, Ptr(j, Sys))
    BY <1>1, GetReads
  <1> HIDE DEF j
  <1>3. Live(j, Sys) # {}
    BY <1>2 DEF Holds
  <1>4. Ptr(j, Sys) \in Nat \ {0}
    BY <1>1, <1>2, <1>3, ValType DEF Reads
  <1>5. dbtop(j) = Val(j, Sys) /\ Val(j, Sys) = Val(k, Sys)
    BY <1>1, <1>2, <1>4 DEF dbtop, Reads
  <1>6. QED
    BY <1>1, <1>2, <1>3, <1>4, <1>5 DEF j

\* Nothing is left of another object with the number of one that exists.
LEMMA NotDead ==
  ASSUME NEW k, CacheInv(k), NEW id \in Ids, Val(k, id) # 0
  PROVE  \A s \in k.slots : s.oid = id => ~s.dead
  <1> SUFFICES ASSUME NEW s \in k.slots, s.oid = id, s.dead PROVE FALSE
    OBVIOUS
  <1>1. id # Empty
    BY DEF Ids, Empty
  <1>2. Live(k, id) = {}
    BY <1>1 DEF CacheInv, Single, Live
  <1>3. k.db[id] # 0
    BY <1>2, LiveNone
  <1>4. QED
    BY <1>1, <1>3 DEF CacheInv, Mirrors

LEMMA SetTop ==
  ASSUME NEW k, CacheInv(k), NEW top \in Nat, Val(k, Sys) <= top
  PROVE  /\ Puts(k, set_dbtop(k, top, TRUE), Sys, top)
         /\ Pins(k, set_dbtop(k, top, TRUE), Sys)
  <1> DEFINE j == cache_get(k, Sys, TRUE)
             l == cache_put(j, Sys, Ptr(j, Sys), top, TRUE)
  <1>1. /\ Reads(k, j) /\ Ptr(j, Sys) \in Nat \ {0} /\ Sys \in Ids
        /\ Val(j, Sys) = Val(k, Sys)
    BY SysFound
  <1>2. set_dbtop(k, top, TRUE) = l
    BY <1>1 DEF set_dbtop
  <1> HIDE DEF j
  <1>3. PutOK(j, Sys, Ptr(j, Sys), top)
    <2>1. CacheInv(j) /\ Val(j, Sys) # 0 /\ Val(j, Sys) \in Nat
      BY <1>1, ValType DEF Reads, CacheInv, BelowTop
    <2>2. \A s \in j.slots : s.oid = Sys => ~s.dead
      BY <1>1, <2>1, NotDead
    <2>3. QED
      BY <1>1, <2>1, <2>2 DEF PutOK, Sys
  <1>4. Puts(j, l, Sys, top) /\ \A q \in Nat : Holds(j, Sys, q) => Holds(l, Sys, Ptr(j, Sys))
    BY <1>3, PutPuts
  <1>5. ASSUME NEW p \in Nat, Holds(k, Sys, p) PROVE Holds(l, Sys, p)
    <2>1. Holds(j, Sys, p)
      BY <1>1, <1>5 DEF Reads, Pins
    <2>2. Ptr(j, Sys) = p
      BY <1>1, <2>1, LiveOne DEF Holds, Reads, CacheInv
    <2>3. QED
      BY <1>4, <2>1, <2>2
  <1>6. QED
    BY <1>1, <1>2, <1>4, <1>5, ReadsPuts DEF Pins

\* Memory for the new object comes from a serial of its own.
LEMMA Serial ==
  ASSUME NEW k, NEW old, Reads(k, old)
  PROVE  Reads(k, [old EXCEPT !.n = @ + 1])
  <1> DEFINE b == [old EXCEPT !.n = @ + 1]
  <1>1. old \in Caches
    BY DEF Reads, CacheInv
  <1>2. b \in Caches /\ b.slots = old.slots /\ b.mark = old.mark /\ b.db = old.db /\ b.n = old.n + 1
    BY <1>1 DEF Caches
  <1> HIDE DEF b
  <1>3. \A i : Live(b, i) = Live(old, i) /\ Val(b, i) = Val(old, i)
    BY <1>2 DEF Live, Val
  <1>4. CacheInv(b)
    <2>1. b.mark < b.n
      BY <1>1, <1>2 DEF Reads, CacheInv, Caches
    <2>2. Single(b) /\ Mirrors(b)
      BY <1>2 DEF Reads, CacheInv, Single, Mirrors
    <2>3. BelowTop(b)
      BY <1>2, <1>3 DEF Reads, CacheInv, BelowTop
    <2>4. QED
      BY <1>2, <2>1, <2>2, <2>3 DEF CacheInv
  <1>5. Flushed(k, b) /\ Buries(k, b)
    BY <1>2 DEF Reads, Flushed, Buries
  <1>6. \A i \in Ids : Val(b, i) = Val(k, i) /\ Pins(k, b, i)
    BY <1>2, <1>3 DEF Reads, Pins, Holds, Active
  <1>7. QED
    BY <1>4, <1>5, <1>6 DEF Reads, b

LEMMA AssignAssigns ==
  ASSUME NEW k, CacheInv(k), NEW id \in Ids \ {Sys}, NEW v \in Nat \ {0}, id <= Val(k, Sys),
         \A s \in k.slots : s.oid = id => ~s.dead
  PROVE  Assigns(k, assign_object(k, id, v, TRUE), id, v)
  <1> DEFINE old == cache_get(k, id, TRUE)
             b == [old EXCEPT !.n = @ + 1]
             l == cache_put(b, id, old.n, v, TRUE)
             j == cache_get(l, Sys, TRUE)
  <1>1. Reads(k, old)
    BY GetReads
  <1>2. Reads(k, b)
    BY <1>1, Serial
  <1>3. old.n \in Nat \ {0}
    <2> HIDE DEF old
    <2>1. old \in Caches /\ old.mark < old.n
      BY <1>1 DEF Reads, CacheInv
    <2>2. QED
      BY <2>1 DEF Caches
  <1> HIDE DEF old, b
  <1>4. PutOK(b, id, old.n, v)
    <2>1. Val(b, Sys) = Val(k, Sys)
      BY <1>2, CacheAssumption DEF Reads, Sys, Ids
    <2>2. \A s \in b.slots : s.oid = id => ~s.dead
      BY <1>2 DEF Reads, Buries
    <2>3. QED
      BY <1>2, <1>3, <2>1, <2>2 DEF PutOK, Reads
  <1>5. Puts(b, l, id, v)
    BY <1>4, PutPuts
  <1>6. Puts(k, l, id, v)
    BY <1>2, <1>5, ReadsPuts
  <1>7. Reads(l, j) /\ dbtop(j) = Val(l, Sys) /\ Sys \in Ids
    BY <1>6, SysFound DEF Puts
  <1> HIDE DEF l
  <1>8. Assigns(k, j, id, v)
    BY <1>6, <1>7, PutsReads
  <1> HIDE DEF j
  <1>9. ~AboveTop(j, id)
    <2>1. dbtop(j) = Val(k, Sys)
      BY <1>6, <1>7 DEF Puts
    <2>2. Val(k, Sys) \in Nat
      BY <1>7, ValType
    <2>3. id \in Nat
      BY CacheAssumption DEF Ids
    <2>4. ~(id > Val(k, Sys))
      BY <2>2, <2>3
    <2>5. QED
      BY <2>1, <2>4 DEF AboveTop
  <1>10. assign_object(k, id, v, TRUE) = j
    BY <1>9 DEF assign_object, old, b, l, j
  <1>11. QED
    BY <1>8, <1>10

\* The new object gets the number above dbtop, and dbtop follows.
Clones(k, j, new) ==
    /\ CacheInv(j)
    /\ \A i \in Ids : /\ Val(j, i) = IF i = new THEN 1 ELSE IF i = Sys THEN new ELSE Val(k, i)
                      /\ j.db[i] \in {k.db[i], Val(k, i), Val(j, i)}
                      /\ i # new /\ i # Sys => Pins(k, j, i)

LEMMA CloneClones ==
  ASSUME NEW k, CacheInv(k), NEW new \in Ids, new = Val(k, Sys) + 1
  PROVE  /\ NewTop(cache_get(k, Sys, TRUE)) = new
         /\ Clones(k, clone(k, TRUE), new)
         /\ \A p \in Nat : Holds(k, Sys, p) => Holds(clone(k, TRUE), Sys, p)
  <1> DEFINE j == cache_get(k, Sys, TRUE)
             l == set_dbtop(j, new, TRUE)
             m == assign_object(l, new, 1, TRUE)
  <1>1. /\ Reads(k, j) /\ dbtop(j) = Val(k, Sys) /\ Val(j, Sys) = Val(k, Sys)
        /\ Sys \in Ids /\ Val(k, Sys) \in Nat /\ Val(k, Sys) # 0
    BY SysFound, ValType DEF CacheInv, BelowTop
  <1>2. NewTop(j) = new /\ clone(k, TRUE) = m
    BY <1>1 DEF NewTop, clone
  <1> HIDE DEF j
  <1>11. new \in Nat /\ new # Sys /\ Val(k, Sys) <= new
    BY <1>1 DEF Sys
  <1>3. Puts(j, l, Sys, new) /\ Pins(j, l, Sys)
    BY <1>1, <1>11, SetTop DEF Reads
  <1>4. Puts(k, l, Sys, new)
    BY <1>1, <1>3, ReadsPuts
  <1>5. \A s \in l.slots : s.oid = new => ~s.dead
    <2>1. SUFFICES ASSUME NEW s \in l.slots, s.oid = new, s.dead PROVE FALSE
      OBVIOUS
    <2>2. s \in k.slots
      BY <1>4, <2>1 DEF Puts, Buries
    <2>3. new # Empty
      BY DEF Ids, Empty
    <2>4. new <= Val(k, Sys)
      BY <2>1, <2>2, <2>3 DEF CacheInv, BelowTop
    <2>5. QED
      BY <1>1, <2>4
  <1>6. new # Sys /\ Val(l, Sys) = new /\ CacheInv(l)
    BY <1>1, <1>11, <1>4 DEF Puts
  <1> HIDE DEF l
  <1>7. Assigns(l, m, new, 1)
    <2>1. new \in Ids \ {Sys} /\ 1 \in Nat \ {0} /\ new <= Val(l, Sys)
      BY <1>11, <1>6
    <2>2. QED
      BY <1>5, <1>6, <2>1, AssignAssigns
  <1> HIDE DEF m
  <1>8. ASSUME NEW i \in Ids
        PROVE  /\ Val(m, i) = IF i = new THEN 1 ELSE IF i = Sys THEN new ELSE Val(k, i)
               /\ m.db[i] \in {k.db[i], Val(k, i), Val(m, i)}
               /\ i # new /\ i # Sys => Pins(k, m, i)
    <2>1. l.db[i] \in {k.db[i], Val(k, i)} /\ Val(l, i) = IF i = Sys THEN new ELSE Val(k, i)
      BY <1>4 DEF Puts, Flushed
    <2>2. /\ Val(m, i) = IF i = new THEN 1 ELSE Val(l, i)
          /\ m.db[i] \in {l.db[i], Val(l, i), Val(m, i)}
      BY <1>7 DEF Assigns
    <2>3. CASE i = new
      <3>1. Val(l, i) = Val(k, i)
        BY <1>6, <2>1, <2>3
      <3>2. QED
        BY <2>1, <2>2, <2>3, <3>1
    <2>4. CASE i # new
      <3>1. i # Sys => Pins(k, m, i)
        BY <1>4, <1>7, <2>4 DEF Puts, Assigns, Pins
      <3>2. QED
        BY <2>1, <2>2, <2>4, <3>1
    <2>5. QED
      BY <2>3, <2>4
  <1>9. ASSUME NEW p \in Nat, Holds(k, Sys, p) PROVE Holds(m, Sys, p)
    BY <1>1, <1>3, <1>6, <1>7, <1>9 DEF Reads, Assigns, Pins
  <1>10. QED
    BY <1>1, <1>2, <1>7, <1>8, <1>9 DEF Clones, Assigns, j

-----------------------------------------------------------------------------
(* Destruction, dump(), the end of a round, and the start of the server.   *)

LEMMA DelDeletes ==
  ASSUME NEW k, CacheInv(k), NEW id \in Ids \ {Sys}
  PROVE  LET j == cache_del(k, id)
         IN  /\ CacheInv(j) /\ j.db = [k.db EXCEPT ![id] = 0]
             /\ \A i \in Ids : Val(j, i) = IF i = id THEN 0 ELSE Val(k, i)
  <1> DEFINE Killed(s) == IF s.oid = id THEN [s EXCEPT !.dead = TRUE, !.dirty = FALSE] ELSE s
             S == {Killed(s) : s \in k.slots}
             j == cache_del(k, id)
  <1>1. k \in Caches /\ id # Empty
    BY DEF CacheInv, Ids, Empty
  <1>2. j.slots = S /\ j.db = [k.db EXCEPT ![id] = 0] /\ j.n = k.n /\ j.mark = k.mark
    BY <1>1 DEF cache_del, Caches
  <1>3. \A s \in k.slots : /\ Killed(s) \in Slot /\ Killed(s).oid = s.oid
                           /\ s.oid = id => Killed(s).dead /\ ~Killed(s).dirty
                           /\ s.oid # id => Killed(s) = s
    BY <1>1 DEF Caches, Slot
  <1>4. j \in Caches
    <2>1. S \in SUBSET Slot
      BY <1>3
    <2>2. [k.db EXCEPT ![id] = 0] \in [Ids -> Nat]
      BY <1>1 DEF Caches
    <2>3. j = [k EXCEPT !.slots = S, !.db[id] = 0]
      BY DEF cache_del
    <2> HIDE DEF Killed, S, j
    <2> DEFINE l == [k EXCEPT !.slots = S]
    <2>4. l \in Caches /\ [l EXCEPT !.db = [k.db EXCEPT ![id] = 0]] = j
      BY <1>1, <2>1, <2>3 DEF Caches
    <2> HIDE DEF l
    <2>5. QED
      BY <2>2, <2>4 DEF Caches
  <1>5. \A t \in j.slots : \E s \in k.slots : t = Killed(s)
    BY <1>2
  <1> HIDE DEF Killed, S, j
  <1>6. Single(j)
    BY <1>3, <1>5 DEF Single, CacheInv
  <1>7. Live(j, id) = {} /\ \A i \in Ids : i # id => Live(j, i) = Live(k, i)
    <2>1. Live(j, id) = {}
      BY <1>3, <1>5 DEF Live
    <2>2. ASSUME NEW i \in Ids, i # id PROVE Live(j, i) = Live(k, i)
      <3>1. Live(j, i) \subseteq Live(k, i)
        BY <1>3, <1>5, <2>2 DEF Live
      <3>2. \A s \in k.slots : Killed(s) \in j.slots
        BY <1>2 DEF S
      <3>3. Live(k, i) \subseteq Live(j, i)
        BY <1>3, <3>2, <2>2 DEF Live
      <3>4. QED
        BY <3>1, <3>3
    <2>3. QED
      BY <2>1, <2>2
  <1>8. \A i \in Ids : Val(j, i) = IF i = id THEN 0 ELSE Val(k, i)
    BY <1>1, <1>2, <1>7 DEF Val, Caches
  <1>9. Mirrors(j)
    <2> SUFFICES ASSUME NEW t \in j.slots
                 PROVE  /\ t.oid = Empty => ~t.dirty /\ ~t.dead
                        /\ t.oid # Empty /\ t.dead => ~t.dirty /\ j.db[t.oid] = 0
                        /\ t.oid # Empty /\ ~t.dead =>
                             t.p # 0 /\ t.val # 0 /\ (t.dirty \/ j.db[t.oid] = t.val)
      BY DEF Mirrors
    <2>1. PICK s \in k.slots : t = Killed(s)
      BY <1>5
    <2>2. CASE s.oid = id
      BY <1>1, <1>2, <1>3, <2>1, <2>2 DEF Caches
    <2>3. CASE s.oid # id
      <3>1. t = s /\ t.oid \in Ids \cup {Empty}
        BY <1>3, <2>1, <2>3 DEF Slot
      <3>2. t.oid # Empty => j.db[t.oid] = k.db[t.oid]
        BY <1>1, <1>2, <2>3, <3>1 DEF Caches
      <3>3. QED
        BY <3>1, <3>2 DEF CacheInv, Mirrors
    <2>4. QED
      BY <2>2, <2>3
  <1>10. BelowTop(j)
    <2>1. Val(j, Sys) = Val(k, Sys)
      BY <1>8, CacheAssumption DEF Sys, Ids
    <2>2. \A i \in Ids : j.db[i] # 0 => k.db[i] # 0
      BY <1>1, <1>2 DEF Caches
    <2>3. \A t \in j.slots : \E s \in k.slots : t.oid = s.oid
      BY <1>3, <1>5
    <2>4. QED
      BY <2>1, <2>2, <2>3 DEF BelowTop, CacheInv
  <1>11. CacheInv(j)
    BY <1>2, <1>4, <1>6, <1>9, <1>10 DEF CacheInv
  <1>12. QED
    BY <1>2, <1>8, <1>11 DEF j

LEMMA SyncDumps ==
  ASSUME NEW k, CacheInv(k), NEW T, T \in Syncs(k, TRUE)
  PROVE  LET j == cache_sync(k, T)
         IN  /\ CacheInv(j) /\ j.db = [i \in Ids |-> Val(k, i)]
             /\ \A i \in Ids : Val(j, i) = Val(k, i) /\ Pins(k, j, i)
  <1> DEFINE Clean(s) == IF s \in T THEN [s EXCEPT !.dirty = FALSE] ELSE s
             S == {Clean(s) : s \in k.slots}
             d == [id \in Ids |-> IF \E s \in T : s.oid = id
                                  THEN (CHOOSE s \in T : s.oid = id).val ELSE k.db[id]]
             j == cache_sync(k, T)
  <1>1. k \in Caches /\ T = {s \in k.slots : s.dirty}
    BY DEF CacheInv, Syncs
  <1>2. j.slots = S /\ j.db = d /\ j.n = k.n /\ j.mark = k.mark
    BY <1>1 DEF cache_sync, Caches
  <1>3. \A s \in k.slots :
           /\ Clean(s) \in Slot /\ ~Clean(s).dirty
           /\ Clean(s).oid = s.oid /\ Clean(s).dead = s.dead /\ Clean(s).p = s.p
           /\ Clean(s).val = s.val /\ Clean(s).n = s.n
    BY <1>1 DEF Caches, Slot
  <1>4. \A i \in Ids : d[i] = Val(k, i)
    <2> SUFFICES ASSUME NEW i \in Ids PROVE d[i] = Val(k, i)
      OBVIOUS
    <2>1. CASE \E s \in T : s.oid = i
      <3> DEFINE s == CHOOSE s \in T : s.oid = i
      <3>1. s \in T /\ s.oid = i
        BY <2>1
      <3>2. s \in Live(k, i)
        BY <1>1, <3>1 DEF CacheInv, Mirrors, Live, Ids, Empty
      <3>3. Val(k, i) = s.val
        BY <3>2, LiveOne DEF CacheInv
      <3>4. QED
        BY <2>1, <3>3
    <2>2. CASE ~ \E s \in T : s.oid = i
      <3>1. d[i] = k.db[i]
        BY <2>2
      <3>2. CASE Live(k, i) = {}
        BY <3>1, <3>2, LiveNone
      <3>3. CASE Live(k, i) # {}
        <4>1. PICK s \in Live(k, i) : TRUE
          BY <3>3
        <4>2. Val(k, i) = s.val
          BY <4>1, LiveOne DEF CacheInv
        <4>3. ~s.dirty
          BY <1>1, <2>2, <4>1 DEF Live
        <4>4. s.val = k.db[i]
          BY <4>1, <4>3 DEF CacheInv, Mirrors, Live, Ids, Empty
        <4>5. QED
          BY <3>1, <4>2, <4>4
      <3>4. QED
        BY <3>2, <3>3
    <2>3. QED
      BY <2>1, <2>2
  <1>5. d = [i \in Ids |-> Val(k, i)]
    BY <1>4
  <1>6. \A i \in Ids : Val(k, i) \in Nat
    BY ValType
  <1>7. j \in Caches
    <2>1. S \in SUBSET Slot
      BY <1>3
    <2>2. d \in [Ids -> Nat]
      BY <1>5, <1>6
    <2>3. j = [k EXCEPT !.slots = S, !.db = d]
      BY DEF cache_sync
    <2> HIDE DEF Clean, S, d, j
    <2> DEFINE l == [k EXCEPT !.slots = S]
    <2>4. l \in Caches /\ [l EXCEPT !.db = d] = j
      BY <1>1, <2>1, <2>3 DEF Caches
    <2> HIDE DEF l
    <2>5. QED
      BY <2>2, <2>4 DEF Caches
  <1>8. \A t \in j.slots : \E s \in k.slots : t = Clean(s)
    BY <1>2
  <1>9. \A s \in k.slots : Clean(s) \in j.slots
    BY <1>2
  <1> HIDE DEF Clean, S, d, j
  <1>10. Single(j)
    BY <1>3, <1>8 DEF Single, CacheInv
  <1>11. ASSUME NEW i \in Ids PROVE Val(j, i) = Val(k, i) /\ Pins(k, j, i)
    <2>1. CASE Live(k, i) = {}
      <3>1. Live(j, i) = {}
        BY <1>3, <1>8, <2>1 DEF Live
      <3>2. QED
        BY <1>2, <1>4, <2>1, <3>1, LiveNone DEF Pins, Holds
    <2>2. CASE Live(k, i) # {}
      <3>1. PICK s \in Live(k, i) : TRUE
        BY <2>2
      <3>2. s \in k.slots /\ Clean(s) \in Live(j, i)
        BY <1>3, <1>9, <3>1 DEF Live
      <3>3. Val(j, i) = Val(k, i)
        BY <1>3, <1>10, <1>7, <3>1, <3>2, LiveOne DEF CacheInv
      <3>4. ASSUME NEW p \in Nat, Holds(k, i, p) PROVE Holds(j, i, p)
        <4>1. s.p = p /\ Active(k, s)
          BY <3>1, <3>4, LiveOne DEF Holds, CacheInv
        <4>2. Clean(s).p = p /\ Active(j, Clean(s))
          BY <1>2, <1>3, <3>2, <4>1 DEF Active
        <4>3. QED
          BY <3>2, <4>2 DEF Holds
      <3>5. QED
        BY <3>3, <3>4 DEF Pins
    <2>3. QED
      BY <2>1, <2>2
  <1>12. Mirrors(j)
    <2> SUFFICES ASSUME NEW t \in j.slots
                 PROVE  /\ t.oid = Empty => ~t.dirty /\ ~t.dead
                        /\ t.oid # Empty /\ t.dead => ~t.dirty /\ j.db[t.oid] = 0
                        /\ t.oid # Empty /\ ~t.dead =>
                             t.p # 0 /\ t.val # 0 /\ (t.dirty \/ j.db[t.oid] = t.val)
      BY DEF Mirrors
    <2>1. PICK s \in k.slots : t = Clean(s)
      BY <1>8
    <2>2. t.oid = s.oid /\ t.dead = s.dead /\ t.p = s.p /\ t.val = s.val /\ ~t.dirty
      BY <1>3, <2>1
    <2>3. s.oid \in Ids \cup {Empty}
      BY <1>1 DEF Caches, Slot
    <2>4. CASE s.oid # Empty /\ ~s.dead
      <3>1. s \in Live(k, s.oid)
        BY <2>4 DEF Live
      <3>2. j.db[s.oid] = s.val
        BY <1>2, <1>4, <2>3, <2>4, <3>1, LiveOne DEF CacheInv
      <3>3. QED
        BY <2>2, <2>4, <3>2 DEF CacheInv, Mirrors
    <2>5. CASE s.oid # Empty /\ s.dead
      <3>1. Live(k, s.oid) = {} /\ k.db[s.oid] = 0
        BY <2>5 DEF CacheInv, Single, Mirrors, Live
      <3>2. j.db[s.oid] = 0
        BY <1>2, <1>4, <2>3, <2>5, <3>1, LiveNone
      <3>3. QED
        BY <2>2, <2>5, <3>2
    <2>6. CASE s.oid = Empty
      BY <2>2, <2>6 DEF CacheInv, Mirrors
    <2>7. QED
      BY <2>4, <2>5, <2>6
  <1>13. BelowTop(j)
    <2>1. Sys \in Ids
      BY CacheAssumption DEF Sys, Ids
    <2>2. Val(j, Sys) = Val(k, Sys)
      BY <1>11, <2>1
    <2>3. \A i \in Ids : j.db[i] # 0 => i <= Val(k, Sys)
      BY <1>2, <1>4, Below
    <2>4. \A t \in j.slots : \E s \in k.slots : t.oid = s.oid
      BY <1>3, <1>8
    <2>5. QED
      BY <2>2, <2>3, <2>4 DEF BelowTop, CacheInv
  <1>14. CacheInv(j)
    BY <1>1, <1>2, <1>7, <1>10, <1>12, <1>13 DEF CacheInv, Caches
  <1>15. QED
    BY <1>2, <1>5, <1>11, <1>14 DEF j

LEMMA ResetKeeps ==
  ASSUME NEW k, CacheInv(k)
  PROVE  LET j == cache_reset(k)
         IN  CacheInv(j) /\ j.db = k.db /\ \A i \in Ids : Val(j, i) = Val(k, i)
  <1> DEFINE j == cache_reset(k)
  <1>1. k \in Caches /\ k.n - 1 \in Nat
    BY DEF CacheInv, Caches
  <1>2. j \in Caches /\ j.slots = k.slots /\ j.db = k.db /\ j.n = k.n /\ j.mark = k.n - 1
    BY <1>1 DEF cache_reset, Caches
  <1> HIDE DEF j
  <1>3. \A i : Val(j, i) = Val(k, i)
    BY <1>2 DEF Val, Live
  <1>4. CacheInv(j)
    <2>1. j.mark < j.n
      BY <1>1, <1>2 DEF Caches
    <2>2. Single(j) /\ Mirrors(j)
      BY <1>2 DEF CacheInv, Single, Mirrors
    <2>3. BelowTop(j)
      BY <1>2, <1>3 DEF CacheInv, BelowTop
    <2>4. QED
      BY <1>2, <2>1, <2>2, <2>3 DEF CacheInv
  <1>5. QED
    BY <1>2, <1>3, <1>4 DEF j

\* cache_init() makes slots.
LEMMA InitSlotsType ==
  InitSlots \subseteq Slot
  <1>1. ASSUME NEW h \in 0 .. Width - 1, NEW i \in 0 .. Depth - 1
        PROVE  1 + h * Depth + i \in Nat
    <2>1. h \in Nat /\ Depth \in Nat /\ i \in Nat
      BY CacheAssumption
    <2>2. h * Depth \in Nat
      BY <2>1
    <2>3. QED
      BY <2>1, <2>2
  <1>2. \A n \in Nat, h \in 0 .. Width - 1 :
           [n |-> n, h |-> h, oid |-> Empty, p |-> 0, val |-> 0,
            dirty |-> FALSE, dead |-> FALSE] \in Slot
    BY DEF Slot
  <1>3. SUFFICES ASSUME NEW s \in InitSlots PROVE s \in Slot
    OBVIOUS
  <1>4. PICK h \in 0 .. Width - 1, i \in 0 .. Depth - 1 :
           s = [n |-> 1 + h * Depth + i, h |-> h, oid |-> Empty, p |-> 0, val |-> 0,
                dirty |-> FALSE, dead |-> FALSE]
    BY <1>3 DEF InitSlots
  <1>5. QED
    BY <1>1, <1>2, <1>4

\* The server starts from a database in which no object has a number above dbtop.
LEMMA InitCache ==
  ASSUME NEW db \in [Ids -> Nat], db[Sys] # 0, \A i \in Ids : db[i] # 0 => i <= db[Sys]
  PROVE  LET j == cache_init(db)
         IN  CacheInv(j) /\ j.db = db /\ \A i \in Ids : Val(j, i) = db[i]
  <1> DEFINE j == cache_init(db)
  <1>1. Sys \in Ids /\ \A i \in Ids : i # Empty
    BY CacheAssumption DEF Sys, Ids, Empty
  <1>2. \A s \in InitSlots : s.oid = Empty /\ ~s.dirty /\ ~s.dead
    BY DEF InitSlots
  <1>3. InitSlots \subseteq Slot
    BY InitSlotsType
  <1>4. Width * Depth \in Nat
    BY CacheAssumption
  <1>5. /\ j \in Caches /\ j.mark < j.n /\ j.slots = InitSlots /\ j.db = db
    BY <1>3, <1>4 DEF cache_init, Caches
  <1> HIDE DEF j
  <1>6. \A i \in Ids : Live(j, i) = {}
    BY <1>1, <1>2, <1>5 DEF Live
  <1>7. \A i \in Ids : Val(j, i) = db[i]
    BY <1>5, <1>6 DEF Val
  <1>8. CacheInv(j)
    <2>1. Single(j) /\ Mirrors(j)
      BY <1>2, <1>5 DEF Single, Mirrors
    <2>2. BelowTop(j)
      BY <1>1, <1>2, <1>5, <1>7 DEF BelowTop
    <2>3. QED
      BY <1>5, <2>1, <2>2 DEF CacheInv
  <1>9. QED
    BY <1>5, <1>7, <1>8 DEF j

-----------------------------------------------------------------------------
(* The actions: what each does to the cache, and that it keeps IInv.       *)

\* The object of a running method exists.
LEMMA MeExists ==
  ASSUME IInv, Running
  PROVE  /\ me \in Ids /\ Val(c, me) \in Nat \ {0} /\ this \in Nat \ {0}
         /\ me <= Val(c, Sys) /\ Sys \in Ids /\ Val(c, Sys) \in Nat
  <1>1. me \in Ids /\ Holds(c, me, this) /\ CacheInv(c) /\ Sys \in Ids
    BY CacheAssumption DEF IInv, Running, Sys, Ids
  <1>2. PICK s \in Live(c, me) : s.p = this
    BY <1>1 DEF Holds
  <1>3. Val(c, me) \in Nat \ {0} /\ this \in Nat \ {0}
    BY <1>1, <1>2, ValType, LiveOne DEF CacheInv, IInv
  <1>4. QED
    BY <1>1, <1>3, ValType, Below

LEMMA TrueOk ==
  ASSUME Sound, NEW ok \in Oks
  PROVE  ok = TRUE
  BY DEF Sound, Oks

LEMMA ExecuteStep ==
  ASSUME IInv, Sound, NEW ok \in Oks, NEW id \in Ids, execute(id, ok)
  PROVE  Reads(c, c') /\ IInv'
  <1>1. ok = TRUE
    BY TrueOk
  <1>2. CacheInv(c) /\ c' = cache_get(c, id, TRUE)
    BY <1>1 DEF execute, IInv
  <1>3. Reads(c, c') /\ (Val(c, id) # 0 => Holds(c', id, Ptr(c', id)))
    BY <1>2, GetReads
  <1>4. Ptr(c', id) \in Nat /\ (Ptr(c', id) # 0 => Val(c, id) # 0)
    <2>1. CacheInv(c')
      BY <1>3 DEF Reads
    <2>2. Ptr(c', id) # 0 => Live(c', id) # {}
      BY DEF Ptr
    <2>3. QED
      BY <1>3, <2>1, <2>2, ValType DEF Reads
  <1>5. used' = used /\ \A i \in used : i <= Val(c', Sys)
    BY <1>3, CacheAssumption DEF execute, IInv, Reads, Sys, Ids
  <1>6. QED
    BY <1>3, <1>4, <1>5 DEF execute, IInv, Reads, Running, Empty

\* A method that goes on keeps its pointer.
LEMMA GoesOn ==
  ASSUME IInv, CacheInv(c'), Val(c, Sys) <= Val(c', Sys),
         me' = me, used' \subseteq Ids, this' \in Nat, Running => Holds(c', me, this'),
         \A id \in used' \ used : id <= Val(c', Sys)
  PROVE  IInv'
  <1>1. Sys \in Ids /\ Val(c, Sys) \in Nat /\ Val(c', Sys) \in Nat
    BY ValType, CacheAssumption DEF IInv, Sys, Ids
  <1>2. ASSUME NEW id \in used' PROVE id <= Val(c', Sys)
    <2>1. CASE id \in used
      BY <1>1, <2>1 DEF IInv, Ids
    <2>2. QED
      BY <2>1
  <1>3. QED
    BY <1>2 DEF IInv, Running

LEMMA RetrieveStep ==
  ASSUME IInv, Sound, NEW ok \in Oks, NEW id \in Ids, retrieve(id, ok)
  PROVE  Reads(c, c') /\ IInv'
  <1>1. ok = TRUE
    BY TrueOk
  <1>2. Reads(c, c')
    BY <1>1, GetReads DEF retrieve, IInv
  <1>3. Val(c, Sys) <= Val(c', Sys)
    BY <1>2, MeExists DEF retrieve, Reads
  <1>4. Holds(c', me, this')
    BY <1>2, MeExists DEF retrieve, Reads, Pins, IInv
  <1>5. QED
    BY <1>2, <1>3, <1>4, GoesOn DEF retrieve, IInv, Reads

\* A method puts its own object.
LEMMA AssignStep ==
  ASSUME IInv, Sound, NEW ok \in Oks, var_assign_global(ok)
  PROVE  /\ \E v \in Nat \ {0} : Assigns(c, c', me, v)
         /\ me \in Ids /\ Val(c, me) # 0 /\ IInv'
  <1> DEFINE v == IF me = Sys THEN Val(c, me) ELSE Val(c, me) + 1
  <1>1. /\ me \in Ids /\ Val(c, me) \in Nat \ {0} /\ this \in Nat \ {0} /\ CacheInv(c)
        /\ me <= Val(c, Sys) /\ Holds(c, me, this) /\ Val(c, Sys) \in Nat /\ Sys \in Ids
    BY MeExists DEF var_assign_global, IInv
  <1>2. v \in Nat \ {0} /\ (me = Sys => v = Val(c, Sys))
    BY <1>1
  <1>3. c' = cache_put(c, me, this, v, TRUE)
    BY TrueOk DEF var_assign_global
  <1> HIDE DEF v
  <1>4. PutOK(c, me, this, v)
    BY <1>1, <1>2, NotDead DEF PutOK
  <1>5. Puts(c, c', me, v) /\ Holds(c', me, this)
    BY <1>1, <1>3, <1>4, PutPuts
  <1>6. Assigns(c, c', me, v)
    BY <1>5, ReadsNothing, PutsReads DEF Puts
  <1>7. Val(c, Sys) <= Val(c', Sys)
    <2>1. Val(c', Sys) = Val(c, Sys)
      BY <1>1, <1>2, <1>5 DEF Puts
    <2>2. QED
      BY <1>1, <2>1
  <1>8. UNCHANGED <<me, this, used>>
    BY DEF var_assign_global
  <1>9. IInv'
    BY <1>1, <1>5, <1>7, <1>8, GoesOn DEF Puts, IInv
  <1>10. QED
    BY <1>1, <1>2, <1>6, <1>9

LEMMA CloneStep ==
  ASSUME IInv, Sound, NEW ok \in Oks, op_clone(ok)
  PROVE  /\ IInv'
         /\ \E new \in Ids : new = Val(c, Sys) + 1 /\ Clones(c, c', new)
  <1> DEFINE new == NewTop(cache_get(c, Sys, TRUE))
  <1>1. /\ me \in Ids /\ Val(c, me) \in Nat \ {0} /\ this \in Nat /\ CacheInv(c)
        /\ me <= Val(c, Sys) /\ Holds(c, me, this) /\ Val(c, Sys) \in Nat /\ Sys \in Ids
    BY MeExists DEF op_clone, IInv
  <1>2. new \in Ids /\ c' = clone(c, TRUE) /\ used' = used \cup {new} /\ UNCHANGED <<me, this>>
    BY TrueOk DEF op_clone
  <1>3. new = Val(c, Sys) + 1
    BY <1>1, SysFound DEF NewTop
  <1> HIDE DEF new
  <1>4. Clones(c, c', new) /\ (Holds(c, Sys, this) => Holds(c', Sys, this))
    BY <1>1, <1>2, <1>3, CloneClones
  <1>5. new # Sys /\ me # new
    BY <1>1, <1>3 DEF Sys, Ids
  <1>6. Holds(c', me, this)
    BY <1>1, <1>4, <1>5 DEF Clones, Pins
  <1>7. Val(c', Sys) = new /\ CacheInv(c')
    BY <1>1, <1>4, <1>5 DEF Clones
  <1>8. Val(c, Sys) <= Val(c', Sys) /\ new <= Val(c', Sys)
    BY <1>1, <1>3, <1>7
  <1>9. used' \subseteq Ids /\ \A id \in used' \ used : id <= Val(c', Sys)
    BY <1>2, <1>8 DEF IInv
  <1>10. IInv'
    BY <1>1, <1>2, <1>6, <1>7, <1>8, <1>9, GoesOn
  <1>11. QED
    BY <1>2, <1>3, <1>4, <1>10

\* A program compiles another object than its own.
LEMMA CompileObjectStep ==
  ASSUME IInv, Sound, NEW ok \in Oks, NEW id \in Ids, op_compile_object(id, ok)
  PROVE  /\ IInv' /\ Val(c, id) # 0
         /\ \E v \in Nat \ {0} : Assigns(c, c', id, v)
  <1> DEFINE v == Val(c, id) + 1
  <1>1. /\ me \in Ids /\ Val(c, me) \in Nat \ {0} /\ this \in Nat /\ CacheInv(c)
        /\ me <= Val(c, Sys) /\ Holds(c, me, this) /\ Val(c, Sys) \in Nat /\ Sys \in Ids
    BY MeExists DEF op_compile_object, IInv
  <1>2. /\ c' = assign_object(c, id, v, TRUE) /\ UNCHANGED <<me, this, used>>
        /\ id \in Ids \ {Sys} /\ Val(c, id) # 0
    BY TrueOk DEF op_compile_object, cache_check
  <1>3. v \in Nat \ {0} /\ id <= Val(c, Sys)
    BY <1>1, <1>2, ValType, Below
  <1> HIDE DEF v
  <1>4. id # me
    BY DEF op_compile_object, Sound
  <1>5. Assigns(c, c', id, v)
    BY <1>1, <1>2, <1>3, NotDead, AssignAssigns
  <1>6. Val(c', Sys) = Val(c, Sys) /\ CacheInv(c') /\ Holds(c', me, this)
    BY <1>1, <1>2, <1>4, <1>5 DEF Assigns, Pins
  <1>7. Val(c, Sys) <= Val(c', Sys)
    BY <1>1, <1>6
  <1>8. IInv'
    BY <1>1, <1>2, <1>6, <1>7, GoesOn DEF IInv
  <1>9. QED
    BY <1>2, <1>3, <1>5, <1>8

LEMMA CompileMethodStep ==
  ASSUME IInv, Sound, NEW ok \in Oks, NEW id \in Ids, op_compile_method(id, ok)
  PROVE  /\ IInv' /\ Val(c, id) # 0
         /\ \E v \in Nat \ {0} : Assigns(c, c', id, v)
  <1> DEFINE k == cache_get(c, id, TRUE)
             v == Val(k, id) + 1
             l == cache_put(k, id, Ptr(k, id), v, TRUE)
  <1>1. /\ me \in Ids /\ Val(c, me) \in Nat \ {0} /\ this \in Nat /\ CacheInv(c)
        /\ Val(c, Sys) \in Nat /\ Sys \in Ids
    BY MeExists DEF op_compile_method, IInv
  <1>2. /\ c' = cache_get(l, me, TRUE) /\ this' = Ptr(c', me) /\ UNCHANGED <<me, used>>
        /\ id # Sys /\ Ptr(k, id) # 0
    BY TrueOk DEF op_compile_method
  <1>3. Reads(c, k)
    BY <1>1, GetReads
  <1> HIDE DEF k
  <1>4. Live(k, id) # {}
    BY <1>2 DEF Ptr
  <1>5. Ptr(k, id) \in Nat \ {0} /\ Val(k, id) \in Nat \ {0} /\ CacheInv(k)
    BY <1>2, <1>3, <1>4, ValType DEF Reads
  <1>6. v \in Nat \ {0} /\ id <= Val(k, Sys)
    BY <1>5, Below
  <1> HIDE DEF v
  <1>7. PutOK(k, id, Ptr(k, id), v)
    BY <1>2, <1>5, <1>6, NotDead DEF PutOK
  <1>8. Puts(k, l, id, v)
    BY <1>7, PutPuts
  <1> HIDE DEF l
  <1>9. Puts(c, l, id, v)
    BY <1>3, <1>8, ReadsPuts
  <1>10. Reads(l, c') /\ (Val(l, me) # 0 => Holds(c', me, Ptr(c', me)))
    BY <1>1, <1>2, <1>9, GetReads DEF Puts
  <1>11. Assigns(c, c', id, v)
    BY <1>9, <1>10, PutsReads
  <1>12. Val(l, me) # 0
    BY <1>1, <1>6, <1>9 DEF Puts
  <1>13. Holds(c', me, this') /\ this' \in Nat /\ CacheInv(c')
    BY <1>1, <1>2, <1>10, <1>12, ValType DEF Reads
  <1>14. Val(c, Sys) <= Val(c', Sys)
    <2>1. Val(c', Sys) = Val(c, Sys)
      BY <1>1, <1>2, <1>11 DEF Assigns
    <2>2. QED
      BY <1>1, <2>1
  <1>15. IInv'
    BY <1>1, <1>2, <1>13, <1>14, GoesOn DEF IInv
  <1>16. QED
    BY <1>3, <1>5, <1>6, <1>11, <1>15 DEF Reads

LEMMA DestroyStep ==
  ASSUME IInv, op_destroy
  PROVE  /\ IInv' /\ me \in Ids \ {Sys} /\ Val(c, me) # 0
         /\ c'.db = [c.db EXCEPT ![me] = 0]
         /\ \A i \in Ids : Val(c', i) = IF i = me THEN 0 ELSE Val(c, i)
  <1>1. me \in Ids \ {Sys} /\ Val(c, me) # 0 /\ CacheInv(c) /\ Sys \in Ids
    BY MeExists DEF op_destroy, IInv
  <1>2. /\ CacheInv(c') /\ c'.db = [c.db EXCEPT ![me] = 0]
        /\ \A i \in Ids : Val(c', i) = IF i = me THEN 0 ELSE Val(c, i)
    BY <1>1, DelDeletes DEF op_destroy
  <1>3. Val(c', Sys) = Val(c, Sys)
    BY <1>1, <1>2
  <1>4. IInv'
    BY <1>2, <1>3 DEF op_destroy, IInv, Running
  <1>5. QED
    BY <1>1, <1>2, <1>4

LEMMA SyncStep ==
  ASSUME IInv, Sound, NEW ok \in Oks, op_sync(ok)
  PROVE  /\ IInv' /\ c'.db = [i \in Ids |-> Val(c, i)]
         /\ \A i \in Ids : Val(c', i) = Val(c, i)
  <1>1. PICK S \in Syncs(c, TRUE) : c' = cache_sync(c, S)
    BY TrueOk DEF op_sync
  <1>2. /\ CacheInv(c') /\ c'.db = [i \in Ids |-> Val(c, i)]
        /\ \A i \in Ids : Val(c', i) = Val(c, i) /\ Pins(c, c', i)
    BY <1>1, SyncDumps DEF IInv
  <1>3. me \in Ids /\ this \in Nat /\ Sys \in Ids /\ Val(c, Sys) \in Nat
    BY MeExists DEF op_sync
  <1>4. Val(c, Sys) <= Val(c', Sys)
    BY <1>2, <1>3
  <1>5. Holds(c', me, this')
    BY <1>2, <1>3 DEF op_sync, IInv, Pins
  <1>6. IInv'
    BY <1>2, <1>3, <1>4, <1>5, GoesOn DEF op_sync, IInv
  <1>7. QED
    BY <1>2, <1>6

LEMMA EndStep ==
  ASSUME IInv, EndMethod \/ EndRound
  PROVE  /\ IInv' /\ c'.db = c.db
         /\ \A i \in Ids : Val(c', i) = Val(c, i)
  <1>1. CacheInv(c') /\ c'.db = c.db /\ \A i \in Ids : Val(c', i) = Val(c, i)
    BY ResetKeeps DEF EndMethod, EndRound, IInv
  <1>2. Sys \in Ids
    BY CacheAssumption DEF Sys, Ids
  <1>3. QED
    BY <1>1, <1>2 DEF EndMethod, EndRound, IInv, Running

LEMMA CrashStep ==
  ASSUME IInv, Sound, Crash
  PROVE  /\ IInv' /\ c'.db = c.db
         /\ \A i \in Ids : Val(c', i) = c.db[i]
  <1>1. /\ Sys \in Ids /\ c.db \in [Ids -> Nat] /\ c.db[Sys] = Val(c, Sys)
        /\ Val(c, Sys) # 0 /\ \A i \in Ids : c.db[i] # 0 => i <= c.db[Sys]
    BY CacheAssumption DEF Crash, Sound, IInv, CacheInv, BelowTop, Caches, Sys, Ids
  <1>2. /\ CacheInv(c') /\ c'.db = c.db /\ \A i \in Ids : Val(c', i) = c.db[i]
    BY <1>1, InitCache DEF Crash
  <1>3. IInv'
    BY <1>1, <1>2 DEF Crash, IInv, Running
  <1>4. QED
    BY <1>2, <1>3

LEMMA InitIInv ==
  ASSUME Init
  PROVE  IInv /\ \A i \in Ids : Val(c, i) = c.db[i]
  <1>0. PICK top \in Ids \ {Sys} :
          \E there \in SUBSET (1 .. top) :
            c = cache_init([id \in Ids |-> IF id = Sys THEN top
                                           ELSE IF id \in there THEN 1 ELSE 0])
    BY DEF Init
  <1>1. PICK there \in SUBSET (1 .. top) :
            c = cache_init([id \in Ids |-> IF id = Sys THEN top
                                           ELSE IF id \in there THEN 1 ELSE 0])
    BY <1>0
  <1> DEFINE db == [id \in Ids |-> IF id = Sys THEN top ELSE IF id \in there THEN 1 ELSE 0]
  <1>2. Sys \in Ids /\ Sys = 0 /\ top \in Nat \ {0}
    BY CacheAssumption DEF Sys, Ids
  <1>3. db \in [Ids -> Nat] /\ db[Sys] # 0 /\ \A i \in Ids : db[i] # 0 => i <= db[Sys]
    <2>1. db \in [Ids -> Nat] /\ db[Sys] = top
      BY <1>2
    <2>2. ASSUME NEW i \in Ids, db[i] # 0 PROVE i <= top
      BY <1>2, <2>2
    <2>3. QED
      BY <1>2, <2>1, <2>2
  <1> HIDE DEF db
  <1>4. CacheInv(c) /\ c.db = db /\ \A i \in Ids : Val(c, i) = db[i]
    <2>1. c = cache_init(db)
      BY <1>1 DEF db
    <2>2. QED
      BY <1>3, <2>1, InitCache
  <1>5. QED
    BY <1>2, <1>4 DEF Init, IInv, Running

\* The inductive invariant.
LEMMA NextIInv ==
  ASSUME Sound
  PROVE  IInv /\ [Next]_vars => IInv'
  <1> SUFFICES ASSUME IInv, [Next]_vars PROVE IInv'
    OBVIOUS
  <1>1. CASE EndMethod \/ EndRound
    BY <1>1, EndStep
  <1>2. CASE Crash
    BY <1>2, CrashStep
  <1>3. CASE op_destroy
    BY <1>3, DestroyStep
  <1>4. ASSUME NEW ok \in Oks, var_assign_global(ok) PROVE IInv'
    BY <1>4, AssignStep
  <1>5. ASSUME NEW ok \in Oks, op_clone(ok) PROVE IInv'
    BY <1>5, CloneStep
  <1>6. ASSUME NEW ok \in Oks, op_sync(ok) PROVE IInv'
    BY <1>6, SyncStep
  <1>7. ASSUME NEW ok \in Oks, NEW id \in Ids, execute(id, ok) \/ retrieve(id, ok) PROVE IInv'
    BY <1>7, ExecuteStep, RetrieveStep
  <1>8. ASSUME NEW ok \in Oks, NEW id \in Ids,
               op_compile_object(id, ok) \/ op_compile_method(id, ok)
        PROVE  IInv'
    BY <1>8, CompileObjectStep, CompileMethodStep
  <1>9. CASE UNCHANGED vars
    <2>1. c' = c /\ me' = me /\ this' = this /\ used' = used
      BY <1>9 DEF vars
    <2>2. QED
      BY <2>1 DEF IInv, Running
  <1>10. QED
    BY <1>1, <1>2, <1>3, <1>4, <1>5, <1>6, <1>7, <1>8, <1>9 DEF Next

\* IInv always holds: no object number has two slots, a slot that is not dirty has
\* what the database has, no number above dbtop is in use, and the pointer of a
\* method is in an active slot.
THEOREM CacheInvariant ==
  ASSUME Sound
  PROVE  Spec => []IInv
  <1>1. Init => IInv
    BY InitIInv
  <1>2. IInv /\ [Next]_vars => IInv'
    BY NextIInv
  <1>3. QED
    BY <1>1, <1>2, PTL DEF Spec

\* No object number has two slots: cache_get(), cache_put() and cache_del() may stop
\* at the first slot of an object that they find (cache.c 203-245, 371-429, 580-598).
THEOREM CacheOneSlot ==
  ASSUME Sound
  PROVE  Spec => []OneSlot
  <1>1. IInv => OneSlot
    BY DEF IInv, CacheInv, Single, OneSlot
  <1>2. QED
    BY <1>1, CacheInvariant, PTL

\* The pointer a method has to its own object is the one in an active slot, however
\* many objects it has looked up since (execute.c 218).
THEOREM CachePointer ==
  ASSUME Sound
  PROVE  Spec => []ThisCurrent
  <1>1. IInv => ThisCurrent
    BY DEF IInv, Holds, ThisCurrent
  <1>2. QED
    BY <1>1, CacheInvariant, PTL

\* clone() gives out no number twice (storage.c 41-62), because no number ever given
\* out is above dbtop.
THEOREM NumbersNeverReused ==
  ASSUME Sound
  PROVE  Spec => NeverReused
  <1>1. IInv /\ [Next]_vars =>
          [\A new \in Ids : Val(c, Sys) < new /\ Val(c, Sys)' = new => new \notin used]_vars
    <2> SUFFICES ASSUME IInv, NEW new \in Ids, Val(c, Sys) < new, new \in used
                 PROVE  FALSE
      OBVIOUS
    <2>1. new <= Val(c, Sys) /\ Val(c, Sys) \in Nat
      BY ValType, CacheAssumption DEF IInv, Sys, Ids
    <2>2. QED
      BY <2>1 DEF Ids
  <1>2. QED
    BY <1>1, CacheInvariant, PTL DEF Spec, NeverReused

-----------------------------------------------------------------------------
(* The refinement: each step of the cache is a step of ObjStore.           *)

StoreOf(k) == [id \in Ids |-> Val(k, id)]

\* Store!Next with the variables of ObjStore named: the cache before and after.
LEMMA Abstract ==
  ASSUME IInv, IInv'
  PROVE  /\ StoreOf(c) \in [Ids -> Nat] /\ StoreOf(c') \in [Ids -> Nat]
         /\ c.db \in [Ids -> Nat] /\ c'.db \in [Ids -> Nat]
         /\ \A id \in Ids : StoreOf(c)[id] = Val(c, id) /\ StoreOf(c')[id] = Val(c', id)
  <1>1. CacheInv(c) /\ CacheInv(c')
    BY DEF IInv
  <1>2. \A id \in Ids : Val(c, id) \in Nat /\ Val(c', id) \in Nat
    BY <1>1, ValType
  <1>3. QED
    BY <1>1, <1>2 DEF StoreOf, CacheInv, Caches

LEMMA ReadsRead ==
  ASSUME IInv, IInv', Reads(c, c')
  PROVE  Store!Read
  <1>1. StoreOf(c') = StoreOf(c)
    BY DEF Reads, StoreOf
  <1>2. \A id \in Ids : c'.db[id] \in {c.db[id], StoreOf(c)[id], StoreOf(c')[id]}
    BY Abstract DEF Reads, Flushed
  <1>3. DOMAIN c'.db = Ids
    BY Abstract
  <1>4. QED
    BY <1>1, <1>2, <1>3 DEF Store!Read, Store!Flushes, StoreOf

LEMMA AssignsWrite ==
  ASSUME IInv, IInv', NEW id \in Ids, Val(c, id) # 0, NEW v \in Nat \ {0}, Assigns(c, c', id, v)
  PROVE  Store!Write(id)
  <1>1. StoreOf(c)[id] # 0 /\ StoreOf(c')[id] = v
    BY Abstract DEF Assigns
  <1>2. StoreOf(c') = [StoreOf(c) EXCEPT ![id] = StoreOf(c')[id]]
    BY <1>1, Abstract DEF Assigns
  <1>3. \A i \in Ids : c'.db[i] \in {c.db[i], StoreOf(c)[i], StoreOf(c')[i]}
    BY Abstract DEF Assigns
  <1>4. DOMAIN c'.db = Ids
    BY Abstract
  <1>5. QED
    BY <1>1, <1>2, <1>3, <1>4 DEF Store!Write, Store!Flushes, StoreOf

LEMMA ClonesCreate ==
  ASSUME IInv, IInv', NEW new \in Ids, new = Val(c, Sys) + 1, Clones(c, c', new)
  PROVE  Store!Create
  <1>1. Sys \in Ids /\ Val(c, Sys) \in Nat /\ Val(c, Sys) # 0 /\ new # Sys
    <2>1. Sys \in Ids
      BY CacheAssumption DEF Sys, Ids
    <2>2. Val(c, Sys) \in Nat
      BY <2>1, ValType DEF IInv
    <2>3. QED
      BY <2>1, <2>2 DEF Sys, IInv, CacheInv, BelowTop
  <1>2. new = StoreOf(c)[Sys] + 1 /\ StoreOf(c')[new] = 1
    BY <1>1, Abstract DEF Clones
  <1>3. StoreOf(c') = [StoreOf(c) EXCEPT ![Sys] = new, ![new] = StoreOf(c')[new]]
    BY <1>1, <1>2, Abstract DEF Clones
  <1>4. \A i \in Ids : c'.db[i] \in {c.db[i], StoreOf(c)[i], StoreOf(c')[i]}
    BY Abstract DEF Clones
  <1>5. DOMAIN c'.db = Ids
    BY Abstract
  <1>6. Store!Flushes
    BY <1>4, <1>5 DEF Store!Flushes, StoreOf
  <1>7. LET n == StoreOf(c)[Sys] + 1
        IN  /\ n \in Ids /\ StoreOf(c')[n] # 0
            /\ StoreOf(c') = [StoreOf(c) EXCEPT ![Sys] = n, ![n] = StoreOf(c')[n]]
    BY <1>2, <1>3
  <1>8. QED
    BY <1>6, <1>7 DEF Store!Create, StoreOf

LEMMA DestroyDelete ==
  ASSUME IInv, op_destroy
  PROVE  Store!Delete(me)
  <1>1. /\ IInv' /\ me \in Ids \ {Sys} /\ Val(c, me) # 0
        /\ c'.db = [c.db EXCEPT ![me] = 0]
        /\ \A i \in Ids : Val(c', i) = IF i = me THEN 0 ELSE Val(c, i)
    BY DestroyStep
  <1>2. StoreOf(c)[me] # 0 /\ StoreOf(c') = [StoreOf(c) EXCEPT ![me] = 0]
    BY <1>1, Abstract
  <1>3. QED
    BY <1>1, <1>2 DEF Store!Delete, StoreOf

LEMMA NextStore ==
  ASSUME Sound, IInv, [Next]_vars
  PROVE  [Store!Next]_(Store!vars)
  <1>1. CASE EndMethod \/ EndRound
    <2>1. StoreOf(c') = StoreOf(c) /\ c'.db = c.db
      BY <1>1, EndStep DEF StoreOf
    <2>2. QED
      BY <2>1 DEF Store!vars, StoreOf
  <1>2. CASE Crash
    <2>1. IInv' /\ c'.db = c.db /\ \A i \in Ids : Val(c', i) = c.db[i]
      BY <1>2, CrashStep
    <2>2. StoreOf(c') = c.db
      BY <2>1, Abstract
    <2>3. Store!Crash
      BY <2>1, <2>2 DEF Store!Crash, StoreOf
    <2>4. QED
      BY <2>3 DEF Store!Next
  <1>3. CASE op_destroy
    BY <1>3, DestroyDelete, DestroyStep DEF Store!Next
  <1>4. ASSUME NEW ok \in Oks, var_assign_global(ok) PROVE Store!Next
    BY <1>4, AssignStep, AssignsWrite DEF Store!Next
  <1>5. ASSUME NEW ok \in Oks, op_clone(ok) PROVE Store!Next
    BY <1>5, CloneStep, ClonesCreate DEF Store!Next
  <1>6. ASSUME NEW ok \in Oks, op_sync(ok) PROVE Store!Next
    <2>1. c'.db = StoreOf(c) /\ StoreOf(c') = StoreOf(c)
      BY <1>6, SyncStep DEF StoreOf
    <2>2. Store!Dump
      BY <2>1 DEF Store!Dump, StoreOf
    <2>3. QED
      BY <2>2 DEF Store!Next
  <1>7. ASSUME NEW ok \in Oks, NEW id \in Ids, execute(id, ok) \/ retrieve(id, ok)
        PROVE  Store!Next
    BY <1>7, ExecuteStep, RetrieveStep, ReadsRead DEF Store!Next
  <1>8. ASSUME NEW ok \in Oks, NEW id \in Ids,
               op_compile_object(id, ok) \/ op_compile_method(id, ok)
        PROVE  Store!Next
    BY <1>8, CompileObjectStep, CompileMethodStep, AssignsWrite DEF Store!Next
  <1>9. CASE UNCHANGED vars
    <2>1. c' = c
      BY <1>9 DEF vars
    <2>2. QED
      BY <2>1 DEF Store!vars
  <1>10. QED
    BY <1>1, <1>2, <1>3, <1>4, <1>5, <1>6, <1>7, <1>8, <1>9 DEF Next

\* Cache and database together are the store of objects of ObjStore: an object may
\* be written at any time, and leave the cache, but what a method reads is what was
\* assigned last, and after dump() the database has all of it (cache.c 490-526).
THEOREM CacheImplementsStore ==
  ASSUME Sound
  PROVE  Spec => StoreSpec
  <1>1. Init => Store!Init
    <2> SUFFICES ASSUME Init PROVE Store!Init
      OBVIOUS
    <2>1. IInv /\ \A i \in Ids : Val(c, i) = c.db[i]
      BY InitIInv
    <2>2. c.db \in [Ids -> Nat] /\ c.db = StoreOf(c)
      BY <2>1 DEF IInv, CacheInv, Caches, StoreOf
    <2>3. Sys \in Ids /\ Val(c, Sys) # 0
      BY <2>1, CacheAssumption DEF IInv, CacheInv, BelowTop, Sys, Ids
    <2>4. QED
      BY <2>1, <2>2, <2>3 DEF Store!Init, StoreOf
  <1>2. IInv /\ [Next]_vars => [Store!Next]_(Store!vars)
    BY NextStore
  <1>3. QED
    BY <1>1, <1>2, CacheInvariant, PTL DEF Spec, StoreSpec, Store!Spec

-----------------------------------------------------------------------------
(* Types, which need none of that.                                         *)

\* Stamps are smaller than the next one, so there is a latest one.
Well(k) == k \in Caches /\ k.n # 0 /\ \A s \in k.slots : s.n < k.n

LEMMA LastIn ==
  ASSUME NEW k, Well(k), NEW S, S \subseteq k.slots, S # {}
  PROVE  Last(S) \in S
  <1> DEFINE T == {k.n - s.n : s \in S}
             R == OpToRel(<, Nat)
  <1>0. \A s \in S : s.n \in Nat /\ k.n \in Nat /\ k.n - s.n \in Nat
    BY DEF Well, Caches, Slot
  <1>1. T \subseteq Nat /\ T # {}
    BY <1>0
  <1>2. PICK n \in T : \A m \in T : ~(<<m, n>> \in R)
    <2> HIDE DEF T, R
    <2>1. IsWellFoundedOn(R, Nat)
      BY NatLessThanWellFounded DEF R
    <2>2. QED
      BY <1>1, <2>1, WFMin, Zenon
  <1>3. \A m \in T : n <= m
    <2> SUFFICES ASSUME NEW m \in T PROVE n <= m
      OBVIOUS
    <2>1. n \in Nat /\ m \in Nat
      BY <1>1
    <2>2. ~(m < n)
      BY <1>2, <2>1 DEF OpToRel
    <2>3. QED
      BY <2>1, <2>2
  <1>4. PICK s \in S : n = k.n - s.n
    BY <1>2
  <1>5. \A t \in S : s.n >= t.n
    <2> SUFFICES ASSUME NEW t \in S PROVE s.n >= t.n
      OBVIOUS
    <2>1. k.n - s.n <= k.n - t.n
      BY <1>3, <1>4
    <2>2. QED
      BY <2>1, <1>0
  <1>6. QED
    BY <1>5, Zenon DEF Last

LEMMA WellVal ==
  ASSUME NEW k, Well(k), NEW id \in Ids
  PROVE  Val(k, id) \in Nat /\ Ptr(k, id) \in Nat
  <1>1. CASE Live(k, id) = {}
    BY <1>1, LiveNone DEF Well, Caches
  <1>2. CASE Live(k, id) # {}
    <2>1. Last(Live(k, id)) \in Slot
      BY <1>2, LastIn DEF Live, Well, Caches
    <2>2. QED
      BY <1>2, <2>1 DEF Val, Ptr, Slot
  <1>3. QED
    BY <1>1, <1>2

\* A slot is linked at the head of a chain, and another may have been written.
LEMMA WellLink ==
  ASSUME NEW k, Well(k), NEW S, S \subseteq Slot, \A s \in S : s.n <= k.n
  PROVE  Well([k EXCEPT !.slots = S, !.n = @ + 1])
  <1>1. k \in Caches /\ k.n \in Nat \ {0}
    BY DEF Well, Caches
  <1>2. \A s \in S : s.n \in Nat /\ s.n < k.n + 1
    BY <1>1 DEF Slot
  <1>3. [k EXCEPT !.slots = S, !.n = @ + 1] \in Caches
    BY <1>1, TouchType
  <1>4. QED
    BY <1>1, <1>2, <1>3 DEF Well, Caches

LEMMA WellWritten ==
  ASSUME NEW k, Well(k), NEW d \in [Ids -> Nat]
  PROVE  Well([k EXCEPT !.db = d])
  BY DEF Well, Caches

\* A stamp is taken for an object that has no slot yet.
LEMMA WellNext ==
  ASSUME NEW k, Well(k)
  PROVE  Well([k EXCEPT !.n = @ + 1])
  <1>1. k.n \in Nat /\ k.slots \subseteq Slot
    BY DEF Well, Caches
  <1>2. \A s \in k.slots : s.n < k.n + 1
    BY <1>1 DEF Well, Slot
  <1>3. [k EXCEPT !.n = @ + 1] \in Caches
    BY DEF Well, Caches
  <1>4. QED
    BY <1>1, <1>2, <1>3 DEF Well, Caches

\* The contents change, or slots leave.
LEMMA WellSame ==
  ASSUME NEW k, Well(k), NEW S, S \subseteq Slot, \A s \in S : s.n < k.n
  PROVE  Well([k EXCEPT !.slots = S])
  BY DEF Well, Caches

LEMMA WellReplace ==
  ASSUME NEW k, Well(k), NEW id \in Ids, NEW p \in Nat, NEW v \in Nat, NEW d \in BOOLEAN
  PROVE  Well(Replace(k, Tail(k, id), NewSlot(k, id, p, v, d)))
  <1> DEFINE T == Tail(k, id)
             S == (k.slots \ T) \cup {NewSlot(k, id, p, v, d)}
             b == IF T = {} THEN k.db ELSE Written(k, First(T))
  <1>1. k.slots \subseteq Slot /\ k.db \in [Ids -> Nat] /\ k.n \in Nat
    BY DEF Well, Caches
  <1>2. NewSlot(k, id, p, v, d) \in Slot /\ NewSlot(k, id, p, v, d).n = k.n
    <2>1. objid_hash(id) \in 0 .. Width - 1
      BY CacheAssumption DEF objid_hash, Ids
    <2>2. QED
      BY <2>1, <1>1 DEF NewSlot, Slot
  <1>3. T # {} => First(T) \in Slot
    <2>1. T \subseteq Slot
      <3>1. OldChain(k, id) # {} => First(OldChain(k, id)) \in OldChain(k, id)
        BY <1>1, FirstIn DEF OldChain
      <3>2. QED
        BY <3>1, <1>1 DEF Tail, OldChain
    <2>2. QED
      BY <2>1, FirstIn
  <1>4. b \in [Ids -> Nat]
    BY <1>1, <1>3 DEF Written, Slot
  <1>5. S \subseteq Slot /\ \A s \in S : s.n <= k.n
    BY <1>1, <1>2 DEF Well, Slot
  <1>6. Replace(k, T, NewSlot(k, id, p, v, d)) = [k EXCEPT !.slots = S, !.n = @ + 1, !.db = b]
    BY DEF Replace
  <1> HIDE DEF T, S, b
  <1>7. Well([[k EXCEPT !.slots = S, !.n = @ + 1] EXCEPT !.db = b])
    <2>1. Well([k EXCEPT !.slots = S, !.n = @ + 1])
      BY <1>5, WellLink
    <2>2. QED
      BY <1>4, <2>1, WellWritten
  <1>8. QED
    BY <1>6, <1>7 DEF T

LEMMA WellGet ==
  ASSUME NEW k, Well(k), NEW id \in Ids, NEW ok \in BOOLEAN
  PROVE  Well(cache_get(k, id, ok))
  <1>1. k.slots \subseteq Slot /\ k.db \in [Ids -> Nat] /\ k.n \in Nat
    BY DEF Well, Caches
  <1>2. CASE Live(k, id) # {}
    <2> DEFINE s == Last(Live(k, id))
               S == (k.slots \ {s}) \cup {[s EXCEPT !.n = k.n]}
    <2>1. s \in Slot
      BY <1>1, <1>2, LastIn DEF Live
    <2>2. S \subseteq Slot /\ \A t \in S : t.n <= k.n
      BY <1>1, <2>1 DEF Well, Slot
    <2>3. Touch(k, s) = [k EXCEPT !.slots = S, !.n = @ + 1]
      BY DEF Touch
    <2> HIDE DEF s, S
    <2>4. Well(Touch(k, s))
      <3>1. Well([k EXCEPT !.slots = S, !.n = @ + 1])
        BY <2>2, WellLink
      <3>2. QED
        BY <2>3, <3>1
    <2>5. QED
      BY <1>2, <2>4 DEF cache_get, s
  <1>3. CASE Live(k, id) = {} /\ Stuck(Tail(k, id), ok)
    <2>1. k.slots \ Tail(k, id) \subseteq Slot /\ \A s \in k.slots \ Tail(k, id) : s.n < k.n
      BY <1>1 DEF Well
    <2>2. Well([k EXCEPT !.slots = @ \ Tail(k, id)])
      BY <1>1, <2>1, WellSame
    <2>3. QED
      BY <1>3, <2>2 DEF cache_get
  <1>4. CASE Live(k, id) = {} /\ ~Stuck(Tail(k, id), ok)
    <2>1. Well(Replace(k, Tail(k, id), NewSlot(k, id, k.n, k.db[id], FALSE)))
      BY <1>1, WellReplace
    <2>2. QED
      BY <1>4, <2>1 DEF cache_get
  <1>5. QED
    BY <1>2, <1>3, <1>4

LEMMA WellPut ==
  ASSUME NEW k, Well(k), NEW id \in Ids, NEW p \in Nat, NEW v \in Nat, NEW ok \in BOOLEAN
  PROVE  Well(cache_put(k, id, p, v, ok))
  <1>1. k.slots \subseteq Slot /\ k.db \in [Ids -> Nat] /\ k.n \in Nat
    BY DEF Well, Caches
  <1>2. CASE PutHits(k, id) # {}
    <2> DEFINE s == Last(PutHits(k, id))
               S == (k.slots \ {s}) \cup {[s EXCEPT !.p = p, !.val = v, !.dirty = TRUE]}
    <2>1. s \in k.slots
      BY <1>2, LastIn DEF PutHits
    <2>2. S \subseteq Slot /\ \A t \in S : t.n < k.n
      BY <1>1, <2>1 DEF Well, Slot
    <2>3. Well([k EXCEPT !.slots = S])
      <3> HIDE DEF s, S
      <3>1. QED
        BY <1>1, <2>2, WellSame
    <2>4. QED
      BY <1>2, <2>3 DEF cache_put
  <1>3. CASE PutHits(k, id) = {}
    <2>1. Well(Replace(k, Tail(k, id), NewSlot(k, id, p, v, TRUE)))
      BY WellReplace
    <2>2. QED
      BY <1>3, <2>1 DEF cache_put
  <1>4. QED
    BY <1>2, <1>3

LEMMA SysIn ==
  Sys \in Ids
  BY CacheAssumption DEF Sys, Ids

LEMMA WellSetTop ==
  ASSUME NEW k, Well(k), NEW top \in Nat, NEW ok \in BOOLEAN
  PROVE  Well(set_dbtop(k, top, ok))
  <1> DEFINE j == cache_get(k, Sys, ok)
  <1>1. Well(j)
    BY SysIn, WellGet
  <1> HIDE DEF j
  <1>2. Ptr(j, Sys) \in Nat
    BY <1>1, SysIn, WellVal
  <1>3. Well(cache_put(j, Sys, Ptr(j, Sys), top, ok))
    BY <1>1, <1>2, SysIn, WellPut
  <1>4. QED
    BY <1>1, <1>3 DEF set_dbtop, j

LEMMA WellAssign ==
  ASSUME NEW k, Well(k), NEW id \in Ids, NEW v \in Nat, NEW ok \in BOOLEAN
  PROVE  Well(assign_object(k, id, v, ok))
  <1> DEFINE old == cache_get(k, id, ok)
             new == [old EXCEPT !.n = @ + 1]
             put == cache_put(new, id, old.n, v, ok)
             j   == cache_get(put, Sys, ok)
  <1>1. Well(old)
    BY WellGet
  <1> HIDE DEF old
  <1>2. Well(new) /\ old.n \in Nat
    BY <1>1, WellNext DEF Well, Caches
  <1> HIDE DEF new
  <1>3. Well(put)
    BY <1>2, WellPut
  <1> HIDE DEF put
  <1>4. Well(j)
    BY <1>3, SysIn, WellGet
  <1> HIDE DEF j
  <1>5. Well(set_dbtop(j, id, ok))
    BY <1>4, WellSetTop DEF Ids
  <1>6. assign_object(k, id, v, ok) = IF AboveTop(j, id) THEN set_dbtop(j, id, ok) ELSE j
    BY DEF assign_object, j, put, new, old
  <1>7. QED
    BY <1>4, <1>5, <1>6

LEMMA WellClone ==
  ASSUME NEW k, Well(k), NEW ok \in BOOLEAN, NewTop(cache_get(k, Sys, ok)) \in Ids
  PROVE  Well(clone(k, ok))
  <1> DEFINE j == cache_get(k, Sys, ok)
             top == NewTop(j)
             l == set_dbtop(j, top, ok)
  <1>1. Well(j)
    BY SysIn, WellGet
  <1>2. top \in Ids /\ top \in Nat
    BY DEF Ids
  <1> HIDE DEF j, top
  <1>3. Well(l)
    BY <1>1, <1>2, WellSetTop
  <1> HIDE DEF l
  <1>4. Well(assign_object(l, top, 1, ok))
    BY <1>2, <1>3, WellAssign
  <1>5. QED
    BY <1>4 DEF clone, j, top, l

LEMMA WellDel ==
  ASSUME NEW k, Well(k), NEW id \in Ids
  PROVE  Well(cache_del(k, id))
  <1> DEFINE Killed(s) == IF s.oid = id THEN [s EXCEPT !.dead = TRUE, !.dirty = FALSE] ELSE s
             S == {Killed(s) : s \in k.slots}
             d == [k.db EXCEPT ![id] = 0]
  <1>1. k.slots \subseteq Slot /\ d \in [Ids -> Nat]
    BY DEF Well, Caches
  <1>2. \A s \in k.slots : Killed(s) \in Slot /\ Killed(s).n < k.n
    BY <1>1 DEF Slot, Well
  <1>3. S \subseteq Slot /\ \A s \in S : s.n < k.n
    BY <1>2
  <1>4. cache_del(k, id) = [[k EXCEPT !.slots = S] EXCEPT !.db = d]
    BY DEF cache_del, Well, Caches
  <1> HIDE DEF S, d
  <1>5. Well([k EXCEPT !.slots = S])
    BY <1>3, WellSame
  <1>6. Well([[k EXCEPT !.slots = S] EXCEPT !.db = d])
    BY <1>1, <1>5, WellWritten
  <1>7. QED
    BY <1>4, <1>6, Zenon

LEMMA WellSync ==
  ASSUME NEW k, Well(k), NEW ok \in BOOLEAN, NEW T, T \in Syncs(k, ok)
  PROVE  Well(cache_sync(k, T))
  <1> DEFINE Clean(s) == IF s \in T THEN [s EXCEPT !.dirty = FALSE] ELSE s
             S == {Clean(s) : s \in k.slots}
             d == [id \in Ids |-> IF \E s \in T : s.oid = id
                                  THEN (CHOOSE s \in T : s.oid = id).val ELSE k.db[id]]
  <1>1. k.slots \subseteq Slot /\ k.db \in [Ids -> Nat]
    BY DEF Well, Caches
  <1>2. T \subseteq Slot
    BY <1>1 DEF Syncs
  <1>3. d \in [Ids -> Nat]
    <2>1. ASSUME NEW id \in Ids, \E s \in T : s.oid = id
          PROVE  (CHOOSE s \in T : s.oid = id).val \in Nat
      <3>1. (CHOOSE s \in T : s.oid = id) \in T
        BY <2>1
      <3>2. QED
        BY <1>2, <3>1 DEF Slot
    <2>2. QED
      BY <1>1, <2>1
  <1>4. \A s \in k.slots : Clean(s) \in Slot /\ Clean(s).n < k.n
    BY <1>1 DEF Slot, Well
  <1>5. S \subseteq Slot /\ \A s \in S : s.n < k.n
    BY <1>4
  <1>6. cache_sync(k, T) = [[k EXCEPT !.slots = S] EXCEPT !.db = d]
    BY DEF cache_sync, Well, Caches
  <1> HIDE DEF S, d
  <1>7. Well([k EXCEPT !.slots = S])
    BY <1>5, WellSame
  <1>8. Well([[k EXCEPT !.slots = S] EXCEPT !.db = d])
    BY <1>3, <1>7, WellWritten
  <1>9. QED
    BY <1>6, <1>8, Zenon

LEMMA WellReset ==
  ASSUME NEW k, Well(k)
  PROVE  Well(cache_reset(k))
  BY DEF Well, Caches, cache_reset

LEMMA WellInit ==
  ASSUME NEW db \in [Ids -> Nat]
  PROVE  Well(cache_init(db))
  <1>1. ASSUME NEW s \in InitSlots PROVE s.n < Width * Depth + 1
    <2>1. PICK h \in 0 .. Width - 1, i \in 0 .. Depth - 1 : s.n = 1 + h * Depth + i
      BY DEF InitSlots
    <2>2. Width \in Nat /\ Depth \in Nat /\ h \in Nat /\ i \in Nat /\ Width - 1 - h \in Nat
      BY CacheAssumption
    <2>3. (Width - 1 - h) * Depth \in Nat /\ h * Depth \in Nat /\ Width * Depth \in Nat
      BY <2>2
    <2>4. Width * Depth = (Width - 1 - h) * Depth + h * Depth + Depth
      BY <2>2
    <2>5. QED
      BY <2>1, <2>2, <2>3, <2>4
  <1>2. InitSlots \subseteq Slot
    BY InitSlotsType
  <1>3. Width * Depth \in Nat
    BY CacheAssumption
  <1>4. QED
    BY <1>1, <1>2, <1>3 DEF cache_init, Well, Caches

\* The types, and that stamps are in order.
TInv ==
    /\ Well(c)
    /\ me \in Ids \cup {Empty} /\ this \in Nat /\ used \subseteq Ids

LEMMA InitTInv ==
  Init => TInv
  <1> SUFFICES ASSUME Init PROVE TInv
    OBVIOUS
  <1>1. PICK top \in Ids \ {Sys} :
          \E there \in SUBSET (1 .. top) :
            c = cache_init([id \in Ids |-> IF id = Sys THEN top
                                           ELSE IF id \in there THEN 1 ELSE 0])
    BY DEF Init
  <1>2. PICK there \in SUBSET (1 .. top) :
            c = cache_init([id \in Ids |-> IF id = Sys THEN top
                                           ELSE IF id \in there THEN 1 ELSE 0])
    BY <1>1
  <1>3. [id \in Ids |-> IF id = Sys THEN top ELSE IF id \in there THEN 1 ELSE 0] \in [Ids -> Nat]
    BY DEF Ids
  <1>4. QED
    BY <1>2, <1>3, WellInit DEF Init, TInv

LEMMA NextTInv ==
  TInv /\ [Next]_vars => TInv'
  <1> SUFFICES ASSUME TInv, [Next]_vars PROVE TInv'
    OBVIOUS
  <1>1. Oks \subseteq BOOLEAN /\ (Running => me \in Ids) /\ Well(c) /\ Sys \in Ids
    BY SysIn DEF Oks, TInv, Running
  <1>2. CASE EndMethod \/ EndRound
    BY <1>2, WellReset DEF EndMethod, EndRound, TInv
  <1>3. CASE Crash
    BY <1>3, WellInit DEF Crash, TInv, Well, Caches
  <1>4. CASE op_destroy
    BY <1>1, <1>4, WellDel DEF op_destroy, TInv
  <1>5. ASSUME NEW ok \in Oks, var_assign_global(ok) PROVE TInv'
    <2> DEFINE v == IF me = Sys THEN Val(c, me) ELSE Val(c, me) + 1
    <2>1. me \in Ids /\ this \in Nat /\ v \in Nat /\ ok \in BOOLEAN
      BY <1>1, <1>5, WellVal DEF var_assign_global, TInv
    <2>2. c' = cache_put(c, me, this, v, ok) /\ UNCHANGED <<me, this, used>>
      BY <1>5 DEF var_assign_global
    <2> HIDE DEF v
    <2>3. QED
      BY <1>1, <2>1, <2>2, WellPut DEF TInv
  <1>6. ASSUME NEW ok \in Oks, op_clone(ok) PROVE TInv'
    BY <1>1, <1>6, WellClone DEF op_clone, TInv
  <1>7. ASSUME NEW ok \in Oks, op_sync(ok) PROVE TInv'
    <2>1. PICK S \in Syncs(c, ok) : c' = cache_sync(c, S)
      BY <1>7 DEF op_sync
    <2>2. Well(c')
      BY <1>1, <2>1, WellSync
    <2>3. QED
      BY <1>7, <2>2 DEF op_sync, TInv
  <1>8. ASSUME NEW ok \in Oks, NEW id \in Ids, execute(id, ok) \/ retrieve(id, ok)
        PROVE  TInv'
    <2>1. Well(cache_get(c, id, ok))
      BY <1>1, WellGet
    <2>2. Well(c') /\ Ptr(c', id) \in Nat
      BY <1>8, <2>1, WellVal DEF execute, retrieve
    <2>3. QED
      BY <1>8, <2>2 DEF execute, retrieve, TInv
  <1>9. ASSUME NEW ok \in Oks, NEW id \in Ids, op_compile_object(id, ok) PROVE TInv'
    <2> DEFINE v == Val(c, id) + 1
    <2>1. v \in Nat /\ ok \in BOOLEAN
      BY <1>1, WellVal
    <2>2. c' = assign_object(c, id, v, ok) /\ UNCHANGED <<me, this, used>>
      BY <1>9 DEF op_compile_object
    <2> HIDE DEF v
    <2>3. QED
      BY <1>1, <2>1, <2>2, WellAssign DEF TInv
  <1>10. ASSUME NEW ok \in Oks, NEW id \in Ids, op_compile_method(id, ok) PROVE TInv'
    <2> DEFINE k == cache_get(c, id, ok)
               p == Ptr(k, id)
               v == Val(k, id) + 1
               l == cache_put(k, id, p, v, ok)
    <2>1. Running /\ c' = cache_get(l, me, ok) /\ this' = Ptr(c', me) /\ UNCHANGED <<me, used>>
      BY <1>10 DEF op_compile_method
    <2>2. Well(k) /\ ok \in BOOLEAN
      BY <1>1, WellGet
    <2> HIDE DEF k
    <2>3. p \in Nat /\ v \in Nat
      BY <2>2, WellVal
    <2> HIDE DEF p, v
    <2>4. Well(l)
      BY <2>2, <2>3, WellPut
    <2> HIDE DEF l
    <2>5. Well(c') /\ this' \in Nat
      BY <1>1, <2>1, <2>2, <2>4, WellGet, WellVal
    <2>6. QED
      BY <2>1, <2>5 DEF TInv
  <1>11. CASE UNCHANGED vars
    BY <1>11 DEF vars, TInv
  <1>12. QED
    BY <1>2, <1>3, <1>4, <1>5, <1>6, <1>7, <1>8, <1>9, <1>10, <1>11 DEF Next

\* Every reachable state of the cache is well typed, whatever the database refuses to
\* write, whenever the server dies and whatever programs compile (cache.c).
THEOREM CacheTyped ==
  Spec => []TypeOK
  <1>1. TInv => TypeOK
    BY DEF TInv, Well, Caches, TypeOK
  <1>2. QED
    BY <1>1, InitTInv, NextTInv, PTL DEF Spec
=============================================================================
