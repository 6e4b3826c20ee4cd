--------------------------- MODULE DbmchunkProofs ---------------------------
(***************************************************************************)
(* Theorems about the disk store, for any objects, sizes and block sizes:  *)
(* its state is well typed; if the index entry of an object that has moved *)
(* can be stored, no block belongs to two objects, and the store is the    *)
(* map of DiskMap.  (TLC shows that both are false if that store may fail: *)
(* the object has given up its blocks by then.)                            *)
(*                                                                         *)
(* The invariant says which blocks are marked in the bitmap at each point  *)
(* of dddb_put() and dddb_init().  A block below Limit keeps its mark when *)
(* the bitmap grows; the rest of the old bitmap does not matter.           *)
(***************************************************************************)
EXTENDS Dbmchunk, TLAPS

TypeInv == TypeOK /\ BitBlock < bitblox

\* The object has a place that it may have given up.
Moving(e) == e.id = job.id /\ job.pc \in {"alloc", "scan", "store"}

\* When the server starts, an entry is marked once it is not in todo.
Known(e) == job.pc = "init" => e.id \notin job.todo

Inside(S) == \A b \in S : b < Limit

MarkedInv ==
    \A e \in index : Known(e) => Inside(Blocks(e)) /\ (~Moving(e) => Blocks(e) \subseteq bits)

\* The entry that is being marked.
InitInv ==
    job.pc = "init" =>
        \A e \in index : e.id = job.id /\ job.k > 0 =>
            Run(e.lbn, job.k) \subseteq bits /\ Inside(Run(e.lbn, job.k))

\* The run of free blocks that dddb_alloc() has found so far.
ScanInv ==
    job.pc = "scan" =>
        /\ job.slbn <= job.lbn /\ job.lbn < Limit
        /\ job.left > 0 /\ job.left + job.lbn = job.slbn + BLOCKS_NEEDED(job.siz)
        /\ \A b \in bits : ~(job.slbn <= b /\ b < job.lbn)

Place == Run(job.slbn, BLOCKS_NEEDED(job.siz))

\* The place of the object that is to be stored.
PlaceInv ==
    job.pc = "store" =>
        /\ Place \subseteq bits /\ Inside(Place)
        /\ \A e \in index : e.id # job.id => Blocks(e) \cap Place = {}

\* The object that is being written.
WriteInv ==
    /\ job.pc \in {"alloc", "scan", "store"} => job.k = 0
    /\ job.pc = "write" =>
        /\ job.id \in torn /\ [id |-> job.id, lbn |-> job.slbn, siz |-> job.siz] \in index
        /\ job.k < BLOCKS_NEEDED(job.siz)
        /\ \A k \in Nat : k < job.k =>
              At(job.slbn + k) = [id |-> job.id, v |-> job.v, siz |-> job.siz, k |-> k]

Stored(e, v) ==
    \A k \in Nat : k < BLOCKS_NEEDED(e.siz) =>
        At(e.lbn + k) = [id |-> e.id, v |-> v, siz |-> e.siz, k |-> k]

\* What the file holds of an object that is not torn.
FileInv == \A e \in index : e.id \notin torn => \E v \in Versions : Stored(e, v)

IInv ==
    Disjoint /\ MarkedInv /\ InitInv /\ ScanInv /\ PlaceInv /\ WriteInv /\ FileInv
-----------------------------------------------------------------------------
(* Sizes, places and the bitmap.                                           *)

LEMMA NeededType ==
  ASSUME NEW siz \in Sizes
  PROVE  BLOCKS_NEEDED(siz) \in Nat \ {0}
  <1>1. siz \in Nat \ {0} /\ Bsiz \in Nat \ {0}
    BY DbmchunkAssumption
  <1>2. siz \div Bsiz \in Nat /\ siz % Bsiz \in Nat /\ siz = Bsiz * (siz \div Bsiz) + (siz % Bsiz)
    BY <1>1
  <1>3. siz % Bsiz = 0 => siz \div Bsiz # 0
    BY <1>1, <1>2
  <1>4. QED
    BY <1>2, <1>3 DEF BLOCKS_NEEDED

LEMMA GrownAbove ==
  ASSUME NEW m \in Nat
  PROVE  Grown(m) \in Nat /\ m < Grown(m)
  <1>1. m % Byte \in Nat /\ m % Byte < Byte /\ Byte \in Nat
    BY DbmchunkAssumption
  <1>2. QED
    BY <1>1 DEF Grown

LEMMA RunType ==
  ASSUME NEW lbn \in Nat, NEW n \in Nat
  PROVE  /\ Run(lbn, n) \subseteq Nat
         /\ \A b : b \in Run(lbn, n) <=> b \in Nat /\ lbn <= b /\ b < lbn + n
  BY DEF Run

LEMMA BlocksType ==
  ASSUME NEW e \in Entry
  PROVE  /\ Blocks(e) \subseteq Nat /\ e.lbn \in Blocks(e)
         /\ \A b : b \in Blocks(e) <=> b \in Nat /\ e.lbn <= b /\ b < e.lbn + BLOCKS_NEEDED(e.siz)
  <1>1. e.lbn \in Nat /\ BLOCKS_NEEDED(e.siz) \in Nat \ {0}
    BY NeededType DEF Entry
  <1>2. QED
    BY <1>1, RunType DEF Blocks

LEMMA IdleType == Idle \in Job /\ Nothing \in Piece
  <1>1. /\ (CHOOSE i \in Ids : TRUE) \in Ids /\ (CHOOSE v \in Versions : TRUE) \in Versions
        /\ (CHOOSE s \in Sizes : TRUE) \in Sizes
    BY DbmchunkAssumption
  <1>2. Idle \in Job
    BY <1>1 DEF Idle, Job
  <1>3. QED
    BY <1>1, <1>2 DEF Nothing, Piece, Idle

\* The bitmap grows; the blocks below Limit stay as they are.
LEMMA Grows ==
  ASSUME bits \subseteq Nat, bitblox \in Nat, BitBlock < bitblox,
         NEW m \in Nat, m >= bitblox, growbit(m)
  PROVE  /\ bits' \subseteq Nat /\ bitblox' \in Nat /\ bitblox < bitblox' /\ m < bitblox'
         /\ \A b \in Nat : b < Limit => (b \in bits' <=> b \in bits)
  <1>1. Grown(m) \in Nat /\ m < Grown(m) /\ Byte \in Nat /\ Margin \in Nat /\ Byte <= Margin
        /\ BitBlock \in Nat /\ Margin <= BitBlock
    BY GrownAbove, DbmchunkAssumption
  <1>2. bitblox' = Grown(m) /\ \E junk \in SUBSET LastByte : bits' = (bits \ LastByte) \cup junk
    BY <1>1 DEF growbit
  <1>3. LastByte \subseteq Nat /\ \A b \in LastByte : b >= Limit
    BY <1>1 DEF LastByte, Limit
  <1>4. QED
    BY <1>1, <1>2, <1>3 DEF Limit

-----------------------------------------------------------------------------
(* Types.                                                                  *)

LEMMA InitType ==
  ASSUME Init
  PROVE  TypeInv
  <1>1. BitBlock \in Nat /\ BitBlock < Grown(BitBlock) /\ Grown(BitBlock) \in Nat
    BY DbmchunkAssumption, GrownAbove
  <1>2. QED
    BY <1>1, IdleType DEF Init, TypeInv, TypeOK

LEMMA PutStep ==
  ASSUME TypeInv, NEW id \in Ids, NEW v \in Versions, NEW siz \in Sizes, dddb_put(id, v, siz)
  PROVE  /\ TypeInv' /\ UNCHANGED <<index, file, bitblox, torn>>
         /\ job.pc = "idle"
         /\ job'.id = id /\ job'.v = v /\ job'.siz = siz /\ job'.k = 0
         /\ \/ \E e \in Found(id) : /\ ~NeedsMove(e, siz) /\ bits' = bits
                                    /\ job'.pc = "store" /\ job'.slbn = e.lbn
            \/ \E e \in Found(id) : bits' = bits \ Blocks(e) /\ job'.pc = "alloc"
            \/ bits' = bits /\ job'.pc = "alloc"
  <1> DEFINE new == [Idle EXCEPT !.id = id, !.v = v, !.siz = siz]
             store(lbn) == [new EXCEPT !.pc = "store", !.slbn = lbn]
             alloc(lbn) == [new EXCEPT !.pc = "alloc", !.lbn = lbn]
  <1>1. new \in Job /\ new.id = id /\ new.v = v /\ new.siz = siz /\ new.k = 0
    BY IdleType DEF Job, Idle
  <1>2. \A lbn \in Nat :
           /\ store(lbn) \in Job /\ alloc(lbn) \in Job
           /\ store(lbn).id = id /\ store(lbn).v = v /\ store(lbn).siz = siz
           /\ alloc(lbn).id = id /\ alloc(lbn).v = v /\ alloc(lbn).siz = siz
           /\ store(lbn).k = 0 /\ alloc(lbn).k = 0
           /\ store(lbn).pc = "store" /\ alloc(lbn).pc = "alloc" /\ store(lbn).slbn = lbn
    <2> HIDE DEF new
    <2>1. QED
      BY <1>1 DEF Job
  <1>3. /\ job.pc = "idle" /\ Counted /\ UNCHANGED <<disk, bitblox, torn>>
        /\ \/ \E e \in Found(id) :
                 /\ ~NeedsMove(e, siz) /\ job' = store(e.lbn) /\ UNCHANGED <<bits, last_free>>
           \/ \E e \in Found(id) :
                 /\ bits' = bits \ Blocks(e) /\ last_free' = e.lbn /\ job' = alloc(e.lbn)
           \/ job' = alloc(last_free) /\ UNCHANGED <<bits, last_free>>
    BY DEF dddb_put
  <1> HIDE DEF store, alloc
  <1>4. UNCHANGED <<index, file, bitblox, torn>>
    BY <1>3 DEF disk
  <1>5. (\A e \in Found(id) : e.lbn \in Nat) /\ last_free \in Nat /\ bits \subseteq Nat
    BY DEF Found, TypeInv, TypeOK, Entry
  <1>6. job' \in Job /\ bits' \subseteq Nat /\ last_free' \in Nat
    BY <1>2, <1>3, <1>5
  <1>7. ops' \in Nat
    BY <1>3 DEF Counted, TypeInv, TypeOK
  <1>8. TypeInv'
    BY <1>4, <1>6, <1>7 DEF TypeInv, TypeOK
  <1>9. QED
    BY <1>2, <1>3, <1>4, <1>5, <1>8

LEMMA AllocStep ==
  ASSUME TypeInv, dddb_alloc
  PROVE  /\ TypeInv' /\ bitblox <= bitblox' /\ UNCHANGED <<index, file, torn>>
         /\ \A b \in Nat : b < Limit => (b \in bits' <=> b \in bits)
         /\ job.pc = "alloc" /\ job'.pc = "scan" /\ job'.lbn < Limit'
         /\ job'.slbn = job'.lbn /\ job'.left = BLOCKS_NEEDED(job.siz)
         /\ job'.id = job.id /\ job'.siz = job.siz /\ job'.k = job.k
  <1>1. /\ bits \subseteq Nat /\ bitblox \in Nat /\ BitBlock < bitblox /\ BitBlock \in Nat
        /\ Margin \in Nat /\ Margin <= BitBlock /\ Limit \in Int
        /\ job \in Job /\ job.lbn \in Nat /\ job.over \in BOOLEAN
    BY DbmchunkAssumption DEF TypeInv, TypeOK, Job, Limit
  <1>2. UNCHANGED <<index, file, last_free, torn, ops>> /\ job.pc = "alloc"
    BY DEF dddb_alloc, disk
  <1>3. /\ bits' \subseteq Nat /\ bitblox' \in Nat /\ bitblox <= bitblox'
        /\ \A b \in Nat : b < Limit => (b \in bits' <=> b \in bits)
        /\ \E lbn \in Nat, over \in BOOLEAN : AllocFrom(lbn, over) /\ lbn < Limit'
    <2>1. CASE job.lbn < Limit /\ AllocFrom(job.lbn, job.over) /\ UNCHANGED <<bits, bitblox>>
      BY <1>1, <2>1 DEF Limit
    <2>2. CASE AllocFrom(Bottom, TRUE) /\ UNCHANGED <<bits, bitblox>>
      <3>1. Bottom \in Nat /\ Bottom < Limit
        BY <1>1 DEF Bottom, Limit
      <3>2. Limit' = Limit
        BY <2>2 DEF Limit
      <3>3. \E lbn \in Nat, over \in BOOLEAN : AllocFrom(lbn, over) /\ lbn < Limit'
        BY <2>2, <3>1, <3>2, Zenon
      <3>4. QED
        BY <1>1, <2>2, <3>3
    <2>3. CASE job.lbn >= Limit /\ AllocFrom(job.lbn, TRUE) /\ growbit(job.lbn + BitBlock)
      <3>1. job.lbn + BitBlock \in Nat /\ job.lbn + BitBlock >= bitblox
        BY <1>1, <2>3 DEF Limit
      <3>2. /\ bits' \subseteq Nat /\ bitblox' \in Nat /\ bitblox < bitblox'
            /\ job.lbn + BitBlock < bitblox'
            /\ \A b \in Nat : b < Limit => (b \in bits' <=> b \in bits)
        BY <1>1, <2>3, <3>1, Grows
      <3>3. job.lbn < Limit'
        BY <1>1, <3>2 DEF Limit
      <3>4. \E lbn \in Nat, over \in BOOLEAN : AllocFrom(lbn, over) /\ lbn < Limit'
        BY <1>1, <2>3, <3>3, Zenon
      <3>5. QED
        BY <1>1, <2>3, <3>2, <3>4
    <2>4. QED
      BY <2>1, <2>2, <2>3 DEF dddb_alloc
  <1>4. PICK lbn \in Nat, over \in BOOLEAN : AllocFrom(lbn, over) /\ lbn < Limit'
    BY <1>3
  <1>5. BLOCKS_NEEDED(job.siz) \in Nat
    BY <1>1, NeededType DEF Job
  <1>6. /\ job' \in Job /\ job'.pc = "scan" /\ job'.lbn = lbn /\ job'.slbn = lbn
        /\ job'.left = BLOCKS_NEEDED(job.siz) /\ job'.id = job.id /\ job'.siz = job.siz
        /\ job'.k = job.k
    BY <1>1, <1>4, <1>5 DEF AllocFrom, Job
  <1>7. TypeInv'
    BY <1>1, <1>2, <1>3, <1>6 DEF TypeInv, TypeOK
  <1>8. QED
    BY <1>2, <1>3, <1>4, <1>6, <1>7

LEMMA ScanStep ==
  ASSUME TypeInv, Scan
  PROVE  /\ TypeInv' /\ bitblox <= bitblox' /\ UNCHANGED <<index, file, torn>>
         /\ job.pc = "scan" /\ job'.id = job.id /\ job'.siz = job.siz /\ job'.k = job.k
         /\ \/ job'.pc = "alloc" /\ UNCHANGED bits
            \/ /\ job.lbn \notin bits /\ job.left = 1 /\ UNCHANGED bitblox
               /\ bits' = bits \cup Place /\ job'.pc = "store" /\ job'.slbn = job.slbn
            \/ /\ job.lbn \notin bits /\ job.left > 1 /\ job'.pc = "scan"
               /\ job'.slbn = job.slbn /\ job'.lbn = job.lbn + 1 /\ job'.left = job.left - 1
               /\ \A b \in Nat : b < Limit => (b \in bits' <=> b \in bits)
               /\ job.lbn < Limit => job'.lbn < Limit'
  <1>1. /\ bits \subseteq Nat /\ bitblox \in Nat /\ BitBlock < bitblox /\ BitBlock \in Nat
        /\ Margin \in Nat /\ Margin <= BitBlock /\ Limit \in Int
        /\ job \in Job /\ job.lbn \in Nat /\ job.slbn \in Nat /\ job.left \in Nat
        /\ job.siz \in Sizes /\ last_free \in Nat
    BY DbmchunkAssumption DEF TypeInv, TypeOK, Job, Limit
  <1>2. UNCHANGED <<index, file, torn, ops>> /\ job.pc = "scan"
    BY DEF Scan, disk
  <1>3. CASE job' = [job EXCEPT !.pc = "alloc", !.lbn = @ + 1] /\ UNCHANGED bitmap
    <2>1. job' \in Job /\ job'.pc = "alloc" /\ job'.id = job.id /\ job'.siz = job.siz
          /\ job'.k = job.k
      <3> DEFINE lbn == job.lbn + 1
      <3>1. lbn \in Nat /\ job' = [job EXCEPT !.pc = "alloc", !.lbn = lbn]
        BY <1>1, <1>3
      <3> HIDE DEF lbn
      <3>2. QED
        BY <1>1, <3>1 DEF Job
    <2>2. TypeInv'
      BY <1>1, <1>2, <1>3, <2>1 DEF TypeInv, TypeOK, bitmap
    <2>3. QED
      BY <1>1, <1>2, <1>3, <2>1, <2>2 DEF bitmap
  <1>4. CASE /\ ~Taken(job.lbn) /\ job.left = 1
             /\ bits' = bits \cup Run(job.slbn, BLOCKS_NEEDED(job.siz))
             /\ last_free' = job.lbn
             /\ job' = [job EXCEPT !.pc = "store", !.left = 0]
             /\ UNCHANGED bitblox
    <2>1. job' \in Job /\ job'.pc = "store" /\ job'.id = job.id /\ job'.siz = job.siz
          /\ job'.k = job.k /\ job'.slbn = job.slbn
      BY <1>1, <1>4 DEF Job
    <2>2. bits' \subseteq Nat
      BY <1>1, <1>4, NeededType, RunType
    <2>3. TypeInv'
      BY <1>1, <1>2, <1>4, <2>1, <2>2 DEF TypeInv, TypeOK
    <2>4. QED
      BY <1>1, <1>2, <1>4, <2>1, <2>3 DEF Place, Taken
  <1>5. CASE /\ ~Taken(job.lbn) /\ job.left > 1
             /\ job' = [job EXCEPT !.lbn = @ + 1, !.left = @ - 1]
             /\ IF job.lbn + 1 >= Limit THEN growbit(job.lbn + 1 + BitBlock)
                                        ELSE UNCHANGED <<bits, bitblox>>
             /\ UNCHANGED last_free
    <2>1. job' \in Job /\ job'.pc = "scan" /\ job'.id = job.id /\ job'.siz = job.siz
          /\ job'.k = job.k /\ job'.slbn = job.slbn /\ job'.lbn = job.lbn + 1
          /\ job'.left = job.left - 1
      <3> DEFINE lbn == job.lbn + 1
                 left == job.left - 1
      <3>1. lbn \in Nat /\ left \in Nat /\ job' = [job EXCEPT !.lbn = lbn, !.left = left]
        BY <1>1, <1>5
      <3> HIDE DEF lbn, left
      <3>2. /\ job' \in Job /\ job'.pc = "scan" /\ job'.id = job.id /\ job'.siz = job.siz
            /\ job'.k = job.k /\ job'.slbn = job.slbn /\ job'.lbn = lbn /\ job'.left = left
        BY <1>1, <1>2, <3>1 DEF Job
      <3>3. QED
        BY <3>2 DEF lbn, left
    <2>2. /\ bits' \subseteq Nat /\ bitblox' \in Nat /\ bitblox <= bitblox'
          /\ \A b \in Nat : b < Limit => (b \in bits' <=> b \in bits)
          /\ job.lbn < Limit => job'.lbn < Limit'
      <3>1. CASE job.lbn + 1 >= Limit
        <4>1. job.lbn + 1 + BitBlock \in Nat /\ job.lbn + 1 + BitBlock >= bitblox
          BY <1>1, <3>1 DEF Limit
        <4>2. /\ bits' \subseteq Nat /\ bitblox' \in Nat /\ bitblox < bitblox'
              /\ job.lbn + 1 + BitBlock < bitblox'
              /\ \A b \in Nat : b < Limit => (b \in bits' <=> b \in bits)
          BY <1>1, <1>5, <3>1, <4>1, Grows
        <4>3. QED
          BY <1>1, <2>1, <4>2 DEF Limit
      <3>2. CASE ~(job.lbn + 1 >= Limit)
        BY <1>1, <1>5, <2>1, <3>2 DEF Limit
      <3>3. QED
        BY <3>1, <3>2
    <2>3. TypeInv'
      BY <1>1, <1>2, <1>5, <2>1, <2>2 DEF TypeInv, TypeOK
    <2>4. QED
      BY <1>1, <1>2, <1>5, <2>1, <2>2, <2>3 DEF Taken
  <1>6. QED
    BY <1>3, <1>4, <1>5 DEF Scan

\* A write to the file changes one block.
LEMMA Writes ==
  ASSUME TypeInv, NEW b \in Nat, NEW x \in Piece, file' = Written(b, x)
  PROVE  /\ \A d \in DOMAIN file' : d \in Nat /\ file'[d] \in Piece
         /\ \A d \in Nat : At(d)' = IF d = b THEN x ELSE At(d)
  <1>1. /\ DOMAIN file' = DOMAIN file \cup 0 .. b
        /\ \A d \in DOMAIN file' : file'[d] = IF d = b THEN x ELSE At(d)
    BY DEF Written
  <1>2. \A d : At(d) \in Piece
    BY IdleType DEF At, TypeInv, TypeOK
  <1>3. b \in DOMAIN file'
    BY <1>1
  <1>4. \A d \in Nat : At(d)' = IF d = b THEN x ELSE At(d)
    <2> SUFFICES ASSUME NEW d \in Nat PROVE At(d)' = IF d = b THEN x ELSE At(d)
      OBVIOUS
    <2>1. CASE d \in DOMAIN file'
      BY <1>1, <2>1 DEF At
    <2>2. CASE d \notin DOMAIN file'
      BY <1>1, <1>3, <2>2 DEF At, Nothing, Idle
    <2>3. QED
      BY <2>1, <2>2
  <1>5. \A d \in DOMAIN file' : d \in Nat /\ file'[d] \in Piece
    BY <1>1, <1>2 DEF TypeInv, TypeOK
  <1>6. QED
    BY <1>4, <1>5

NewEntry == [id |-> job.id, lbn |-> job.slbn, siz |-> job.siz]

LEMMA StoreStep ==
  ASSUME TypeInv, dbm_store
  PROVE  /\ TypeInv' /\ UNCHANGED <<file, bitmap>>
         /\ job.pc = "store"
         /\ \/ /\ index' = (index \ Found(job.id)) \cup {NewEntry} /\ torn' = torn \cup {job.id}
               /\ job'.pc = "write" /\ job'.id = job.id /\ job'.v = job.v /\ job'.siz = job.siz
               /\ job'.slbn = job.slbn /\ job'.k = job.k
            \/ /\ GaveUp => "move" \in Fails
               /\ job' = Idle /\ UNCHANGED <<index, torn>>
  <1>1. job \in Job /\ NewEntry \in Entry /\ job.id \in Ids
    BY DEF TypeInv, TypeOK, Job, NewEntry, Entry
  <1>2. job.pc = "store" /\ UNCHANGED <<file, bits, bitblox, last_free, ops>>
    BY DEF dbm_store, bitmap
  <1>3. CASE /\ index' = (index \ Found(job.id)) \cup {NewEntry} /\ torn' = torn \cup {job.id}
             /\ job' = [job EXCEPT !.pc = "write"]
    <2>1. /\ job' \in Job /\ job'.pc = "write" /\ job'.id = job.id /\ job'.v = job.v
          /\ job'.siz = job.siz /\ job'.slbn = job.slbn /\ job'.k = job.k
      BY <1>1, <1>3 DEF Job
    <2>2. TypeInv'
      BY <1>1, <1>2, <1>3, <2>1 DEF TypeInv, TypeOK
    <2>3. QED
      BY <1>2, <1>3, <2>1, <2>2 DEF bitmap
  <1>4. CASE /\ (IF GaveUp THEN "move" ELSE "store") \in Fails
             /\ job' = Idle /\ UNCHANGED <<index, torn>>
    BY <1>2, <1>4, IdleType DEF TypeInv, TypeOK, bitmap
  <1>5. QED
    BY <1>3, <1>4 DEF dbm_store, NewEntry

PieceAt(k) == [id |-> job.id, v |-> job.v, siz |-> job.siz, k |-> k]

LEMMA PackStep ==
  ASSUME TypeInv, pack_object
  PROVE  /\ TypeInv' /\ UNCHANGED <<index, bitmap>>
         /\ job.pc = "write"
         /\ \/ /\ \A d \in Nat : At(d)' = IF d = job.slbn + job.k THEN PieceAt(job.k) ELSE At(d)
               /\ \/ LastBlock /\ job' = Idle /\ torn' = torn \ {job.id}
                  \/ /\ ~LastBlock /\ UNCHANGED torn
                     /\ job'.pc = "write" /\ job'.id = job.id /\ job'.v = job.v
                     /\ job'.siz = job.siz /\ job'.slbn = job.slbn /\ job'.k = job.k + 1
            \/ job' = Idle /\ UNCHANGED <<file, torn>>
  <1>1. /\ job \in Job /\ job.slbn + job.k \in Nat /\ PieceAt(job.k) \in Piece /\ job.k + 1 \in Nat
    BY DEF TypeInv, TypeOK, Job, PieceAt, Piece
  <1>2. job.pc = "write" /\ UNCHANGED <<index, bits, bitblox, last_free, ops>>
    BY DEF pack_object, bitmap
  <1>3. CASE /\ file' = Written(job.slbn + job.k, PieceAt(job.k))
             /\ IF LastBlock
                THEN job' = Idle /\ torn' = torn \ {job.id}
                ELSE job' = [job EXCEPT !.k = @ + 1] /\ UNCHANGED torn
    <2>1. /\ \A d \in DOMAIN file' : d \in Nat /\ file'[d] \in Piece
          /\ \A d \in Nat : At(d)' = IF d = job.slbn + job.k THEN PieceAt(job.k) ELSE At(d)
      BY <1>1, <1>3, Writes
    <2>2. CASE LastBlock /\ job' = Idle /\ torn' = torn \ {job.id}
      BY <1>2, <2>1, <2>2, IdleType DEF TypeInv, TypeOK, bitmap
    <2>3. CASE ~LastBlock /\ job' = [job EXCEPT !.k = @ + 1] /\ UNCHANGED torn
      <3> DEFINE k == job.k + 1
      <3>1. k \in Nat /\ job' = [job EXCEPT !.k = k]
        BY <1>1, <2>3
      <3> HIDE DEF k
      <3>2. /\ job' \in Job /\ job'.pc = "write" /\ job'.id = job.id /\ job'.v = job.v
            /\ job'.siz = job.siz /\ job'.slbn = job.slbn /\ job'.k = k
        BY <1>1, <1>2, <3>1 DEF Job
      <3>3. TypeInv'
        BY <1>2, <2>1, <2>3, <3>2 DEF TypeInv, TypeOK
      <3>4. QED
        BY <1>2, <2>1, <2>3, <3>2, <3>3 DEF bitmap, k
    <2>4. QED
      BY <1>3, <2>2, <2>3
  <1>4. CASE job' = Idle /\ UNCHANGED <<file, torn>>
    BY <1>2, <1>4, IdleType DEF TypeInv, TypeOK, bitmap
  <1>5. QED
    BY <1>3, <1>4 DEF pack_object, PieceAt

LEMMA DelStep ==
  ASSUME TypeInv, NEW id \in Ids, dddb_del(id)
  PROVE  /\ TypeInv' /\ UNCHANGED <<bitblox, job>> /\ job.pc = "idle"
         /\ \E e \in Found(id) :
               /\ index' = index \ {e} /\ torn' = torn \ {id} /\ bits' = bits \ Blocks(e)
               /\ \A d \in Nat : At(d)' = IF d = e.lbn THEN Nothing ELSE At(d)
  <1>1. PICK e \in Found(id) : /\ index' = index \ {e} /\ bits' = bits \ Blocks(e)
                               /\ last_free' = e.lbn /\ file' = Written(e.lbn, Nothing)
    BY DEF dddb_del
  <1>2. job.pc = "idle" /\ torn' = torn \ {id} /\ UNCHANGED <<bitblox, job>> /\ Counted
    BY DEF dddb_del
  <1>3. e.lbn \in Nat
    BY DEF Found, TypeInv, TypeOK, Entry
  <1>4. /\ \A d \in DOMAIN file' : d \in Nat /\ file'[d] \in Piece
        /\ \A d \in Nat : At(d)' = IF d = e.lbn THEN Nothing ELSE At(d)
    BY <1>1, <1>3, Writes, IdleType
  <1>5. TypeInv'
    <2>1. index' \subseteq Entry /\ torn' \subseteq Ids /\ bits' \subseteq Nat
      BY <1>1, <1>2 DEF TypeInv, TypeOK
    <2>2. last_free' \in Nat /\ UNCHANGED <<bitblox, job>>
      BY <1>1, <1>2, <1>3
    <2>3. ops' \in Nat
      BY <1>2 DEF TypeInv, TypeOK, Counted
    <2>4. QED
      BY <1>4, <2>1, <2>2, <2>3 DEF TypeInv, TypeOK
  <1>6. QED
    BY <1>1, <1>2, <1>4, <1>5

LEMMA CrashStep ==
  ASSUME TypeInv, Crash
  PROVE  /\ TypeInv' /\ UNCHANGED <<index, file, torn>>
         /\ job'.pc = "init" /\ job'.k = 0 /\ job'.todo = {e.id : e \in index}
  <1> DEFINE todo == {e.id : e \in index}
  <1>1. PICK len \in FileBlocks : bitblox' = Grown(len + BitBlock)
    BY DEF Crash
  <1>2. len \in Nat /\ BitBlock \in Nat
    BY DbmchunkAssumption DEF FileBlocks, TypeInv, TypeOK
  <1>3. bitblox' \in Nat /\ BitBlock < bitblox'
    BY <1>1, <1>2, GrownAbove
  <1>4. todo \in SUBSET Ids
    BY DEF TypeInv, TypeOK, Entry
  <1>5. job' = [Idle EXCEPT !.pc = "init", !.todo = todo]
    BY DEF Crash
  <1> HIDE DEF todo
  <1>6. job' \in Job /\ job'.pc = "init" /\ job'.k = 0 /\ job'.todo = todo
    <2>1. Idle \in Job /\ Idle.k = 0
      BY IdleType DEF Idle
    <2>2. QED
      BY <1>4, <1>5, <2>1 DEF Job
  <1>7. UNCHANGED <<index, file, torn>> /\ bits' = {} /\ last_free' = 0 /\ Counted
    BY DEF Crash, disk
  <1>8. TypeInv'
    BY <1>3, <1>6, <1>7 DEF TypeInv, TypeOK, Counted
  <1>9. QED
    BY <1>6, <1>7, <1>8 DEF todo

LEMMA MarkStep ==
  ASSUME TypeInv, dddb_mark
  PROVE  /\ TypeInv' /\ UNCHANGED <<index, file, torn>>
         /\ job.pc = "init" /\ job'.pc = "init" /\ bitblox <= bitblox'
         /\ \A b \in Nat : b < Limit /\ b \in bits => b \in bits'
         /\ \E e \in index :
               /\ e.id \in job.todo /\ (job.k > 0 => e.id = job.id)
               /\ e.lbn + job.k \in bits' /\ e.lbn + job.k < Limit'
               /\ \/ /\ job.k + 1 = BLOCKS_NEEDED(e.siz)
                     /\ job'.k = 0 /\ job'.todo = job.todo \ {e.id}
                  \/ /\ job'.k = job.k + 1 /\ job'.todo = job.todo /\ job'.id = e.id
  <1>1. /\ bits \subseteq Nat /\ bitblox \in Nat /\ BitBlock < bitblox /\ BitBlock \in Nat
        /\ Margin \in Nat /\ Margin <= BitBlock /\ Limit \in Int /\ Byte \in Nat /\ Byte <= Margin
        /\ job \in Job /\ job.k \in Nat
    BY DbmchunkAssumption DEF TypeInv, TypeOK, Job, Limit
  <1>2. job.pc = "init" /\ UNCHANGED <<index, file, last_free, torn, ops>>
    BY DEF dddb_mark, disk
  <1>3. PICK e \in index :
          /\ e.id \in job.todo /\ (job.k > 0 => e.id = job.id)
          /\ LET b == e.lbn + job.k
             IN  IF b >= Limit
                 THEN /\ bitblox' = Grown(b + BitBlock)
                      /\ \E junk \in SUBSET LastByte :
                            bits' = (bits \ LastByte) \cup junk \cup {b}
                 ELSE bits' = bits \cup {b} /\ UNCHANGED bitblox
          /\ job' = IF job.k + 1 = BLOCKS_NEEDED(e.siz)
                    THEN [job EXCEPT !.k = 0, !.todo = @ \ {e.id}]
                    ELSE [job EXCEPT !.k = @ + 1, !.id = e.id]
    BY DEF dddb_mark
  <1> DEFINE b == e.lbn + job.k
  <1>4. b \in Nat /\ e.id \in Ids
    BY <1>1 DEF TypeInv, TypeOK, Entry
  <1>5. /\ bits' \subseteq Nat /\ bitblox' \in Nat /\ bitblox <= bitblox'
        /\ \A a \in Nat : a < Limit /\ a \in bits => a \in bits'
        /\ b \in bits' /\ b < Limit'
    <2>1. CASE b >= Limit
      <3>1. Grown(b + BitBlock) \in Nat /\ b + BitBlock < Grown(b + BitBlock)
        BY <1>1, <1>4, GrownAbove
      <3>2. LastByte \subseteq Nat /\ \A a \in LastByte : a >= Limit
        BY <1>1 DEF LastByte, Limit
      <3>3. PICK junk \in SUBSET LastByte : bits' = (bits \ LastByte) \cup junk \cup {b}
        BY <1>3, <2>1
      <3>4. bitblox' = Grown(b + BitBlock)
        BY <1>3, <2>1
      <3> HIDE DEF b
      <3>5. bits' \subseteq Nat /\ b \in bits' /\ \A a \in Nat : a < Limit /\ a \in bits => a \in bits'
        BY <1>1, <1>4, <3>2, <3>3
      <3>6. bitblox' \in Nat /\ bitblox <= bitblox' /\ b < Limit'
        BY <1>1, <1>4, <2>1, <3>1, <3>4 DEF Limit
      <3>7. QED
        BY <3>5, <3>6
    <2>2. CASE ~(b >= Limit)
      <3>1. bits' = bits \cup {b} /\ UNCHANGED bitblox
        BY <1>3, <2>2
      <3> HIDE DEF b
      <3>2. QED
        BY <1>1, <1>4, <2>2, <3>1 DEF Limit
    <2>3. QED
      BY <2>1, <2>2
  <1>6. /\ job' \in Job /\ job'.pc = "init"
        /\ \/ /\ job.k + 1 = BLOCKS_NEEDED(e.siz)
              /\ job'.k = 0 /\ job'.todo = job.todo \ {e.id}
           \/ job'.k = job.k + 1 /\ job'.todo = job.todo /\ job'.id = e.id
    <2>1. CASE job.k + 1 = BLOCKS_NEEDED(e.siz)
      <3>1. job.todo \ {e.id} \in SUBSET Ids /\ 0 \in Nat
        BY <1>1 DEF Job
      <3>2. QED
        BY <1>1, <1>2, <1>3, <2>1, <3>1 DEF Job
    <2>2. CASE job.k + 1 # BLOCKS_NEEDED(e.siz)
      <3> DEFINE k == job.k + 1
      <3>1. k \in Nat /\ job' = [job EXCEPT !.k = k, !.id = e.id]
        BY <1>1, <1>3, <2>2
      <3> HIDE DEF k
      <3>2. job' \in Job /\ job'.pc = "init" /\ job'.k = k /\ job'.todo = job.todo /\ job'.id = e.id
        BY <1>1, <1>2, <1>4, <3>1 DEF Job
      <3>3. QED
        BY <3>2 DEF k
    <2>3. QED
      BY <2>1, <2>2
  <1>7. TypeInv'
    BY <1>1, <1>2, <1>5, <1>6 DEF TypeInv, TypeOK
  <1>8. QED
    BY <1>2, <1>3, <1>5, <1>6, <1>7

LEMMA NextType == TypeInv /\ [Next]_vars => TypeInv'
  <1> SUFFICES ASSUME TypeInv, [Next]_vars PROVE TypeInv'
    OBVIOUS
  <1>1. CASE InitDone
    BY <1>1, IdleType DEF InitDone, disk, bitmap, TypeInv, TypeOK
  <1>2. CASE UNCHANGED vars
    BY <1>2 DEF vars, disk, bitmap, TypeInv, TypeOK
  <1>3. QED
    BY <1>1, <1>2, DelStep, PutStep, AllocStep, ScanStep, StoreStep, PackStep, CrashStep, MarkStep
    DEF Next

\* Every reachable state of the disk store is well typed, whatever fails.
THEOREM DiskTyped == Spec => []TypeOK
  <1>1. TypeInv => TypeOK
    BY DEF TypeInv
  <1>2. QED
    BY <1>1, InitType, NextType, PTL DEF Spec


-----------------------------------------------------------------------------
(* The invariant.                                                          *)

\* A shorter run that starts at the same block lies within the longer one.
LEMMA Shorter ==
  ASSUME NEW e \in Entry, NEW siz \in Sizes, ~NeedsMove(e, siz)
  PROVE  Run(e.lbn, BLOCKS_NEEDED(siz)) \subseteq Blocks(e)
  <1>1. e.lbn \in Nat /\ BLOCKS_NEEDED(siz) \in Nat /\ BLOCKS_NEEDED(e.siz) \in Nat
    BY NeededType DEF Entry
  <1>2. BLOCKS_NEEDED(siz) <= BLOCKS_NEEDED(e.siz)
    BY <1>1 DEF NeedsMove
  <1>3. QED
    BY <1>1, <1>2, RunType DEF Blocks

LEMMA InitIInv ==
  ASSUME Init
  PROVE  IInv
  BY DEF Init, Idle, IInv, Disjoint, MarkedInv, InitInv, ScanInv, PlaceInv, WriteInv, FileInv

LEMMA PutInv ==
  ASSUME TypeInv, IInv, NEW id \in Ids, NEW v \in Versions, NEW siz \in Sizes,
         dddb_put(id, v, siz)
  PROVE  IInv'
  <1>1. /\ TypeInv' /\ UNCHANGED <<index, file, bitblox, torn>>
        /\ job.pc = "idle"
        /\ job'.id = id /\ job'.v = v /\ job'.siz = siz /\ job'.k = 0
        /\ \/ \E e \in Found(id) : /\ ~NeedsMove(e, siz) /\ bits' = bits
                                   /\ job'.pc = "store" /\ job'.slbn = e.lbn
           \/ \E e \in Found(id) : bits' = bits \ Blocks(e) /\ job'.pc = "alloc"
           \/ bits' = bits /\ job'.pc = "alloc"
    BY PutStep
  <1>2. /\ index \subseteq Entry
        /\ \A e \in index : Inside(Blocks(e)) /\ Blocks(e) \subseteq bits
        /\ \A e, d \in index : e # d => e.id # d.id /\ Blocks(e) \cap Blocks(d) = {}
    BY <1>1 DEF TypeInv, TypeOK, IInv, Disjoint, MarkedInv, Known, Moving
  <1>3. Disjoint'
    BY <1>1, <1>2 DEF Disjoint, Blocks, Run
  <1>4. MarkedInv'
    <2> SUFFICES ASSUME NEW d \in index
                 PROVE  Inside(Blocks(d))' /\ (d.id # id => Blocks(d) \subseteq bits')
      BY <1>1 DEF MarkedInv, Moving
    <2>1. Inside(Blocks(d))'
      BY <1>1, <1>2 DEF Inside, Limit
    <2>2. ASSUME d.id # id PROVE Blocks(d) \subseteq bits'
      <3>1. \A e \in Found(id) : Blocks(d) \cap Blocks(e) = {}
        BY <1>2, <2>2 DEF Found
      <3>2. QED
        BY <1>1, <1>2, <3>1
    <2>3. QED
      BY <2>1, <2>2
  <1>5. PlaceInv'
    <2> SUFFICES ASSUME job'.pc = "store" PROVE PlaceInv'
      BY DEF PlaceInv
    <2>1. PICK e \in Found(id) : ~NeedsMove(e, siz) /\ bits' = bits /\ job'.slbn = e.lbn
      BY <1>1
    <2>2. Place' = Run(e.lbn, BLOCKS_NEEDED(siz)) /\ e \in index /\ e.id = id
      BY <1>1, <2>1 DEF Place, Found
    <2>3. Place' \subseteq Blocks(e)
      BY <1>2, <2>1, <2>2, Shorter
    <2>4. Inside(Place)'
      BY <1>1, <1>2, <2>2, <2>3 DEF Inside, Limit
    <2>5. \A d \in index : d.id # id => Blocks(d) \cap Place' = {}
      BY <1>2, <2>2, <2>3
    <2>6. QED
      BY <1>1, <1>2, <2>1, <2>2, <2>3, <2>4, <2>5 DEF PlaceInv
  <1>6. FileInv'
    BY <1>1 DEF FileInv, IInv, Stored, At
  <1>7. InitInv' /\ ScanInv' /\ WriteInv'
    BY <1>1 DEF InitInv, ScanInv, WriteInv
  <1>8. QED
    BY <1>3, <1>4, <1>5, <1>6, <1>7 DEF IInv

LEMMA AllocInv ==
  ASSUME TypeInv, IInv, dddb_alloc
  PROVE  IInv'
  <1>1. /\ TypeInv' /\ bitblox <= bitblox' /\ UNCHANGED <<index, file, torn>>
        /\ \A b \in Nat : b < Limit => (b \in bits' <=> b \in bits)
        /\ job.pc = "alloc" /\ job'.pc = "scan" /\ job'.lbn < Limit'
        /\ job'.slbn = job'.lbn /\ job'.left = BLOCKS_NEEDED(job.siz)
        /\ job'.id = job.id /\ job'.siz = job.siz /\ job'.k = job.k
    BY AllocStep
  <1>2. /\ index \subseteq Entry /\ bitblox \in Nat /\ bitblox' \in Nat /\ Margin \in Nat
        /\ job' \in Job /\ job \in Job
    BY <1>1, DbmchunkAssumption DEF TypeInv, TypeOK
  <1>3. Disjoint'
    BY <1>1 DEF IInv, Disjoint, Blocks, Run
  <1>4. MarkedInv'
    <2> SUFFICES ASSUME NEW e \in index
                 PROVE  Inside(Blocks(e))' /\ (e.id # job.id => Blocks(e) \subseteq bits')
      BY <1>1 DEF MarkedInv, Moving
    <2>1. Inside(Blocks(e)) /\ (e.id # job.id => Blocks(e) \subseteq bits) /\ Blocks(e) \subseteq Nat
      BY <1>1, <1>2, BlocksType DEF IInv, MarkedInv, Known, Moving
    <2>2. Inside(Blocks(e))'
      BY <1>1, <1>2, <2>1 DEF Inside, Limit
    <2>3. e.id # job.id => Blocks(e) \subseteq bits'
      BY <1>1, <2>1 DEF Inside
    <2>4. QED
      BY <2>2, <2>3
  <1>5. ScanInv'
    <2>1. BLOCKS_NEEDED(job.siz) \in Nat \ {0} /\ job'.lbn \in Nat /\ job'.slbn \in Nat
      BY <1>2, NeededType DEF Job
    <2>2. \A b \in bits' : ~(job'.slbn <= b /\ b < job'.lbn)
      BY <1>1, <2>1 DEF TypeInv, TypeOK
    <2>3. QED
      BY <1>1, <2>1, <2>2 DEF ScanInv
  <1>6. FileInv'
    BY <1>1 DEF FileInv, IInv, Stored, At
  <1>7. InitInv' /\ PlaceInv' /\ WriteInv'
    BY <1>1 DEF IInv, InitInv, PlaceInv, WriteInv
  <1>8. QED
    BY <1>3, <1>4, <1>5, <1>6, <1>7 DEF IInv

LEMMA ScanKeeps ==
  ASSUME TypeInv, IInv, Scan
  PROVE  IInv'
  <1>1. /\ TypeInv' /\ bitblox <= bitblox' /\ UNCHANGED <<index, file, torn>>
        /\ job.pc = "scan" /\ job'.id = job.id /\ job'.siz = job.siz /\ job'.k = job.k
        /\ \/ job'.pc = "alloc" /\ UNCHANGED bits
           \/ /\ job.lbn \notin bits /\ job.left = 1 /\ UNCHANGED bitblox
              /\ bits' = bits \cup Place /\ job'.pc = "store" /\ job'.slbn = job.slbn
           \/ /\ job.lbn \notin bits /\ job.left > 1 /\ job'.pc = "scan"
              /\ job'.slbn = job.slbn /\ job'.lbn = job.lbn + 1 /\ job'.left = job.left - 1
              /\ \A b \in Nat : b < Limit => (b \in bits' <=> b \in bits)
              /\ job.lbn < Limit => job'.lbn < Limit'
    BY ScanStep
  <1>2. /\ index \subseteq Entry /\ bitblox \in Nat /\ bitblox' \in Nat /\ Margin \in Nat
        /\ bits \subseteq Nat /\ bits' \subseteq Nat /\ Limit \in Int
    BY <1>1, DbmchunkAssumption DEF TypeInv, TypeOK, Limit
  <1>3. /\ job.slbn \in Nat /\ job.lbn \in Nat /\ job.left \in Nat
        /\ BLOCKS_NEEDED(job.siz) \in Nat \ {0}
    BY NeededType DEF TypeInv, TypeOK, Job
  <1>4. /\ job.slbn <= job.lbn /\ job.lbn < Limit
        /\ job.left > 0 /\ job.left + job.lbn = job.slbn + BLOCKS_NEEDED(job.siz)
        /\ \A b \in bits : ~(job.slbn <= b /\ b < job.lbn)
    BY <1>1 DEF IInv, ScanInv
  <1>5. \A e \in index : /\ Inside(Blocks(e)) /\ Blocks(e) \subseteq Nat
                         /\ e.id # job.id => Blocks(e) \subseteq bits
    BY <1>1, <1>2, BlocksType DEF IInv, MarkedInv, Known, Moving
  <1>6. Disjoint'
    BY <1>1 DEF IInv, Disjoint, Blocks, Run
  <1>7. MarkedInv'
    <2> SUFFICES ASSUME NEW e \in index
                 PROVE  Inside(Blocks(e))' /\ (e.id # job.id => Blocks(e) \subseteq bits')
      BY <1>1 DEF MarkedInv, Moving
    <2>1. Inside(Blocks(e))'
      BY <1>1, <1>2, <1>5 DEF Inside, Limit
    <2>2. e.id # job.id => Blocks(e) \subseteq bits'
      BY <1>1, <1>5 DEF Inside
    <2>3. QED
      BY <2>1, <2>2
  <1>8. ScanInv'
    <2> SUFFICES ASSUME job'.pc = "scan" PROVE ScanInv'
      BY DEF ScanInv
    <2>1. /\ job.lbn \notin bits /\ job.left > 1
          /\ job'.slbn = job.slbn /\ job'.lbn = job.lbn + 1 /\ job'.left = job.left - 1
          /\ \A b \in Nat : b < Limit => (b \in bits' <=> b \in bits)
          /\ job'.lbn < Limit'
      BY <1>1, <1>4
    <2>2. ASSUME NEW b \in bits', job.slbn <= b, b < job.lbn + 1 PROVE FALSE
      <3>1. b \in Nat /\ b < Limit
        BY <1>2, <1>3, <1>4, <2>2
      <3>2. b \in bits
        BY <2>1, <3>1
      <3>3. b < job.lbn \/ b = job.lbn
        BY <1>3, <2>2, <3>1
      <3>4. QED
        BY <1>4, <2>1, <2>2, <3>2, <3>3
    <2>3. job'.slbn <= job'.lbn /\ job'.left > 0
          /\ job'.left + job'.lbn = job'.slbn + BLOCKS_NEEDED(job'.siz)
      BY <1>1, <1>3, <1>4, <2>1
    <2>4. QED
      BY <2>1, <2>2, <2>3 DEF ScanInv
  <1>9. PlaceInv'
    <2> SUFFICES ASSUME job'.pc = "store" PROVE PlaceInv'
      BY DEF PlaceInv
    <2>1. /\ job.lbn \notin bits /\ job.left = 1 /\ UNCHANGED bitblox
          /\ bits' = bits \cup Place /\ job'.slbn = job.slbn
      BY <1>1
    <2>2. \A b \in Place : b \in Nat /\ job.slbn <= b /\ (b < job.lbn \/ b = job.lbn)
      BY <1>3, <1>4, <2>1, RunType DEF Place
    <2>3. Inside(Place)
      BY <1>2, <1>3, <1>4, <2>2 DEF Inside
    <2>4. Place \cap bits = {}
      BY <1>4, <2>1, <2>2
    <2>5. Place' = Place
      BY <1>1, <2>1 DEF Place
    <2>6. Inside(Place)'
      BY <2>1, <2>3, <2>5 DEF Inside, Limit
    <2>7. \A e \in index : e.id # job.id => Blocks(e) \cap Place = {}
      BY <1>5, <2>4
    <2>8. QED
      BY <1>1, <2>1, <2>5, <2>6, <2>7 DEF PlaceInv
  <1>10. FileInv'
    BY <1>1 DEF FileInv, IInv, Stored, At
  <1>11. InitInv' /\ WriteInv'
    BY <1>1 DEF IInv, InitInv, WriteInv
  <1>12. QED
    BY <1>6, <1>7, <1>8, <1>9, <1>10, <1>11 DEF IInv


\* The index entry is stored; if that fails, the object must not have moved.
LEMMA StoreKeeps ==
  ASSUME "move" \notin Fails, TypeInv, IInv, dbm_store
  PROVE  IInv'
  <1>1. /\ TypeInv' /\ UNCHANGED <<file, bitmap>>
        /\ job.pc = "store"
        /\ \/ /\ index' = (index \ Found(job.id)) \cup {NewEntry} /\ torn' = torn \cup {job.id}
              /\ job'.pc = "write" /\ job'.id = job.id /\ job'.v = job.v /\ job'.siz = job.siz
              /\ job'.slbn = job.slbn /\ job'.k = job.k
           \/ /\ GaveUp => "move" \in Fails
              /\ job' = Idle /\ UNCHANGED <<index, torn>>
    BY StoreStep
  <1>2. /\ UNCHANGED <<bits, bitblox>> /\ job \in Job /\ index \subseteq Entry
    BY <1>1 DEF bitmap, TypeInv, TypeOK
  <1>3. /\ Place \subseteq bits /\ Inside(Place)
        /\ \A e \in index : e.id # job.id => Blocks(e) \cap Place = {}
        /\ job.k = 0
    BY <1>1 DEF IInv, PlaceInv, WriteInv
  <1>4. \A e \in index : Inside(Blocks(e)) /\ (e.id # job.id => Blocks(e) \subseteq bits)
    BY <1>1 DEF IInv, MarkedInv, Known, Moving
  <1>5. \A S : Inside(S) => Inside(S)'
    BY <1>2 DEF Inside, Limit
  <1>6. CASE /\ index' = (index \ Found(job.id)) \cup {NewEntry} /\ torn' = torn \cup {job.id}
             /\ job'.pc = "write" /\ job'.id = job.id /\ job'.v = job.v /\ job'.siz = job.siz
             /\ job'.slbn = job.slbn /\ job'.k = job.k
    <2>1. Blocks(NewEntry) = Place /\ NewEntry.id = job.id
      BY DEF Blocks, NewEntry, Place
    <2>2. \A e \in index' : e = NewEntry \/ (e \in index /\ e.id # job.id)
      BY <1>6 DEF Found
    <2>3. Disjoint'
      <3> SUFFICES ASSUME NEW e \in index', NEW d \in index', e # d
                   PROVE  e.id # d.id /\ Blocks(e) \cap Blocks(d) = {}
        BY DEF Disjoint, Blocks, Run
      <3>1. CASE e \in index /\ d \in index
        BY <3>1 DEF IInv, Disjoint
      <3>2. CASE e = NewEntry /\ d \in index /\ d.id # job.id
        BY <1>3, <2>1, <3>2
      <3>3. CASE d = NewEntry /\ e \in index /\ e.id # job.id
        BY <1>3, <2>1, <3>3
      <3>4. QED
        BY <2>2, <3>1, <3>2, <3>3
    <2>4. MarkedInv'
      <3> SUFFICES ASSUME NEW e \in index' PROVE Inside(Blocks(e))' /\ Blocks(e) \subseteq bits'
        BY DEF MarkedInv
      <3>1. Inside(Blocks(e)) /\ Blocks(e) \subseteq bits
        BY <1>3, <1>4, <2>1, <2>2
      <3>2. QED
        BY <1>2, <1>5, <3>1
    <2>5. WriteInv'
      <3>1. BLOCKS_NEEDED(job.siz) \in Nat \ {0}
        BY <1>2, NeededType DEF Job
      <3>2. NewEntry \in index' /\ job.id \in torn'
        BY <1>6
      <3>3. job'.k < BLOCKS_NEEDED(job'.siz) /\ \A k \in Nat : ~(k < job'.k)
        BY <1>3, <1>6, <3>1
      <3>4. QED
        BY <1>6, <3>2, <3>3 DEF WriteInv, NewEntry
    <2>6. FileInv'
      <3> SUFFICES ASSUME NEW e \in index', e.id \notin torn'
                   PROVE  \E v \in Versions : Stored(e, v)'
        BY DEF FileInv
      <3>1. e \in index /\ e.id \notin torn
        BY <1>6, <2>1, <2>2
      <3>2. QED
        BY <1>1, <3>1 DEF IInv, FileInv, Stored, At
    <2>7. InitInv' /\ ScanInv' /\ PlaceInv'
      BY <1>6 DEF InitInv, ScanInv, PlaceInv
    <2>8. QED
      BY <2>3, <2>4, <2>5, <2>6, <2>7 DEF IInv
  <1>7. CASE ~GaveUp /\ job' = Idle /\ UNCHANGED <<index, torn>>
    <2>1. \A e \in index : Inside(Blocks(e))' /\ Blocks(e) \subseteq bits'
      BY <1>2, <1>4, <1>5, <1>7 DEF GaveUp, Found
    <2>2. MarkedInv'
      BY <1>7, <2>1 DEF MarkedInv
    <2>3. InitInv' /\ ScanInv' /\ PlaceInv' /\ WriteInv'
      BY <1>7 DEF InitInv, ScanInv, PlaceInv, WriteInv, Idle
    <2>4. Disjoint'
      BY <1>7 DEF IInv, Disjoint, Blocks, Run
    <2>5. FileInv'
      BY <1>1, <1>7 DEF IInv, FileInv, Stored, At
    <2>6. QED
      BY <2>2, <2>3, <2>4, <2>5 DEF IInv
  <1>8. QED
    BY <1>1, <1>6, <1>7

\* What is stored of an object does not change if its blocks do not.
LEMMA StoredKept ==
  ASSUME NEW e \in Entry, NEW v \in Versions, Stored(e, v), \A d \in Blocks(e) : At(d)' = At(d)
  PROVE  Stored(e, v)'
  <1> SUFFICES ASSUME NEW k \in Nat, k < BLOCKS_NEEDED(e.siz)
               PROVE  At(e.lbn + k)' = [id |-> e.id, v |-> v, siz |-> e.siz, k |-> k]
    BY DEF Stored
  <1>1. e.lbn + k \in Blocks(e)
    <2>1. e.lbn \in Nat /\ BLOCKS_NEEDED(e.siz) \in Nat
      BY NeededType DEF Entry
    <2>2. QED
      BY <2>1, BlocksType
  <1>2. QED
    BY <1>1 DEF Stored

LEMMA PackKeeps ==
  ASSUME TypeInv, IInv, pack_object
  PROVE  IInv'
  <1>1. /\ TypeInv' /\ UNCHANGED <<index, bitmap>>
        /\ job.pc = "write"
        /\ \/ /\ \A d \in Nat : At(d)' = IF d = job.slbn + job.k THEN PieceAt(job.k) ELSE At(d)
              /\ \/ LastBlock /\ job' = Idle /\ torn' = torn \ {job.id}
                 \/ /\ ~LastBlock /\ UNCHANGED torn
                    /\ job'.pc = "write" /\ job'.id = job.id /\ job'.v = job.v
                    /\ job'.siz = job.siz /\ job'.slbn = job.slbn /\ job'.k = job.k + 1
           \/ job' = Idle /\ UNCHANGED <<file, torn>>
    BY PackStep
  <1>2. /\ UNCHANGED <<index, bits, bitblox>> /\ job \in Job /\ index \subseteq Entry
        /\ job.k \in Nat /\ job.slbn \in Nat /\ job.v \in Versions /\ NewEntry \in Entry
        /\ BLOCKS_NEEDED(job.siz) \in Nat
    BY <1>1, NeededType DEF bitmap, TypeInv, TypeOK, Job, NewEntry, Entry
  <1>3. /\ job.id \in torn /\ NewEntry \in index /\ job.k < BLOCKS_NEEDED(job.siz)
        /\ \A k \in Nat : k < job.k => At(job.slbn + k) = PieceAt(k)
    BY <1>1 DEF IInv, WriteInv, NewEntry, PieceAt
  <1>4. Disjoint'
    BY <1>2 DEF IInv, Disjoint, Blocks, Run
  <1>5. MarkedInv'
    <2>1. \A e \in index : Inside(Blocks(e)) /\ Blocks(e) \subseteq bits
      BY <1>1 DEF IInv, MarkedInv, Known, Moving
    <2>2. job'.pc \in {"idle", "write"}
      BY <1>1 DEF Idle
    <2>3. \A e \in index : Inside(Blocks(e))'
      BY <1>2, <2>1 DEF Inside, Limit
    <2>4. QED
      BY <1>2, <2>1, <2>2, <2>3 DEF MarkedInv
  <1>6. InitInv' /\ ScanInv' /\ PlaceInv'
    BY <1>1 DEF InitInv, ScanInv, PlaceInv, Idle
  <1>7. ASSUME NEW e \in index, e.id # job.id, e.id \notin torn'
        PROVE  \E v \in Versions : Stored(e, v)'
    <2>1. e.id \notin torn /\ e \in Entry
      BY <1>1, <1>2, <1>7
    <2>2. PICK v \in Versions : Stored(e, v)
      BY <2>1 DEF IInv, FileInv
    <2>3. Blocks(e) \cap Blocks(NewEntry) = {}
      BY <1>3, <1>7 DEF IInv, Disjoint, NewEntry
    <2>4. job.slbn + job.k \in Blocks(NewEntry)
      BY <1>2, <1>3, BlocksType DEF NewEntry
    <2>5. \A d \in Blocks(e) : At(d)' = At(d)
      <3>1. Blocks(e) \subseteq Nat
        BY <2>1, BlocksType
      <3>2. QED
        BY <1>1, <2>3, <2>4, <3>1 DEF At
    <2>6. QED
      BY <2>1, <2>2, <2>5, StoredKept
  <1>8. CASE /\ \A d \in Nat : At(d)' = IF d = job.slbn + job.k THEN PieceAt(job.k) ELSE At(d)
             /\ LastBlock /\ job' = Idle /\ torn' = torn \ {job.id}
    <2>1. PICK n \in index, v \in Versions : n = NewEntry /\ v = job.v
      BY <1>2, <1>3
    <2>2. Stored(n, v)'
      <3> SUFFICES ASSUME NEW k \in Nat, k < BLOCKS_NEEDED(n.siz)
                   PROVE  At(n.lbn + k)' = [id |-> n.id, v |-> v, siz |-> n.siz, k |-> k]
        BY DEF Stored
      <3>1. n.lbn = job.slbn /\ n.siz = job.siz /\ n.id = job.id
        BY <2>1 DEF NewEntry
      <3>2. k = job.k \/ k < job.k
        BY <1>2, <1>8, <3>1 DEF LastBlock
      <3>3. n.lbn + k \in Nat /\ (k < job.k => n.lbn + k # job.slbn + job.k)
        BY <1>2, <3>1
      <3>4. At(n.lbn + k)' = PieceAt(k)
        BY <1>3, <1>8, <3>1, <3>2, <3>3
      <3>5. QED
        BY <2>1, <3>1, <3>4 DEF PieceAt
    <2>3. FileInv'
      <3>1. \A e \in index : e.id = job.id => e = n
        BY <2>1 DEF IInv, Disjoint, NewEntry
      <3>2. QED
        BY <1>2, <1>7, <2>2, <3>1 DEF FileInv
    <2>4. WriteInv'
      BY <1>8 DEF WriteInv, Idle
    <2>5. QED
      BY <1>4, <1>5, <1>6, <2>3, <2>4 DEF IInv
  <1>9. CASE /\ \A d \in Nat : At(d)' = IF d = job.slbn + job.k THEN PieceAt(job.k) ELSE At(d)
             /\ ~LastBlock /\ UNCHANGED torn
             /\ job'.pc = "write" /\ job'.id = job.id /\ job'.v = job.v
             /\ job'.siz = job.siz /\ job'.slbn = job.slbn /\ job'.k = job.k + 1
    <2>1. FileInv'
      BY <1>2, <1>3, <1>7, <1>9 DEF FileInv
    <2>2. job.k + 1 < BLOCKS_NEEDED(job.siz)
      BY <1>2, <1>3, <1>9 DEF LastBlock
    <2>3. ASSUME NEW k \in Nat, k < job.k + 1 PROVE At(job.slbn + k)' = PieceAt(k)
      <3>1. k = job.k \/ k < job.k
        BY <1>2, <2>3
      <3>2. job.slbn + k \in Nat /\ (k < job.k => job.slbn + k # job.slbn + job.k)
        BY <1>2
      <3>3. QED
        BY <1>3, <1>9, <3>1, <3>2
    <2>4. WriteInv'
      BY <1>2, <1>3, <1>9, <2>2, <2>3 DEF WriteInv, NewEntry, PieceAt
    <2>5. QED
      BY <1>4, <1>5, <1>6, <2>1, <2>4 DEF IInv
  <1>10. CASE job' = Idle /\ UNCHANGED <<file, torn>>
    <2>1. FileInv'
      BY <1>2, <1>3, <1>7, <1>10 DEF FileInv
    <2>2. WriteInv'
      BY <1>10 DEF WriteInv, Idle
    <2>3. QED
      BY <1>4, <1>5, <1>6, <2>1, <2>2 DEF IInv
  <1>11. QED
    BY <1>1, <1>8, <1>9, <1>10

LEMMA DelKeeps ==
  ASSUME TypeInv, IInv, NEW id \in Ids, dddb_del(id)
  PROVE  IInv'
  <1>1. /\ TypeInv' /\ UNCHANGED <<bitblox, job>> /\ job.pc = "idle"
    BY DelStep
  <1>2. PICK e \in Found(id) :
           /\ index' = index \ {e} /\ torn' = torn \ {id} /\ bits' = bits \ Blocks(e)
           /\ \A d \in Nat : At(d)' = IF d = e.lbn THEN Nothing ELSE At(d)
    BY DelStep
  <1>3. index \subseteq Entry /\ e \in index /\ e.id = id /\ e \in Entry
    BY DEF TypeInv, TypeOK, Found
  <1>4. \A d \in index' : d \in index /\ d.id # id /\ Blocks(d) \cap Blocks(e) = {}
    BY <1>2, <1>3 DEF IInv, Disjoint
  <1>5. Disjoint'
    BY <1>2 DEF IInv, Disjoint, Blocks, Run
  <1>6. MarkedInv'
    <2>1. \A d \in index : Inside(Blocks(d)) /\ Blocks(d) \subseteq bits
      BY <1>1 DEF IInv, MarkedInv, Known, Moving
    <2>2. \A d \in index' : Inside(Blocks(d))' /\ Blocks(d) \subseteq bits'
      BY <1>1, <1>2, <1>4, <2>1 DEF Inside, Limit
    <2>3. QED
      BY <2>2 DEF MarkedInv
  <1>7. FileInv'
    <2> SUFFICES ASSUME NEW d \in index', d.id \notin torn'
                 PROVE  \E v \in Versions : Stored(d, v)'
      BY DEF FileInv
    <2>1. d \in index /\ d \in Entry /\ d.id \notin torn
      BY <1>2, <1>3, <1>4
    <2>2. PICK v \in Versions : Stored(d, v)
      BY <2>1 DEF IInv, FileInv
    <2>3. e.lbn \notin Blocks(d) /\ Blocks(d) \subseteq Nat
      BY <1>3, <1>4, <2>1, BlocksType
    <2>4. QED
      BY <1>2, <2>1, <2>2, <2>3, StoredKept
  <1>8. InitInv' /\ ScanInv' /\ PlaceInv' /\ WriteInv'
    BY <1>1 DEF InitInv, ScanInv, PlaceInv, WriteInv
  <1>9. QED
    BY <1>5, <1>6, <1>7, <1>8 DEF IInv

LEMMA CrashKeeps ==
  ASSUME TypeInv, IInv, Crash
  PROVE  IInv'
  <1>1. /\ TypeInv' /\ UNCHANGED <<index, file, torn>>
        /\ job'.pc = "init" /\ job'.k = 0 /\ job'.todo = {e.id : e \in index}
    BY CrashStep
  <1>2. Disjoint'
    BY <1>1 DEF IInv, Disjoint, Blocks, Run
  <1>3. MarkedInv' /\ InitInv' /\ ScanInv' /\ PlaceInv' /\ WriteInv'
    BY <1>1 DEF MarkedInv, Known, InitInv, ScanInv, PlaceInv, WriteInv
  <1>4. FileInv'
    BY <1>1 DEF IInv, FileInv, Stored, At
  <1>5. QED
    BY <1>2, <1>3, <1>4 DEF IInv


LEMMA MarkKeeps ==
  ASSUME TypeInv, IInv, dddb_mark
  PROVE  IInv'
  <1>1. /\ TypeInv' /\ UNCHANGED <<index, file, torn>>
        /\ job.pc = "init" /\ job'.pc = "init" /\ bitblox <= bitblox'
        /\ \A b \in Nat : b < Limit /\ b \in bits => b \in bits'
    BY MarkStep
  <1>2. PICK e \in index :
           /\ e.id \in job.todo /\ (job.k > 0 => e.id = job.id)
           /\ e.lbn + job.k \in bits' /\ e.lbn + job.k < Limit'
           /\ \/ /\ job.k + 1 = BLOCKS_NEEDED(e.siz)
                 /\ job'.k = 0 /\ job'.todo = job.todo \ {e.id}
              \/ /\ job'.k = job.k + 1 /\ job'.todo = job.todo /\ job'.id = e.id
    BY MarkStep
  <1>3. /\ index \subseteq Entry /\ e.lbn \in Nat /\ job.k \in Nat
        /\ bitblox \in Nat /\ bitblox' \in Nat /\ Margin \in Nat
    BY <1>1, DbmchunkAssumption DEF TypeInv, TypeOK, Job, Entry
  <1>4. \A b \in Nat : b \in bits /\ b < Limit => b \in bits' /\ b < Limit'
    <2>1. ASSUME NEW b \in Nat, b < Limit PROVE b < Limit'
      <3>1. bitblox <= bitblox' /\ bitblox \in Nat /\ bitblox' \in Nat /\ Margin \in Nat
        BY <1>1, <1>3
      <3>2. b < bitblox - Margin
        BY <2>1 DEF Limit
      <3>3. \A x, y, m \in Nat : x <= y /\ b < x - m => b < y - m
        OBVIOUS
      <3>4. b < bitblox' - Margin
        BY <3>1, <3>2, <3>3
      <3>5. QED
        BY <3>4 DEF Limit
    <2>2. QED
      BY <1>1, <2>1
  <1>5. \A b \in Run(e.lbn, job.k + 1) : b \in bits' /\ b < Limit'
    <2> SUFFICES ASSUME NEW b \in Run(e.lbn, job.k + 1) PROVE b \in bits' /\ b < Limit'
      OBVIOUS
    <2>1. CASE b = e.lbn + job.k
      BY <1>2, <2>1
    <2>2. CASE b # e.lbn + job.k
      <3>1. b \in Nat /\ b \in Run(e.lbn, job.k) /\ job.k > 0
        BY <1>3, <2>2, RunType
      <3>2. b \in bits /\ b < Limit
        BY <1>1, <1>2, <3>1 DEF IInv, InitInv, Inside
      <3>3. QED
        BY <1>4, <3>1, <3>2
    <2>3. QED
      BY <2>1, <2>2
  <1>6. Disjoint'
    BY <1>1 DEF IInv, Disjoint, Blocks, Run
  <1>7. MarkedInv'
    <2> SUFFICES ASSUME NEW d \in index, d.id \notin job'.todo
                 PROVE  Inside(Blocks(d))' /\ Blocks(d) \subseteq bits'
      BY <1>1 DEF MarkedInv, Known
    <2>1. CASE d.id \notin job.todo
      <3>1. Inside(Blocks(d)) /\ Blocks(d) \subseteq bits
        BY <1>1, <2>1 DEF IInv, MarkedInv, Known, Moving
      <3>2. Blocks(d) \subseteq Nat
        BY <1>3, BlocksType
      <3>3. \A b \in Blocks(d) : b \in bits' /\ b < Limit'
        BY <1>4, <3>1, <3>2 DEF Inside
      <3>4. QED
        BY <3>3 DEF Inside, Blocks, Run
    <2>2. CASE d.id \in job.todo
      <3>1. d.id = e.id /\ job.k + 1 = BLOCKS_NEEDED(e.siz)
        BY <1>2, <2>2
      <3>2. d = e
        BY <3>1 DEF IInv, Disjoint
      <3>3. Blocks(d) = Run(e.lbn, job.k + 1)
        BY <3>1, <3>2 DEF Blocks
      <3>4. \A b \in Blocks(d) : b \in bits' /\ b < Limit'
        BY <1>5, <3>3
      <3>5. QED
        BY <3>4 DEF Inside, Blocks, Run
    <2>3. QED
      BY <2>1, <2>2
  <1>8. InitInv'
    <2> SUFFICES ASSUME NEW d \in index, d.id = job'.id, job'.k > 0
                 PROVE  Run(d.lbn, job'.k) \subseteq bits' /\ Inside(Run(d.lbn, job.k))'
      BY <1>1 DEF InitInv
    <2>1. job'.k = job.k + 1 /\ job'.id = e.id
      BY <1>2
    <2>2. d = e
      BY <2>1 DEF IInv, Disjoint
    <2>3. \A b \in Run(d.lbn, job'.k) : b \in bits' /\ b < Limit'
      BY <1>5, <2>1, <2>2
    <2>4. QED
      BY <2>3 DEF Inside, Run
  <1>9. ScanInv' /\ PlaceInv' /\ WriteInv'
    BY <1>1 DEF ScanInv, PlaceInv, WriteInv
  <1>10. FileInv'
    BY <1>1 DEF IInv, FileInv, Stored, At
  <1>11. QED
    BY <1>6, <1>7, <1>8, <1>9, <1>10 DEF IInv

LEMMA NextIInv ==
  ASSUME "move" \notin Fails
  PROVE  TypeInv /\ IInv /\ [Next]_vars => IInv'
  <1> SUFFICES ASSUME TypeInv, IInv, [Next]_vars PROVE IInv'
    OBVIOUS
  <1>1. CASE InitDone
    <2>1. /\ UNCHANGED <<index, file, bits, bitblox, torn>> /\ job'.pc = "idle"
          /\ job.pc = "init" /\ job.todo = {}
      BY <1>1 DEF InitDone, disk, bitmap, Idle
    <2>2. MarkedInv'
      BY <2>1 DEF IInv, MarkedInv, Known, Moving, Inside, Limit, Blocks, Run
    <2>3. Disjoint' /\ FileInv'
      BY <2>1 DEF IInv, Disjoint, Blocks, Run, FileInv, Stored, At
    <2>4. InitInv' /\ ScanInv' /\ PlaceInv' /\ WriteInv'
      BY <2>1 DEF InitInv, ScanInv, PlaceInv, WriteInv
    <2>5. QED
      BY <2>2, <2>3, <2>4 DEF IInv
  <1>2. CASE UNCHANGED vars
    <2>1. UNCHANGED <<index, file, bits, bitblox, job, torn>>
      BY <1>2 DEF vars, disk, bitmap
    <2>2. QED
      BY <2>1 DEF IInv, Disjoint, MarkedInv, InitInv, ScanInv, PlaceInv, WriteInv, FileInv,
                  Known, Moving, Inside, Limit, Blocks, Run, Place, Stored, At
  <1>3. QED
    BY <1>1, <1>2, DelKeeps, PutInv, AllocInv, ScanKeeps, StoreKeeps, PackKeeps, CrashKeeps,
       MarkKeeps
    DEF Next

LEMMA Invariant ==
  ASSUME "move" \notin Fails
  PROVE  Spec => [](TypeInv /\ IInv)
  <1>1. Init => TypeInv /\ IInv
    BY InitType, InitIInv
  <1>2. TypeInv /\ IInv /\ [Next]_vars => TypeInv' /\ IInv'
    BY NextType, NextIInv
  <1>3. QED
    BY <1>1, <1>2, PTL DEF Spec

\* No block belongs to two objects and no number has two entries, whatever moves,
\* shrinks, is written in part, or is cut short by a crash (dbmchunk.c 265-371,
\* 430-479), if the entry of an object that has moved can be stored.
THEOREM DiskDisjoint ==
  ASSUME "move" \notin Fails
  PROVE  Spec => []Disjoint
  <1>1. TypeInv /\ IInv => Disjoint
    BY DEF IInv
  <1>2. QED
    BY <1>1, Invariant, PTL


-----------------------------------------------------------------------------
(* The refinement: what is found of each object.                           *)

\* The object that an entry leads to is the one that was packed there.
LEMMA GetStored ==
  ASSUME TypeInv, Disjoint, NEW e \in index, NEW v \in Versions, Stored(e, v)
  PROVE  dddb_get(e.id) = {[id |-> e.id, v |-> v, siz |-> e.siz]}
  <1>1. e \in Entry /\ e.lbn \in Nat /\ BLOCKS_NEEDED(e.siz) \in Nat \ {0}
    BY NeededType DEF TypeInv, TypeOK, Entry
  <1>2. Found(e.id) = {e}
    BY DEF Found, Disjoint
  <1> DEFINE h == [id |-> e.id, v |-> v, siz |-> e.siz, k |-> 0]
  <1>3. At(e.lbn) = h
    <2>1. At(e.lbn + 0) = h
      BY <1>1 DEF Stored
    <2>2. e.lbn + 0 = e.lbn
      BY <1>1
    <2>3. QED
      BY <2>1, <2>2
  <1>4. \A j \in 0 .. BLOCKS_NEEDED(h.siz) - 1 : At(e.lbn + j) = [h EXCEPT !.k = j]
    <2> SUFFICES ASSUME NEW j \in 0 .. BLOCKS_NEEDED(e.siz) - 1
                 PROVE  At(e.lbn + j) = [h EXCEPT !.k = j]
      OBVIOUS
    <2>1. j \in Nat /\ j < BLOCKS_NEEDED(e.siz)
      BY <1>1
    <2>2. At(e.lbn + j) = [id |-> e.id, v |-> v, siz |-> e.siz, k |-> j]
      BY <2>1 DEF Stored
    <2>3. QED
      BY <2>2
  <1> DEFINE Head(x) == At(x.lbn)
             Whole(x) == /\ Head(x).k = 0
                         /\ \A j \in 0 .. BLOCKS_NEEDED(Head(x).siz) - 1 :
                               At(x.lbn + j) = [Head(x) EXCEPT !.k = j]
  <1>5. Head(e) = h /\ h.k = 0 /\ Whole(e)
    BY <1>3, <1>4
  <1>6. dddb_get(e.id) = {[id |-> Head(x).id, v |-> Head(x).v, siz |-> Head(x).siz]
                            : x \in {y \in {e} : Whole(y)}}
    BY <1>2 DEF dddb_get
  <1> HIDE DEF Whole
  <1>7. {y \in {e} : Whole(y)} = {e}
    BY <1>5
  <1>8. QED
    BY <1>5, <1>6, <1>7

\* What is found of the objects that are not torn.
ContentInv ==
    \A id \in Ids \ torn :
        /\ Found(id) = {} => Content(id) = [is |-> "none", obj |-> {}]
        /\ \A e \in Found(id), v \in Versions :
              Stored(e, v) =>
                Content(id) = [is |-> "whole", obj |-> {[id |-> id, v |-> v, siz |-> e.siz]}]

LEMMA ContentOf == TypeInv /\ Disjoint => ContentInv
  <1> SUFFICES ASSUME TypeInv, Disjoint, NEW id \in Ids \ torn
               PROVE  /\ Found(id) = {} => Content(id) = [is |-> "none", obj |-> {}]
                      /\ \A e \in Found(id), v \in Versions :
                            Stored(e, v) =>
                              Content(id) =
                                [is |-> "whole", obj |-> {[id |-> id, v |-> v, siz |-> e.siz]}]
    BY DEF ContentInv
  <1>1. Found(id) = {} => dddb_get(id) = {}
    BY DEF dddb_get
  <1>2. ASSUME NEW e \in Found(id), NEW v \in Versions, Stored(e, v)
        PROVE  dddb_get(id) = {[id |-> id, v |-> v, siz |-> e.siz]} /\ Found(id) # {}
    <2>1. e \in index /\ e.id = id
      BY DEF Found
    <2>2. QED
      BY <1>2, <2>1, GetStored
  <1>3. QED
    BY <1>1, <1>2 DEF Content

LEMMA ContentNext == TypeInv' /\ Disjoint' => ContentInv'
  <1>1. TypeInv /\ Disjoint => ContentInv
    BY ContentOf
  <1>2. QED
    BY <1>1, PTL

\* An object of which the entry and the blocks stay is found as before.
LEMMA SameContent ==
  ASSUME TypeInv, TypeInv', IInv, Disjoint', NEW i \in Ids,
         Found(i)' = Found(i), i \in torn' <=> i \in torn,
         \A e \in Found(i) : \A d \in Blocks(e) : At(d)' = At(d)
  PROVE  Content(i)' = Content(i)
  <1>1. CASE i \in torn
    BY <1>1 DEF Content
  <1>2. CASE i \notin torn /\ Found(i) = {}
    BY <1>2, ContentOf, ContentNext DEF IInv, ContentInv
  <1>3. CASE i \notin torn /\ Found(i) # {}
    <2>1. PICK e \in Found(i) : TRUE
      BY <1>3
    <2>2. e \in Entry /\ e \in index /\ e.id \notin torn
      BY <1>3 DEF Found, TypeInv, TypeOK
    <2>3. PICK v \in Versions : Stored(e, v)
      BY <2>2 DEF IInv, FileInv
    <2>4. Stored(e, v)'
      BY <2>2, <2>3, StoredKept
    <2>5. Content(i) = [is |-> "whole", obj |-> {[id |-> i, v |-> v, siz |-> e.siz]}]
      BY <1>3, <2>3, ContentOf DEF IInv, ContentInv
    <2>6. Content(i)' = [is |-> "whole", obj |-> {[id |-> i, v |-> v, siz |-> e.siz]}]
      BY <1>3, <2>1, <2>4, ContentNext DEF ContentInv
    <2>7. QED
      BY <2>5, <2>6
  <1>4. QED
    BY <1>1, <1>2, <1>3

MapOf == [id \in Ids |-> Content(id)]

LEMMA Changes ==
  ASSUME NEW id \in Ids, NEW x, Content(id)' = x,
         \A i \in Ids : i # id => Content(i)' = Content(i)
  PROVE  MapOf' = [MapOf EXCEPT ![id] = x]
  <1>1. MapOf' = [i \in Ids |-> Content(i)']
    BY DEF MapOf
  <1> DEFINE C(i) == Content(i)'
  <1>2. \A i \in Ids : C(i) = [MapOf EXCEPT ![id] = x][i]
    <2> HIDE DEF C
    <2>1. C(id) = x /\ \A i \in Ids : i # id => C(i) = Content(i)
      BY DEF C
    <2>2. QED
      BY <2>1 DEF MapOf
  <1>3. DOMAIN [MapOf EXCEPT ![id] = x] = Ids
    BY DEF MapOf
  <1>4. MapOf' = [i \in Ids |-> C(i)]
    BY <1>1
  <1> HIDE DEF C
  <1>5. QED
    BY <1>2, <1>3, <1>4 DEF MapOf

\* Most steps change nothing that is found.
LEMMA NothingChanges ==
  ASSUME UNCHANGED <<index, file, torn>>
  PROVE  MapOf' = MapOf
  BY DEF MapOf, Content, dddb_get, Found, At

LEMMA StoreMap ==
  ASSUME "move" \notin Fails, TypeInv, IInv, dbm_store
  PROVE  Map!Tear(job.id) \/ UNCHANGED MapOf
  <1>1. /\ TypeInv' /\ UNCHANGED <<file, bitmap>>
        /\ job.pc = "store"
        /\ \/ index' = (index \ Found(job.id)) \cup {NewEntry} /\ torn' = torn \cup {job.id}
           \/ UNCHANGED <<index, torn>>
    BY StoreStep
  <1>2. IInv' /\ job.id \in Ids
    BY StoreKeeps DEF TypeInv, TypeOK, Job
  <1>3. CASE index' = (index \ Found(job.id)) \cup {NewEntry} /\ torn' = torn \cup {job.id}
    <2>1. PICK id \in Ids : id = job.id
      BY <1>2
    <2>2. Content(id)' = [is |-> "torn", obj |-> {}]
      BY <1>3, <2>1 DEF Content
    <2>3. ASSUME NEW i \in Ids, i # id PROVE Content(i)' = Content(i)
      <3>1. Found(i)' = Found(i)
        BY <1>3, <2>1, <2>3 DEF Found, NewEntry
      <3>2. QED
        BY <1>1, <1>2, <1>3, <2>1, <2>3, <3>1, SameContent DEF IInv, At
    <2>4. MapOf' = [MapOf EXCEPT ![id] = [is |-> "torn", obj |-> {}]]
      BY <2>2, <2>3, Changes
    <2>5. QED
      BY <2>1, <2>4 DEF Map!Tear, Map!Torn, MapOf
  <1>4. CASE UNCHANGED <<index, torn>>
    BY <1>1, <1>4, NothingChanges
  <1>5. QED
    BY <1>1, <1>3, <1>4

LEMMA PackMap ==
  ASSUME TypeInv, IInv, pack_object
  PROVE  Map!Put(job.id) \/ UNCHANGED MapOf
  <1>1. /\ TypeInv' /\ UNCHANGED <<index, bitmap>>
        /\ job.pc = "write"
        /\ \/ /\ \A d \in Nat : At(d)' = IF d = job.slbn + job.k THEN PieceAt(job.k) ELSE At(d)
              /\ \/ LastBlock /\ job' = Idle /\ torn' = torn \ {job.id}
                 \/ ~LastBlock /\ UNCHANGED torn
           \/ UNCHANGED <<file, torn>>
    BY PackStep
  <1>2. /\ IInv' /\ job.id \in Ids /\ job.k \in Nat /\ job.slbn \in Nat /\ job.v \in Versions
        /\ NewEntry \in Entry /\ index \subseteq Entry
    BY PackKeeps DEF TypeInv, TypeOK, Job, NewEntry, Entry
  <1>3. job.id \in torn /\ NewEntry \in index /\ job.k < BLOCKS_NEEDED(job.siz)
    BY <1>1 DEF IInv, WriteInv, NewEntry
  <1>4. CASE \A d \in Nat : At(d)' = IF d = job.slbn + job.k THEN PieceAt(job.k) ELSE At(d)
    <2>1. PICK id \in Ids, n \in index, v \in Versions : id = job.id /\ n = NewEntry /\ v = job.v
      BY <1>2, <1>3
    <2>2. n.lbn = job.slbn /\ n.siz = job.siz /\ n.id = id /\ n \in Entry
      BY <1>2, <2>1 DEF NewEntry
    <2>3. job.slbn + job.k \in Blocks(n)
      <3>1. BLOCKS_NEEDED(n.siz) \in Nat
        BY <2>2, NeededType DEF Entry
      <3>2. QED
        BY <1>2, <1>3, <2>2, <3>1, BlocksType
    <2>4. ASSUME NEW i \in Ids, i # id PROVE Content(i)' = Content(i)
      <3>1. Found(i)' = Found(i) /\ (i \in torn' <=> i \in torn)
        BY <1>1, <2>1, <2>4 DEF Found
      <3>2. ASSUME NEW e \in Found(i), NEW d \in Blocks(e) PROVE At(d)' = At(d)
        <4>1. e \in Entry /\ e \in index /\ e # n
          BY <1>2, <2>2, <2>4 DEF Found
        <4>2. Blocks(e) \cap Blocks(n) = {} /\ d \in Nat
          BY <4>1, BlocksType DEF IInv, Disjoint
        <4>3. QED
          BY <1>4, <2>3, <4>2
      <3>3. QED
        BY <1>1, <1>2, <3>1, <3>2, SameContent DEF IInv
    <2>5. CASE torn' = torn \ {job.id} /\ LastBlock
      <3>1. Stored(n, v)'
        <4> SUFFICES ASSUME NEW k \in Nat, k < BLOCKS_NEEDED(n.siz)
                     PROVE  At(n.lbn + k)' = [id |-> n.id, v |-> v, siz |-> n.siz, k |-> k]
          BY DEF Stored
        <4>1. \A j \in Nat : j < job.k => At(job.slbn + j) = PieceAt(j)
          BY <1>1 DEF IInv, WriteInv, PieceAt
        <4>2. k = job.k \/ k < job.k
          BY <1>2, <2>2, <2>5, NeededType DEF LastBlock, TypeInv, TypeOK, Job
        <4>3. n.lbn + k \in Nat /\ (k < job.k => n.lbn + k # job.slbn + job.k)
          BY <1>2, <2>2
        <4>4. At(n.lbn + k)' = PieceAt(k)
          BY <1>4, <2>2, <4>1, <4>2, <4>3
        <4>5. QED
          BY <2>1, <2>2, <4>4 DEF PieceAt
      <3>2. id \in Ids \ torn' /\ n \in Found(id)'
        BY <1>1, <2>1, <2>2, <2>5 DEF Found
      <3>3. Content(id)' = [is |-> "whole", obj |-> {[id |-> id, v |-> v, siz |-> n.siz]}]
        BY <1>1, <1>2, <3>1, <3>2, ContentNext DEF ContentInv, IInv
      <3>4. MapOf' = [MapOf EXCEPT ![id] =
                        [is |-> "whole", obj |-> {[id |-> id, v |-> v, siz |-> n.siz]}]]
        BY <2>4, <3>3, Changes
      <3>5. MapOf[id] = [is |-> "torn", obj |-> {}]
        BY <1>3, <2>1 DEF MapOf, Content
      <3>6. QED
        BY <2>1, <2>2, <3>4, <3>5 DEF Map!Put, Map!Torn, Map!Whole, MapOf
    <2>6. CASE UNCHANGED torn
      <3>1. Content(id)' = [is |-> "torn", obj |-> {}] /\ Content(id) = [is |-> "torn", obj |-> {}]
        BY <1>3, <2>1, <2>6 DEF Content
      <3>2. MapOf' = [MapOf EXCEPT ![id] = [is |-> "torn", obj |-> {}]]
        BY <2>4, <3>1, Changes
      <3>3. QED
        BY <3>1, <3>2 DEF MapOf
    <2>7. QED
      BY <1>1, <2>5, <2>6
  <1>5. CASE UNCHANGED <<file, torn>>
    BY <1>1, <1>5, NothingChanges
  <1>6. QED
    BY <1>1, <1>4, <1>5

LEMMA DelMap ==
  ASSUME TypeInv, IInv, NEW id \in Ids, dddb_del(id)
  PROVE  Map!Del(id)
  <1>1. TypeInv' /\ IInv'
    BY DelStep, DelKeeps
  <1>2. PICK e \in Found(id) :
           /\ index' = index \ {e} /\ torn' = torn \ {id}
           /\ \A d \in Nat : At(d)' = IF d = e.lbn THEN Nothing ELSE At(d)
    BY DelStep
  <1>3. e \in index /\ e.id = id /\ index \subseteq Entry /\ e \in Entry
    BY DEF Found, TypeInv, TypeOK
  <1>4. Found(id)' = {} /\ id \notin torn'
    BY <1>2, <1>3 DEF Found, IInv, Disjoint
  <1>5. Content(id)' = [is |-> "none", obj |-> {}]
    BY <1>1, <1>4, ContentNext DEF ContentInv, IInv
  <1>6. ASSUME NEW i \in Ids, i # id PROVE Content(i)' = Content(i)
    <2>1. Found(i)' = Found(i) /\ (i \in torn' <=> i \in torn)
      BY <1>2, <1>3, <1>6 DEF Found
    <2>2. ASSUME NEW x \in Found(i), NEW d \in Blocks(x) PROVE At(d)' = At(d)
      <3>1. x \in Entry /\ x \in index /\ x # e
        BY <1>3, <1>6 DEF Found
      <3>2. Blocks(x) \cap Blocks(e) = {} /\ d \in Nat /\ e.lbn \in Blocks(e)
        BY <1>3, <3>1, BlocksType DEF IInv, Disjoint
      <3>3. QED
        BY <1>2, <3>2
    <2>3. QED
      BY <1>1, <2>1, <2>2, SameContent DEF IInv
  <1>7. MapOf' = [MapOf EXCEPT ![id] = [is |-> "none", obj |-> {}]]
    BY <1>5, <1>6, Changes
  <1>8. QED
    BY <1>7 DEF Map!Del, Map!None, MapOf

LEMMA NextMap ==
  ASSUME "move" \notin Fails, TypeInv, IInv, [Next]_vars
  PROVE  Map!Next \/ UNCHANGED MapOf
  <1>1. CASE dbm_store
    BY <1>1, StoreMap DEF Map!Next, TypeInv, TypeOK, Job
  <1>2. CASE pack_object
    BY <1>2, PackMap DEF Map!Next, TypeInv, TypeOK, Job
  <1>3. ASSUME NEW id \in Ids, dddb_del(id) PROVE Map!Next
    BY <1>3, DelMap DEF Map!Next
  <1>4. ASSUME UNCHANGED <<index, file, torn>> PROVE UNCHANGED MapOf
    BY <1>4, NothingChanges
  <1>5. CASE InitDone \/ UNCHANGED vars
    BY <1>4, <1>5 DEF InitDone, vars, disk
  <1>6. QED
    BY <1>1, <1>2, <1>3, <1>4, <1>5, PutStep, AllocStep, ScanStep, CrashStep, MarkStep DEF Next

\* The store is the map of DiskMap: an operation on one object, finished or cut short,
\* changes nothing that is read of another one, and an object that has been written
\* is read as it was written (dbmchunk.c 376-505, 532-577).
THEOREM DiskImplementsMap ==
  ASSUME "move" \notin Fails
  PROVE  Spec => MapSpec
  <1>1. Init => Map!Init
    <2> SUFFICES ASSUME Init PROVE Map!Init
      OBVIOUS
    <2>1. \A id \in Ids : Content(id) = [is |-> "none", obj |-> {}]
      BY DEF Init, Content, Found, dddb_get
    <2>2. QED
      BY <2>1 DEF Map!Init, Map!None
  <1>2. TypeInv /\ IInv /\ [Next]_vars => [Map!Next]_MapOf
    BY NextMap
  <1>3. QED
    BY <1>1, <1>2, Invariant, PTL DEF Spec, MapSpec, Map!Spec, MapOf

=============================================================================
