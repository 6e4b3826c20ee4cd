------------------------------ MODULE Dbmchunk ------------------------------
(***************************************************************************)
(* The disk store of dbmchunk.c: an index (dbm) from object numbers to a   *)
(* place and a size, a file of blocks, and an allocation bitmap that is    *)
(* kept in memory only and rebuilt from the index when the server starts.  *)
(*                                                                         *)
(* dddb_put() is cut into the steps between which the server may die or a  *)
(* call may fail: the search of dddb_alloc(), one block at a time, the     *)
(* store of the index entry, and the writing of the object, block by       *)
(* block.                                                                  *)
(***************************************************************************)
EXTENDS Integers

CONSTANTS
    Ids,        \* object numbers
    Versions,   \* contents an object may have
    Sizes,      \* sizes size_object() may return
    Bsiz,       \* bsiz: bytes in a block (256)
    Byte,       \* bits in a byte of the bitmap (8)
    Margin,     \* blocks at the end of the bitmap that are not used (32)
    BitBlock,   \* DDDB_BITBLOCK: growth of the bitmap (512)
    Fails,      \* what may fail: "write", the writing of an object, "store", the store
                \* of an index entry, and "move", that of an object's new place
    MaxOps      \* bound: puts, deletions and restarts of the server

ASSUME DbmchunkAssumption ==
    /\ Ids # {} /\ Versions # {} /\ Sizes # {}
    /\ Sizes \subseteq Nat \ {0} /\ Bsiz \in Nat \ {0}
    /\ Byte \in Nat \ {0} /\ Margin \in Nat /\ BitBlock \in Nat
    /\ Byte <= Margin /\ Margin <= BitBlock
    /\ Fails \subseteq {"store", "move", "write"}
    /\ MaxOps \in Nat

BLOCKS_NEEDED(siz) == IF siz % Bsiz # 0 THEN siz \div Bsiz + 1 ELSE siz \div Bsiz

VARIABLES
    index,      \* the dbm file: a set of entries, one for an object number
    file,       \* the chunk file: what each block holds, up to the file's end
    bits,       \* bitm: the blocks marked as taken
    bitblox,
    last_free,
    job,        \* the operation in progress
    torn,       \* history: objects whose last put was not finished
    ops         \* puts, deletions and restarts so far

disk == <<index, file>>
bitmap == <<bits, bitblox, last_free>>
vars == <<disk, bitmap, job, torn, ops>>

\* struct hrec and its key; lbn is the block at off.
Entry == [id: Ids, lbn: Nat, siz: Sizes]

\* The k-th block of object id as it was packed with size siz.  A block that was
\* never written, or whose head was overwritten by "delobj", holds nothing: k is -1.
Piece == [id: Ids, v: Versions, siz: Sizes, k: Nat \cup {-1}]

Run(lbn, n) == lbn .. lbn + n - 1

Blocks(e) == Run(e.lbn, BLOCKS_NEEDED(e.siz))

\* lbn, slbn and left (tbcnt) are the variables of dddb_alloc(), over is overthetop,
\* k counts the blocks written; todo, id and k are the loop of dddb_init().
Job == [pc: {"idle", "alloc", "scan", "store", "write", "init"}, id: Ids, v: Versions,
        siz: Sizes, lbn: Nat, slbn: Nat, left: Nat, over: BOOLEAN, k: Nat,
        todo: SUBSET Ids]

Idle == [pc |-> "idle", id |-> CHOOSE i \in Ids : TRUE, v |-> CHOOSE v \in Versions : TRUE,
         siz |-> CHOOSE s \in Sizes : TRUE, lbn |-> 0, slbn |-> 0, left |-> 0,
         over |-> FALSE, k |-> 0, todo |-> {}]

Nothing == [id |-> Idle.id, v |-> Idle.v, siz |-> Idle.siz, k |-> -1]

-----------------------------------------------------------------------------
(* The bitmap.                                                             *)

\* Blocks from here on are never taken before the bitmap has grown.
Limit == bitblox - Margin

\* bitblox after growbit(maxblok): the size is rounded up to a byte and then one
\* more, and the last byte does not count.
Grown(maxblok) == maxblok + (Byte - (maxblok % Byte))

\* Mutant: more than the margin is left out.
LastBytes == bitblox - Byte - Margin .. bitblox - 1

\* The byte the copy leaves out: it is not initialised in the new bitmap.
LastByte == bitblox - Byte .. bitblox - 1

\* growbit(): the old map is copied without its last byte, whose bits are then
\* whatever malloc() returned.
growbit(maxblok) ==
    IF Grown(maxblok) + Byte <= bitblox
    THEN UNCHANGED <<bits, bitblox>>
    ELSE /\ bitblox' = Grown(maxblok)
         /\ \E junk \in SUBSET LastByte : bits' = (bits \ LastByte) \cup junk

-----------------------------------------------------------------------------
Counted == ops < MaxOps /\ ops' = ops + 1

(* dddb_put()                                                              *)

Found(id) == {e \in index : e.id = id}

\* The object has outgrown its place.
NeedsMove(e, siz) == BLOCKS_NEEDED(siz) > BLOCKS_NEEDED(e.siz)

\* An object that still fits stays where it is, with its new size; one that does
\* not gives up its blocks, and so may get them again, and a place is searched.
dddb_put(id, v, siz) ==
    LET new == [Idle EXCEPT !.id = id, !.v = v, !.siz = siz]
    IN  /\ job.pc = "idle" /\ Counted
        /\ \/ \E e \in Found(id) :
                 /\ ~NeedsMove(e, siz)
                 /\ job' = [new EXCEPT !.pc = "store", !.slbn = e.lbn]
                 /\ UNCHANGED <<bits, last_free>>
           \/ \E e \in Found(id) :
                 /\ NeedsMove(e, siz)
                 /\ bits' = bits \ Blocks(e) /\ last_free' = e.lbn
                 /\ job' = [new EXCEPT !.pc = "alloc", !.lbn = e.lbn]
           \/ /\ Found(id) = {}
              /\ job' = [new EXCEPT !.pc = "alloc", !.lbn = last_free]
              /\ UNCHANGED <<bits, last_free>>
        /\ UNCHANGED <<disk, bitblox, torn>>

\* Mutant: one too low.
BottomBelow == -1

Bottom == 0

\* The outer loop of dddb_alloc(): the search goes around the top once, and then
\* the bitmap grows.
AllocFrom(lbn, over) ==
    job' = [job EXCEPT !.pc = "scan", !.lbn = lbn, !.slbn = lbn, !.over = over,
                       !.left = BLOCKS_NEEDED(job.siz)]

dddb_alloc ==
    /\ job.pc = "alloc"
    /\ \/ job.lbn < Limit /\ AllocFrom(job.lbn, job.over) /\ UNCHANGED <<bits, bitblox>>
       \/ job.lbn >= Limit /\ ~job.over /\ AllocFrom(Bottom, TRUE) /\ UNCHANGED <<bits, bitblox>>
       \/ /\ job.lbn >= Limit /\ job.over /\ AllocFrom(job.lbn, TRUE)
          /\ growbit(job.lbn + BitBlock)
    /\ UNCHANGED <<disk, last_free, torn, ops>>

Taken(lbn) == lbn \in bits

\* The inner loop: a taken block ends the run; the last block that is needed ends
\* the search; the bitmap grows under a run that reaches its end.
Scan ==
    /\ job.pc = "scan"
    /\ \/ /\ Taken(job.lbn)
          /\ job' = [job EXCEPT !.pc = "alloc", !.lbn = @ + 1]
          /\ UNCHANGED bitmap
       \/ /\ ~Taken(job.lbn) /\ job.left = 1
          /\ bits' = bits \cup Run(job.slbn, BLOCKS_NEEDED(job.siz))
          /\ last_free' = job.lbn
          /\ job' = [job EXCEPT !.pc = "store", !.left = 0]
          /\ UNCHANGED bitblox
       \/ /\ ~Taken(job.lbn) /\ job.left > 1
          /\ job' = [job EXCEPT !.lbn = @ + 1, !.left = @ - 1]
          /\ IF job.lbn + 1 >= Limit THEN growbit(job.lbn + 1 + BitBlock)
                                     ELSE UNCHANGED <<bits, bitblox>>
          /\ UNCHANGED last_free
    /\ UNCHANGED <<disk, torn, ops>>

\* The blocks the index still names are no longer marked.
GaveUp == \E e \in Found(job.id) : ~(Blocks(e) \subseteq bits)

\* dbm_store() of the entry.
dbm_store ==
    /\ job.pc = "store"
    /\ \/ /\ index' = (index \ Found(job.id))
                      \cup {[id |-> job.id, lbn |-> job.slbn, siz |-> job.siz]}
          /\ torn' = torn \cup {job.id}
          /\ job' = [job EXCEPT !.pc = "write"]
       \/ /\ (IF GaveUp THEN "move" ELSE "store") \in Fails
          /\ job' = Idle /\ UNCHANGED <<index, torn>>
    /\ UNCHANGED <<file, bitmap, ops>>

\* What is in block b of the file.
At(b) == IF b \in DOMAIN file THEN file[b] ELSE Nothing

\* Block b of the file is written; the file may become longer.
Written(b, x) ==
    [c \in DOMAIN file \cup 0 .. b |-> IF c = b THEN x ELSE At(c)]

\* Mutant: only whole blocks are written.
LastBlockWhole == job.k + 1 >= job.siz \div Bsiz

LastBlock == job.k + 1 = BLOCKS_NEEDED(job.siz)

\* pack_object() and fflush().
pack_object ==
    /\ job.pc = "write"
    /\ \/ /\ file' = Written(job.slbn + job.k, [id |-> job.id, v |-> job.v,
                                                siz |-> job.siz, k |-> job.k])
          /\ IF LastBlock
             THEN job' = Idle /\ torn' = torn \ {job.id}
             ELSE job' = [job EXCEPT !.k = @ + 1] /\ UNCHANGED torn
       \/ "write" \in Fails /\ job' = Idle /\ UNCHANGED <<file, torn>>
    /\ UNCHANGED <<index, bitmap, ops>>

-----------------------------------------------------------------------------
(* The other operations.                                                   *)

\* dddb_del(): the key is dropped, the blocks are free, the head of the object is
\* overwritten in the file.
dddb_del(id) ==
    /\ job.pc = "idle" /\ Counted
    /\ \E e \in Found(id) :
          /\ index' = index \ {e}
          /\ bits' = bits \ Blocks(e) /\ last_free' = e.lbn
          /\ file' = Written(e.lbn, Nothing)
    /\ torn' = torn \ {id}
    /\ UNCHANGED <<bitblox, job>>

\* dddb_get(): unpack_object() reads on from the block the index names as far as
\* the object it finds there goes.
dddb_get(id) ==
    LET Head(e) == At(e.lbn)
        Whole(e) == /\ Head(e).k = 0
                    /\ \A j \in 0 .. BLOCKS_NEEDED(Head(e).siz) - 1 :
                          At(e.lbn + j) = [Head(e) EXCEPT !.k = j]
    IN  {[id |-> Head(e).id, v |-> Head(e).v, siz |-> Head(e).siz]
            : e \in {x \in Found(id) : Whole(x)}}

\* LOGICAL_BLOCK(st_size): whole blocks of the file; its last one may be a part only.
FileBlocks == {b \in DOMAIN file : b + 1 \notin DOMAIN file}
              \cup {b + 1 : b \in {x \in DOMAIN file : x + 1 \notin DOMAIN file}}
              \cup (IF DOMAIN file = {} THEN {0} ELSE {})

\* The server dies and starts again: dddb_init() makes a bitmap for the length of
\* the file.
Crash ==
    /\ Counted
    /\ bits' = {} /\ last_free' = 0
    /\ \E len \in FileBlocks : bitblox' = Grown(len + BitBlock)
    /\ job' = [Idle EXCEPT !.pc = "init", !.todo = {e.id : e \in index}]
    /\ UNCHANGED <<disk, torn>>

\* dddb_init() marks the blocks of all entries as taken, one by one, in the order of
\* the dbm file; id is the entry being marked while k is not 0.
dddb_mark ==
    /\ job.pc = "init"
    /\ \E e \in index :
          /\ e.id \in job.todo /\ (job.k > 0 => e.id = job.id)
          /\ LET b == e.lbn + job.k
             IN  IF b >= Limit
                 THEN /\ bitblox' = Grown(b + BitBlock)
                      /\ \E junk \in SUBSET LastByte :
                            bits' = (bits \ LastByte) \cup junk \cup {b}
                 ELSE bits' = bits \cup {b} /\ UNCHANGED bitblox
          /\ job' = IF job.k + 1 = BLOCKS_NEEDED(e.siz)
                    THEN [job EXCEPT !.k = 0, !.todo = @ \ {e.id}]
                    ELSE [job EXCEPT !.k = @ + 1, !.id = e.id]
    /\ UNCHANGED <<disk, last_free, torn, ops>>

InitDone ==
    /\ job.pc = "init" /\ job.todo = {}
    /\ job' = Idle
    /\ UNCHANGED <<disk, bitmap, torn, ops>>

-----------------------------------------------------------------------------
\* A new database.
Init ==
    /\ index = {} /\ file = [b \in {} |-> Nothing]
    /\ bits = {} /\ bitblox = Grown(BitBlock) /\ last_free = 0
    /\ job = Idle /\ torn = {} /\ ops = 0

Next ==
    \/ \E id \in Ids : dddb_del(id) \/ \E v \in Versions, s \in Sizes : dddb_put(id, v, s)
    \/ dddb_alloc \/ Scan \/ dbm_store \/ pack_object
    \/ Crash \/ dddb_mark \/ InitDone

Spec == Init /\ [][Next]_vars

-----------------------------------------------------------------------------
TypeOK ==
    /\ index \subseteq Entry /\ \A b \in DOMAIN file : b \in Nat /\ file[b] \in Piece
    /\ bits \subseteq Nat /\ bitblox \in Nat /\ last_free \in Nat
    /\ job \in Job /\ torn \subseteq Ids /\ ops \in Nat

\* No block belongs to two objects, and no number has two entries, whatever moves,
\* shrinks, failed writes, crashes and growth of the bitmap came before
\* (dbmchunk.c 265-371, 430-479).
Disjoint ==
    \A e, d \in index : e # d => e.id # d.id /\ Blocks(e) \cap Blocks(d) = {}

\* What the disk holds of an object, for the map.
Content(id) ==
    [is  |-> IF id \in torn THEN "torn" ELSE IF Found(id) = {} THEN "none" ELSE "whole",
     obj |-> IF id \in torn THEN {} ELSE dddb_get(id)]

Map == INSTANCE DiskMap WITH
          map <- [id \in Ids |-> Content(id)],
          want <- [id |-> job.id, v |-> job.v, siz |-> job.siz]

\* The store is the map of DiskMap: what is read is what was last written, and no
\* operation, finished or not, changes what is read of another object (dbmchunk.c
\* 376-505, 532-577).
MapSpec == Map!Spec
=============================================================================
