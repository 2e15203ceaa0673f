------------------------------ MODULE MemPool ------------------------------
(***************************************************************************)
(* The allocator of backend/mempool.c for blocks of one size.               *)
(*                                                                          *)
(* The free list is threaded through the blocks, so that the owner of a     *)
(* block overwrites its link.  Blocks are numbered in the order in which    *)
(* their chunks are allocated.  An owner frees a block once and no longer   *)
(* writes into it; malloc may fail.                                         *)
(***************************************************************************)
EXTENDS Integers, FiniteSets

CONSTANTS
    ChunkSize,      \* blocks of a chunk
    MaxChunks       \* bound: chunks allocated

ASSUME MemPoolAssumption == ChunkSize \in Nat \ {0} /\ MaxChunks \in Nat

VARIABLES
    head,       \* free_list; 0 is NULL
    next,       \* the link in each block, or what its owner wrote over it
    chunks,     \* num_chunks
    inUse,      \* in_use
    held        \* history: the blocks handed out and not freed

poolVars == <<head, next, chunks, inUse, held>>

Blocks(n) == 1..(n * ChunkSize)

\* mempool_grow: each block of the new chunk is put before the last.
Grow ==
    LET first == chunks * ChunkSize + 1 IN
    [chunks |-> chunks + 1,
     head |-> first + ChunkSize - 1,
     next |-> [b \in Blocks(chunks + 1) |->
                 IF b < first THEN next[b] ELSE IF b = first THEN head ELSE b - 1]]

\* What mempool_alloc finds: the pool as it is, grown if it was empty, or, where
\* malloc fails, not.
Pool == [chunks |-> chunks, head |-> head, next |-> next]
Stocked == IF head # 0 THEN {Pool} ELSE {Pool} \cup (IF chunks < MaxChunks THEN {Grow} ELSE {})

\* Mutant of Alloc: the link is read from the head before the pool has grown.
AllocStale ==
    \E p \in Stocked :
        /\ p.head # 0
        /\ chunks' = p.chunks /\ next' = p.next
        /\ head' = IF head = 0 THEN 0 ELSE p.next[head]
        /\ inUse' = inUse + 1 /\ held' = held \cup {p.head}
\* mempool_alloc; it returns NULL where the pool is as it was.
Alloc ==
    \E p \in Stocked :
        /\ p.head # 0
        /\ chunks' = p.chunks /\ next' = p.next
        /\ head' = p.next[p.head]
        /\ inUse' = inUse + 1 /\ held' = held \cup {p.head}

\* The owner of a block writes into it.
Overwrite(b) ==
    /\ b \in held
    /\ \E v \in 0..(chunks * ChunkSize) : next' = [next EXCEPT ![b] = v]
    /\ UNCHANGED <<head, chunks, inUse, held>>

\* mempool_free
Free(b) ==
    /\ b \in held /\ held' = held \ {b}
    /\ next' = [next EXCEPT ![b] = head] /\ head' = b
    /\ inUse' = inUse - 1
    /\ UNCHANGED chunks

\* mempool_destroy, whoever still has blocks.
Destroy ==
    /\ head' = 0 /\ next' = <<>> /\ chunks' = 0 /\ inUse' = 0 /\ held' = {}

\* mempool_init, with a first chunk or without.
PoolInit ==
    /\ inUse = 0 /\ held = {}
    /\ \/ head = 0 /\ next = <<>> /\ chunks = 0
       \/ head = ChunkSize /\ next = [b \in Blocks(1) |-> b - 1] /\ chunks = 1

PoolNext ==
    \/ Alloc \/ Destroy
    \/ \E b \in held : Overwrite(b) \/ Free(b)

PoolSpec == PoolInit /\ [][PoolNext]_poolVars
-----------------------------------------------------------------------------
\* The pool's state: links, and what owners write over them, within the pool.
PoolTypeOK ==
    /\ chunks \in Nat /\ held \subseteq Blocks(chunks) /\ inUse \in 0..(chunks * ChunkSize)
    /\ head \in 0..(chunks * ChunkSize) /\ next \in [Blocks(chunks) -> 0..(chunks * ChunkSize)]

\* The blocks that are not handed out, and the n-th link from the head, which should
\* come to an end after as many.
Available == Blocks(chunks) \ held
Nth[n \in 0..Cardinality(Available)] ==
    IF n = 0 THEN head ELSE IF Nth[n - 1] = 0 THEN 0 ELSE next[Nth[n - 1]]

\* Whatever the owners write into their blocks, the free list ends, it and the blocks
\* handed out are all the blocks there are, none is both or twice, and DEBUG MEMPOOL
\* reports how many are out.
PoolSound ==
    /\ held \subseteq Blocks(chunks) /\ DOMAIN next = Blocks(chunks)
    /\ inUse = Cardinality(held)
    /\ {Nth[n] : n \in 0..(Cardinality(Available) - 1)} = Available
    /\ Nth[Cardinality(Available)] = 0
=============================================================================
