------------------------------- MODULE Heaps -------------------------------
(***************************************************************************)
(* The two allocators of mem.c.  A static heap hands out chunks of one     *)
(* size, a dynamic heap chunks of any; both cut them from blocks they map, *)
(* keep the blocks in a chain with the newest in front, and unmap every    *)
(* block without chunks when the last chunk of one is given back, but not  *)
(* the only block of a heap.                                               *)
(*                                                                         *)
(* One heap of each kind.  Addresses are bytes behind the block's own      *)
(* header.  Left out: destroying a heap, and the statistics (max_bytes,    *)
(* used_bytes, free_bytes), which nothing but the dumps reads.             *)
(***************************************************************************)
EXTENDS Naturals, FiniteSets, FiniteSetsExt, SequencesExt

CONSTANTS
  Region,          \* what mmap may return
  ChunksPerBlock,  \* of the static heap
  Payload,         \* bytes of a block of the dynamic heap behind its header
  BlockHeader,     \* sizeof(struct dblock)
  ChunkHeader,     \* sizeof(struct dchunk)
  Word,            \* sizeof(void *)
  Size             \* bytes callers ask for, and resize to

Pad(n) == ((n + Word - 1) \div Word) * Word   \* mem_dynamic_alloc

\* No caller asks for more than an empty block holds (512 KiB by default):
\* the first chunk of a block is put there whatever its size.
HeapAssumption ==
  /\ {ChunksPerBlock, Payload, BlockHeader, ChunkHeader, Word} \subseteq Nat \ {0}
  /\ \A n \in Size : n \in Nat \ {0} /\ ChunkHeader + Pad(n) <= Payload
ASSUME HeapAssumption

VARIABLES
  sheap,  \* [blocks, count, free]: the chain, block_count and free_chunks
  dheap,  \* [blocks, count]
  alive   \* mem_fatal has not ended the process

heapVars == <<sheap, dheap, alive>>

SBlock == [region : Region, free : Seq(1 .. ChunksPerBlock), used : SUBSET (1 .. ChunksPerBlock)]
DBlock == [region : Region, chunks : Seq([at : Nat, size : Nat \ {0}])]

HeapTypeOK ==
  /\ sheap \in [blocks : Seq(SBlock), count : Nat, free : Nat]
  /\ dheap \in [blocks : Seq(DBlock), count : Nat]
  /\ alive \in BOOLEAN

Unmapped == Region \ ({sheap.blocks[i].region : i \in DOMAIN sheap.blocks}
                      \cup {dheap.blocks[i].region : i \in DOMAIN dheap.blocks})

\* mmap finds memory, or mem_fatal ends the process.
Fatal == alive' = FALSE /\ UNCHANGED <<sheap, dheap>>

-----------------------------------------------------------------------------
(* The static heap.                                                        *)

\* mem_static_block_new: chunks go to the head of the free list one by one.
NewSBlock(h, r) ==
  [blocks |-> <<[region |-> r, used |-> {},
                 free |-> Reverse([i \in 1 .. ChunksPerBlock |-> i])]>> \o h.blocks,
   count |-> h.count + 1, free |-> h.free + ChunksPerBlock]

\* mem_static_block_alloc, of the first block of the chain that has a chunk.
TakeChunk(h) ==
  LET i == Min({j \in DOMAIN h.blocks : h.blocks[j].free # <<>>})
  IN  [h EXCEPT !.blocks[i].used = @ \cup {Head(h.blocks[i].free)},
                !.blocks[i].free = Tail(@), !.free = @ - 1]

StaticAlloc ==
  \/ sheap.free > 0 /\ sheap' = TakeChunk(sheap) /\ UNCHANGED <<dheap, alive>>
  \/ /\ sheap.free = 0
     /\ \/ /\ \E r \in Unmapped : sheap' = TakeChunk(NewSBlock(sheap, r))
           /\ UNCHANGED <<dheap, alive>>
        \/ Unmapped = {} /\ Fatal

\* Not the code: blocks are collected by the count of the heap alone.
StaticCollectByCount(h) ==
  IF h.free < ChunksPerBlock \/ h.count = 1 THEN h
  ELSE [blocks |-> Tail(h.blocks), count |-> h.count - 1, free |-> h.free - ChunksPerBlock]

\* mem_static_collect.
StaticCollect(h) ==
  LET kept == SelectSeq(h.blocks, LAMBDA b : Len(b.free) # ChunksPerBlock)
      gone == Len(h.blocks) - Len(kept)
  IN  IF h.free < ChunksPerBlock \/ h.count = 1 THEN h
      ELSE [blocks |-> kept, count |-> h.count - gone,
            free |-> h.free - gone * ChunksPerBlock]

StaticFree(i, c) ==
  LET freed == [sheap EXCEPT !.blocks[i].used = @ \ {c},
                             !.blocks[i].free = <<c>> \o @, !.free = @ + 1]
  IN  /\ c \in sheap.blocks[i].used
      /\ sheap' = IF freed.blocks[i].used = {} THEN StaticCollect(freed) ELSE freed
      /\ UNCHANGED <<dheap, alive>>

-----------------------------------------------------------------------------
(* The dynamic heap.                                                       *)

\* mem_dynamic_block_new
NewDBlock(h, r) ==
  [blocks |-> <<[region |-> r, chunks |-> <<>>]>> \o h.blocks, count |-> h.count + 1]

End(c)         == c.at + ChunkHeader + c.size
EndBefore(C, i) == IF i = 1 THEN 0 ELSE End(C[i - 1])

\* Not the code: the header of the chunk is forgotten.
GapsBare(C, n) ==
  {i \in DOMAIN C : C[i].at - EndBefore(C, i) >= n}
    \cup (IF C = <<>> \/ EndBefore(C, Len(C) + 1) + ChunkHeader + n <= Payload
          THEN {Len(C) + 1} ELSE {})

\* The gaps a chunk of n bytes fits into, numbered by the chunk behind them.
\* The first chunk of a block always fits; the block ends where it does.
Gaps(C, n) ==
  {i \in DOMAIN C : C[i].at - EndBefore(C, i) >= ChunkHeader + n}
    \cup (IF C = <<>> \/ EndBefore(C, Len(C) + 1) + ChunkHeader + n <= Payload
          THEN {Len(C) + 1} ELSE {})

\* mem_dynamic_block_alloc: the first of them.
Cut(b, n) ==
  LET i == Min(Gaps(b.chunks, n))
  IN  [b EXCEPT !.chunks = InsertAt(@, i, [at |-> EndBefore(b.chunks, i), size |-> n])]

\* mem_dynamic_alloc: of the first block that has one, else of a new block;
\* h' \in Allocated(h, n, R) when R are the regions not mapped.
Allocated(h, n, R) ==
  LET fits == {i \in DOMAIN h.blocks : Gaps(h.blocks[i].chunks, n) # {}}
  IN  IF fits # {} THEN {[h EXCEPT !.blocks[Min(fits)] = Cut(@, n)]}
      ELSE {[NewDBlock(h, r) EXCEPT !.blocks[1] = Cut(@, n)] : r \in R}

DynamicAlloc(n) ==
  LET next == Allocated(dheap, Pad(n), Unmapped)
  IN  \/ \E h \in next : dheap' = h /\ UNCHANGED <<sheap, alive>>
      \/ next = {} /\ Fatal

\* mem_dynamic_collect.
DynamicCollect(h) ==
  LET kept == SelectSeq(h.blocks, LAMBDA b : b.chunks # <<>>)
  IN  IF h.count = 1 THEN h
      ELSE [blocks |-> kept, count |-> h.count - (Len(h.blocks) - Len(kept))]

\* mem_dynamic_block_free; r and at name the chunk, which may not be where it
\* was in the chain.
Freed(h, r, at) ==
  LET i == CHOOSE j \in DOMAIN h.blocks : h.blocks[j].region = r
      b == [h.blocks[i] EXCEPT !.chunks = SelectSeq(@, LAMBDA c : c.at # at)]
  IN  IF b.chunks = <<>> THEN DynamicCollect([h EXCEPT !.blocks[i] = b])
      ELSE [h EXCEPT !.blocks[i] = b]

DynamicFree(i, k) ==
  /\ dheap' = Freed(dheap, dheap.blocks[i].region, dheap.blocks[i].chunks[k].at)
  /\ UNCHANGED <<sheap, alive>>

\* mem_dynamic_realloc takes the end of the block for a header further back
\* than it is, and does not pad what stays in place.
GrowEnd(b, k) ==
  IF k < Len(b.chunks) THEN b.chunks[k + 1].at ELSE Payload + BlockHeader

DynamicRealloc(i, k, n) ==
  LET b    == dheap.blocks[i]
      c    == b.chunks[k]
      room == GrowEnd(b, k) - (c.at + ChunkHeader)
      next == Allocated(dheap, Pad(n), Unmapped)
  IN  \/ /\ n <= c.size \/ n <= room
         /\ dheap' = [dheap EXCEPT !.blocks[i].chunks[k].size = n]
         /\ UNCHANGED <<sheap, alive>>
      \/ /\ n > c.size /\ n > room
         /\ \/ \E h \in next : dheap' = Freed(h, b.region, c.at) /\ UNCHANGED <<sheap, alive>>
            \/ next = {} /\ Fatal

-----------------------------------------------------------------------------
\* mem_static_create and mem_dynamic_create map the first blocks.
HeapInit ==
  /\ \E r, t \in Region :
       /\ r # t
       /\ sheap = NewSBlock([blocks |-> <<>>, count |-> 0, free |-> 0], r)
       /\ dheap = NewDBlock([blocks |-> <<>>, count |-> 0], t)
  /\ alive = TRUE

HeapNext ==
  /\ alive
  /\ \/ StaticAlloc
     \/ \E i \in DOMAIN sheap.blocks : \E c \in sheap.blocks[i].used : StaticFree(i, c)
     \/ \E n \in Size : DynamicAlloc(n)
     \/ \E i \in DOMAIN dheap.blocks : \E k \in DOMAIN dheap.blocks[i].chunks :
          DynamicFree(i, k) \/ \E n \in Size : DynamicRealloc(i, k, n)

HeapSpec == HeapInit /\ [][HeapNext]_heapVars

-----------------------------------------------------------------------------
(* Properties.                                                             *)

HandedOut ==
  LET S == sheap.blocks
      D == dheap.blocks
  IN  UNION {{[region |-> S[i].region, lo |-> c, hi |-> c + 1] : c \in S[i].used}
             : i \in DOMAIN S}
      \cup
      UNION {{[region |-> D[i].region, lo |-> c.at, hi |-> End(c)] : c \in Range(D[i].chunks)}
             : i \in DOMAIN D}

\* mem_static_alloc and mem_dynamic_alloc hand out memory that is nobody
\* else's, and neither freeing a chunk, nor moving one, nor giving blocks
\* back takes away the memory of another: Heaps implements HeapPromise.  A
\* chunk that realloc grew may end up to BlockHeader behind its block.
Promise == INSTANCE HeapPromise WITH held <- HandedOut, Top <- Payload + BlockHeader
ActsAsHeap == Promise!Spec

\* What the heaps decide by (block_count, free_chunks) is what they have, so
\* that a static heap that counts a free chunk has one, and a block nobody
\* uses is kept only as the one block of its heap.
HeapsTidy ==
  LET S == sheap.blocks
      D == dheap.blocks
  IN  /\ sheap.count = Len(S) /\ S # <<>>
      /\ sheap.free = MapThenSumSet(LAMBDA i : Len(S[i].free), DOMAIN S)
      /\ \A i \in DOMAIN S : Range(S[i].free) = (1 .. ChunksPerBlock) \ S[i].used
      /\ (\E i \in DOMAIN S : S[i].used = {}) => Len(S) = 1
      /\ dheap.count = Len(D) /\ D # <<>>
      /\ (\E i \in DOMAIN D : D[i].chunks = <<>>) => Len(D) = 1
=============================================================================
