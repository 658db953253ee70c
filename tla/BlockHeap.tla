------------------------------ MODULE BlockHeap ------------------------------
(***************************************************************************)
(* The heap of mm.c as a set of blocks: what the boundary tags of module   *)
(* MM stand for while every extension of the heap is used up exactly.  The *)
(* words of the arena are gone; a block is a payload address and a size.   *)
(* Module MDriver shows (property BlockSteps) that every call of the       *)
(* word-level allocator is a step of this module as long as no extension   *)
(* has lost memory; module BlockHeapProofs proves this module correct for  *)
(* every size of the arena and every chunk size.                           *)
(*                                                                         *)
(* The first block is at 24, behind the padding, the prologue and its own  *)
(* header; the epilogue header is the word at brk, so the list ends at     *)
(* brk + 4.                                                                *)
(***************************************************************************)
EXTENDS Integers

CONSTANTS MAX_HEAP,    \* size of the arena in bytes
          CHUNKSIZE,   \* bytes of the first extension, and of the smallest
          Requests     \* sizes the program may ask for

ASSUME HeapAssumption ==
    /\ MAX_HEAP \in Nat /\ MAX_HEAP % 8 = 0
    /\ CHUNKSIZE \in Nat /\ CHUNKSIZE % 8 = 0 /\ CHUNKSIZE >= 16
    /\ CHUNKSIZE + 24 <= MAX_HEAP
    /\ Requests \subseteq Nat \ {0}

VARIABLES size,        \* size[b] > 0: there is a block at b, of that size
          payload,     \* bytes asked for by the block's owner, 0 if it is free
          brk          \* mem_brk

vars == <<size, payload, brk>>

Addr     == 0..MAX_HEAP
First    == 24
End      == brk + 4
Blocks   == {b \in Addr : size[b] > 0}
Free(b)  == payload[b] = 0
After(b) == b + size[b]

(* Faulty variants of the next definition, for the properties to catch.    *)
Adjust_unrounded(n) == IF n <= 8 THEN 16 ELSE n + 8
Adjust_no_tags(n)   == IF n <= 8 THEN 16 ELSE 8 * ((n + 7) \div 8)

Adjust(n) == IF n <= 8 THEN 16 ELSE 8 * ((n + 15) \div 8)

Init ==
    /\ size    = [a \in Addr |-> IF a = First THEN CHUNKSIZE ELSE 0]
    /\ payload = [a \in Addr |-> 0]
    /\ brk     = 20 + CHUNKSIZE

-----------------------------------------------------------------------------
(***************************************************************************)
(* mm_malloc(n)                                                            *)
(***************************************************************************)
FirstFit(b, n) ==
    /\ Free(b) /\ size[b] >= Adjust(n)
    /\ \A c \in Blocks : c < b /\ Free(c) => size[c] < Adjust(n)

(* A faulty variant of the next definition, for the properties to catch.   *)
PlaceWhole_always(b, n) ==
    /\ FirstFit(b, n)
    /\ payload' = [payload EXCEPT ![b] = n]
    /\ UNCHANGED <<size, brk>>

PlaceWhole(b, n) ==
    /\ FirstFit(b, n)
    /\ size[b] - Adjust(n) < 16
    /\ payload' = [payload EXCEPT ![b] = n]
    /\ UNCHANGED <<size, brk>>

(* A faulty variant of the next definition, for the properties to catch.   *)
PlaceSplit_short(b, n) ==
    /\ FirstFit(b, n)
    /\ size[b] - Adjust(n) >= 24
    /\ size' = [size EXCEPT ![b] = Adjust(n), ![b + Adjust(n)] = size[b] - Adjust(n) - 8]
    /\ payload' = [payload EXCEPT ![b] = n]
    /\ UNCHANGED brk

PlaceSplit(b, n) ==
    /\ FirstFit(b, n)
    /\ size[b] - Adjust(n) >= 16
    /\ size' = [size EXCEPT ![b] = Adjust(n), ![b + Adjust(n)] = size[b] - Adjust(n)]
    /\ payload' = [payload EXCEPT ![b] = n]
    /\ UNCHANGED brk

(* Faulty variants of the next definition, for the properties to catch.    *)
Extend_unchecked(n) ==
    /\ \A b \in Blocks : Free(b) => size[b] < Adjust(n) /\ After(b) # End
    /\ Adjust(n) >= CHUNKSIZE /\ brk <= MAX_HEAP
    /\ size' = [size EXCEPT ![End] = Adjust(n)]
    /\ payload' = [payload EXCEPT ![End] = n]
    /\ brk' = brk + Adjust(n)

Extend_same_brk(n) ==
    /\ \A b \in Blocks : Free(b) => size[b] < Adjust(n) /\ After(b) # End
    /\ Adjust(n) >= CHUNKSIZE /\ brk + Adjust(n) <= MAX_HEAP
    /\ size' = [size EXCEPT ![End] = Adjust(n)]
    /\ payload' = [payload EXCEPT ![End] = n]
    /\ UNCHANGED brk

(* The heap is extended by exactly one block: no free block is large       *)
(* enough, the last block is in use (a free one would be merged and leave  *)
(* a rest), and the request needs a whole chunk or more.                   *)
Extend(n) ==
    /\ \A b \in Blocks : Free(b) => size[b] < Adjust(n) /\ After(b) # End
    /\ Adjust(n) >= CHUNKSIZE
    /\ brk + Adjust(n) <= MAX_HEAP
    /\ size' = [size EXCEPT ![End] = Adjust(n)]
    /\ payload' = [payload EXCEPT ![End] = n]
    /\ brk' = brk + Adjust(n)

-----------------------------------------------------------------------------
(***************************************************************************)
(* mm_free(b), by the four cases of coalesce: a is the free block before   *)
(* b, After(b) the free block behind it.                                   *)
(***************************************************************************)
FreeBehind(b) == After(b) \in Blocks /\ Free(After(b))
FreeBefore(a, b) == Free(a) /\ After(a) = b

(* A faulty variant of the next definition, for the properties to catch.   *)
FreeAlone_always(b) ==
    /\ ~Free(b)
    /\ payload' = [payload EXCEPT ![b] = 0]
    /\ UNCHANGED <<size, brk>>

FreeAlone(b) ==
    /\ ~Free(b)
    /\ ~FreeBehind(b) /\ \A a \in Blocks : ~FreeBefore(a, b)
    /\ payload' = [payload EXCEPT ![b] = 0]
    /\ UNCHANGED <<size, brk>>

(* A faulty variant of the next definition, for the properties to catch.   *)
FreeWithNext_keeps_next(b) ==
    /\ ~Free(b) /\ FreeBehind(b)
    /\ size' = [size EXCEPT ![b] = size[b] + size[After(b)]]
    /\ payload' = [payload EXCEPT ![b] = 0]
    /\ UNCHANGED brk

FreeWithNext(b) ==
    /\ ~Free(b)
    /\ FreeBehind(b) /\ \A a \in Blocks : ~FreeBefore(a, b)
    /\ size' = [size EXCEPT ![b] = size[b] + size[After(b)], ![After(b)] = 0]
    /\ payload' = [payload EXCEPT ![b] = 0]
    /\ UNCHANGED brk

FreeWithPrev(a, b) ==
    /\ ~Free(b)
    /\ ~FreeBehind(b) /\ FreeBefore(a, b)
    /\ size' = [size EXCEPT ![a] = size[a] + size[b], ![b] = 0]
    /\ payload' = [payload EXCEPT ![b] = 0]
    /\ UNCHANGED brk

FreeWithBoth(a, b) ==
    /\ ~Free(b)
    /\ FreeBehind(b) /\ FreeBefore(a, b)
    /\ size' = [size EXCEPT ![a] = size[a] + size[b] + size[After(b)],
                            ![b] = 0, ![After(b)] = 0]
    /\ payload' = [payload EXCEPT ![b] = 0]
    /\ UNCHANGED brk

Next ==
    \/ \E n \in Requests : Extend(n)
    \/ \E b \in Blocks :
          \/ \E n \in Requests : PlaceWhole(b, n) \/ PlaceSplit(b, n)
          \/ FreeAlone(b)
          \/ FreeWithNext(b)
          \/ \E a \in Blocks : FreeWithPrev(a, b) \/ FreeWithBoth(a, b)

Spec == Init /\ [][Next]_vars

-----------------------------------------------------------------------------
(* The shape of the state.                                                 *)
TypeOK ==
    /\ size \in [Addr -> Nat]
    /\ payload \in [Addr -> Nat]
    /\ brk \in Nat /\ brk <= MAX_HEAP

(* Every block is at a doubleword boundary, whole doublewords long, and    *)
(* large enough for two tags; the epilogue header is inside the arena.     *)
Aligned ==
    /\ brk % 8 = 4 /\ End <= MAX_HEAP
    /\ \A b \in Blocks : b % 8 = 0 /\ size[b] % 8 = 0 /\ size[b] >= 16 /\ b >= First

(* The blocks tile the heap from the first block to the epilogue: what     *)
(* NEXT_BLKP and PREV_BLKP rely on to step from block to block.            *)
Tiled ==
    /\ First \in Blocks
    /\ \A b \in Blocks : After(b) \in Blocks \union {End} /\ After(b) <= End
    /\ \A b \in Blocks \union {End} : b # First => \E a \in Blocks : After(a) = b

Disjoint == \A a, b \in Blocks : a < b => After(a) <= b

(* No two free blocks touch: coalesce leaves nothing to merge.             *)
Coalesced == \A a, b \in Blocks : After(a) = b => ~Free(a) \/ ~Free(b)

(* A request fits between the tags of its block, and no block in use has   *)
(* room left for another one.                                              *)
PayloadFits ==
    \A b \in Addr : ~Free(b) =>
        /\ b \in Blocks
        /\ payload[b] + 8 <= size[b]
        /\ size[b] < Adjust(payload[b]) + 16

IInv == TypeOK /\ Aligned /\ Tiled /\ Disjoint /\ Coalesced /\ PayloadFits

(* mdriver.c add_range: no two live payloads share a byte, and none shares *)
(* one with a tag or leaves the heap.                                      *)
PayloadsApart ==
    \A p, q \in Addr :
        /\ ~Free(p) => p % 8 = 0 /\ p + payload[p] <= brk
        /\ ~Free(p) /\ ~Free(q) /\ p < q => p + payload[p] + 8 <= q

Promise == INSTANCE Allocator WITH live <- payload

(* The blocks keep the promise of module Allocator, step by step.          *)
KeepsPromise == Promise!Spec
=============================================================================
