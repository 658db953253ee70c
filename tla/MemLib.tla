------------------------------- MODULE MemLib -------------------------------
(***************************************************************************)
(* The memory system model of the malloc lab (Week07/malloc-lab/memlib.c): *)
(* one arena of MAX_HEAP bytes and a break pointer that only grows.        *)
(*                                                                         *)
(* Addresses are byte offsets from mem_start_brk, which the C library      *)
(* aligns to 16 bytes.  The allocator reads and writes whole 4-byte words, *)
(* so the arena is a function from the word addresses to word values.  The *)
(* arena is NOT cleared by mem_reset_brk: what an earlier evaluation left  *)
(* in it is still there in the next one.                                   *)
(*                                                                         *)
(* A heap is a record                                                      *)
(*    mem            the words of the arena                                *)
(*    brk            mem_brk                                               *)
(*    heap_start_pos the static of mm.c, set by mm_init                    *)
(*    lossless       history, read by properties only: every extension of  *)
(*                   the heap since mm_init was used up exactly (see MM)   *)
(* and an operation is a function from a heap to a Result.                 *)
(***************************************************************************)
EXTENDS Integers

CONSTANT MAX_HEAP      \* config.h: size of the arena in bytes

ASSUME ArenaAssumption == MAX_HEAP \in Nat /\ MAX_HEAP % 8 = 0 /\ MAX_HEAP >= 24

WSIZE == 4
Words == {a \in 0..(MAX_HEAP - 1) : a % WSIZE = 0}

NULL  == 0             \* no payload is at offset 0: it is alignment padding
Fail  == -1            \* (void *)-1
Wild  == -2            \* the call touched memory outside the arena

Result(h, r) == [heap |-> h, ret |-> r]

(***************************************************************************)
(* mem_init: the arena is one malloc of 20 MB, which the C library takes   *)
(* from fresh (zero) pages.                                                *)
(***************************************************************************)
mem_init == [mem |-> [a \in Words |-> 0], brk |-> 0,
             heap_start_pos |-> NULL, lossless |-> TRUE]

(* A faulty variant of the next definition, for the properties to catch.   *)
mem_reset_brk_forgotten(h) == h

mem_reset_brk(h) == [h EXCEPT !.brk = 0]

(* Faulty variants of the next definition, for the properties to catch.    *)
mem_sbrk_unchecked(h, incr) == Result([h EXCEPT !.brk = @ + incr], h.brk)
mem_sbrk_early(h, incr) ==
    Result([h EXCEPT !.brk = @ + incr], IF h.brk + incr > MAX_HEAP THEN Fail ELSE h.brk)
mem_sbrk_rounded(h, incr) ==
    IF h.brk + incr > MAX_HEAP
    THEN Result(h, Fail)
    ELSE Result([h EXCEPT !.brk = @ + ((incr + 7) \div 8) * 8], h.brk)

mem_sbrk(h, incr) ==
    IF incr < 0 \/ h.brk + incr > MAX_HEAP
    THEN Result(h, Fail)
    ELSE Result([h EXCEPT !.brk = @ + incr], h.brk)
=============================================================================
