------------------------------- MODULE MDriver -------------------------------
(***************************************************************************)
(* The correctness evaluation of the malloc lab's driver (eval_mm_valid of *)
(* mdriver.c) running traces against the allocator (MM).  A trace is any   *)
(* sequence of requests that checktrace.pl accepts: an id is allocated     *)
(* when it is not live, and resized or freed when it is.  The driver runs  *)
(* MaxEvals traces one after the other on the same arena.                  *)
(*                                                                         *)
(* mm_realloc is two steps, as it is two calls in the code: ReallocAlloc   *)
(* (mm_malloc and the copy) and ReallocFree (mm_free and everything the    *)
(* driver does when the call has returned).  Nothing else can happen       *)
(* between the two.                                                        *)
(***************************************************************************)
EXTENDS MM, FiniteSets

CONSTANTS Ids,         \* request ids of the traces
          Sizes,       \* sizes the traces ask for, multiples of WSIZE
          MaxEvals     \* bound: number of traces the driver runs

ASSUME TraceAssumption == /\ Ids \subseteq Nat
                          /\ \A s \in Sizes : s \in Nat /\ s > 0 /\ s % WSIZE = 0
                          /\ MaxEvals \in Nat

VARIABLES
    heap,      \* the allocator and its arena
    blocks,    \* trace->blocks and block_sizes of the live ids, as [ptr, size]
    ranges,    \* the range list
    pending,   \* a realloc between its two steps, or NoCall
    verdict,   \* "running", or why the evaluation of the trace ended
    evals      \* traces started so far

vars == <<heap, blocks, ranges, pending, verdict, evals>>

NoCall   == [id |-> -1]
Live     == DOMAIN blocks
Running  == verdict = "running" /\ pending = NoCall

(* A word of a payload that memset filled with the low byte of the index.  *)
(* The top bit of the word is left out, to stay in the range of TLC's      *)
(* integers: read as a tag the word exceeds any arena with it and without. *)
LowByte(id) == id % 256
Fill(id)    == (LowByte(id) % 128) * 16777216 + LowByte(id) * 65793

(* newp[j] is a char, which is signed: it is the byte that was stored only *)
(* below 128.                                                              *)
SignedChar(byte) == IF byte < 128 THEN byte ELSE byte - 256

PayloadWords(p, size) == {w \in Words : p <= w /\ w < p + size}

Filled(m, p, size, id) ==
    [w \in Words |-> IF p <= w /\ w < p + size THEN Fill(id) ELSE m[w]]

(* A live id's entry; the entry of a freed id is dead: no trace reads it.  *)
Record(id, p, size) ==
    [i \in Live \union {id} |-> IF i = id THEN [ptr |-> p, size |-> size] ELSE blocks[i]]

Forget(id) == [i \in Live \ {id} |-> blocks[i]]

(* The range list of the driver.                                           *)
RL == INSTANCE RangeList WITH brk <- heap.brk, Requests <- Sizes

-----------------------------------------------------------------------------
Init ==
    /\ heap = mem_init
    /\ blocks = <<>>
    /\ ranges = {}
    /\ pending = NoCall
    /\ verdict = "idle"
    /\ evals = 0

(* A faulty variant of the next definition, for the properties to catch.   *)
EvalStart_keeps_ranges ==
    LET r == mm_init(mem_reset_brk(heap))
    IN  /\ evals < MaxEvals /\ pending = NoCall /\ verdict # "undefined"
        /\ evals' = evals + 1 /\ heap' = r.heap /\ blocks' = <<>>
        /\ verdict' = "running"
        /\ UNCHANGED <<ranges, pending>>

(* The previous trace has ended, after any of its requests or at an error, *)
(* and the next one starts: mem_reset_brk, clear_ranges, mm_init.          *)
EvalStart ==
    LET r == mm_init(mem_reset_brk(heap))
    IN  /\ evals < MaxEvals
        /\ pending = NoCall /\ verdict # "undefined"
        /\ evals' = evals + 1
        /\ heap' = r.heap
        /\ ranges' = {}
        /\ blocks' = <<>>
        /\ verdict' = IF r.ret = Fail THEN "mm_init failed" ELSE "running"
        /\ UNCHANGED pending

(* mm_malloc returned NULL, or did not return at all.                      *)
CallFailed(r, why) ==
    /\ r.ret \in {NULL, Wild}
    /\ verdict' = IF r.ret = Wild THEN "undefined" ELSE why
    /\ heap' = r.heap

Alloc(id, size) ==
    LET r == mm_malloc(heap, size)
    IN  /\ Running /\ id \notin Live
        /\ \/ /\ CallFailed(r, "mm_malloc failed")
              /\ UNCHANGED <<blocks, ranges>>
           \/ /\ r.ret \notin {NULL, Wild}
              /\ ~RL!Accepted(ranges, r.heap.brk, RL!Range(r.ret, size))
              /\ verdict' = "bad range"
              /\ heap' = r.heap
              /\ UNCHANGED <<blocks, ranges>>
           \/ /\ r.ret \notin {NULL, Wild}
              /\ RL!Accepted(ranges, r.heap.brk, RL!Range(r.ret, size))
              /\ ranges' = RL!add_range(ranges, RL!Range(r.ret, size))
              /\ heap' = [r.heap EXCEPT !.mem = Filled(@, r.ret, size, id)]
              /\ blocks' = Record(id, r.ret, size)
              /\ UNCHANGED verdict
        /\ UNCHANGED <<pending, evals>>

ReallocAlloc(id, size) ==
    /\ Running /\ id \in Live
    /\ \E r \in ReallocCopies(heap, blocks[id].ptr, size) :
          \/ /\ CallFailed(r, "mm_realloc failed")
             /\ UNCHANGED pending
          \/ /\ r.ret \notin {NULL, Wild}
             /\ pending' = [id |-> id, ptr |-> r.ret, size |-> size]
             /\ heap' = r.heap
             /\ UNCHANGED verdict
    /\ UNCHANGED <<blocks, ranges, evals>>

(* The driver's comparison of each byte newp[j] with index & 0xFF.         *)
Preserved(m, id, p, size) ==
    \A w \in PayloadWords(p, Smaller(size, blocks[id].size)) :
        m[w] = Fill(id) /\ SignedChar(LowByte(id)) = LowByte(id)

ReallocFree ==
    LET id   == pending.id
        newp == pending.ptr
        size == pending.size
        new  == RL!Range(newp, size)
        oldp == blocks[id].ptr
        r    == mm_free(heap, oldp)
        rest == RL!remove_range(ranges, oldp)
    IN  /\ pending # NoCall
        /\ pending' = NoCall
        /\ \/ /\ r.ret = Wild
              /\ verdict' = "undefined"
              /\ UNCHANGED <<heap, ranges, blocks>>
           \/ /\ r.ret # Wild
              /\ ~RL!Accepted(rest, r.heap.brk, new)
              /\ verdict' = "bad range"
              /\ heap' = r.heap
              /\ ranges' = rest
              /\ UNCHANGED blocks
           \/ /\ r.ret # Wild
              /\ RL!Accepted(rest, r.heap.brk, new)
              /\ ~Preserved(r.heap.mem, id, newp, size)
              /\ verdict' = "data lost"
              /\ heap' = r.heap
              /\ ranges' = RL!add_range(rest, new)
              /\ UNCHANGED blocks
           \/ /\ r.ret # Wild
              /\ RL!Accepted(rest, r.heap.brk, new)
              /\ Preserved(r.heap.mem, id, newp, size)
              /\ heap' = [r.heap EXCEPT !.mem = Filled(@, newp, size, id)]
              /\ ranges' = RL!add_range(rest, new)
              /\ blocks' = Record(id, newp, size)
              /\ UNCHANGED verdict
        /\ UNCHANGED evals

Free(id) ==
    LET r == mm_free(heap, blocks[id].ptr)
    IN  /\ Running /\ id \in Live
        /\ ranges' = RL!remove_range(ranges, blocks[id].ptr)
        /\ blocks' = Forget(id)
        /\ heap' = r.heap
        /\ verdict' = IF r.ret = Wild THEN "undefined" ELSE verdict
        /\ UNCHANGED <<pending, evals>>

Next ==
    \/ EvalStart
    \/ \E id \in Ids, size \in Sizes : Alloc(id, size) \/ ReallocAlloc(id, size)
    \/ ReallocFree
    \/ \E id \in Ids : Free(id)

Spec == Init /\ [][Next]_vars

-----------------------------------------------------------------------------
(***************************************************************************)
(* Properties.                                                             *)
(*                                                                         *)
(* mm_malloc's extension path frames only the first asize bytes of the     *)
(* block that extend_heap returns.  The allocator is correct up to the     *)
(* first extension that returns more than asize bytes, and the properties  *)
(* below say what "correct" is as long as heap.lossless holds.             *)
(***************************************************************************)
Initialised == evals > 0
List        == ListFrom(heap, heap.heap_start_pos)
Size(b)     == GET_SIZE(heap.mem[HDRP(b)])
IsAlloc(b)  == GET_ALLOC(heap.mem[HDRP(b)]) = 1
EndOfList   == heap.brk + WSIZE

(* The shape of the state.                                                 *)
TypeOK ==
    /\ DOMAIN heap.mem = Words /\ \A w \in Words : heap.mem[w] \in Nat
    /\ heap.brk \in 0..MAX_HEAP /\ heap.lossless \in BOOLEAN
    /\ Live \subseteq Ids
    /\ \A id \in Live : blocks[id].ptr \in Nat /\ blocks[id].size \in Sizes
    /\ \A r \in ranges : r.lo \in Nat /\ r.hi \in Nat
    /\ pending = NoCall \/ (pending.id \in Live /\ pending.size \in Sizes)
    /\ verdict \in {"idle", "running", "mm_init failed", "mm_malloc failed",
                    "mm_realloc failed", "bad range", "data lost", "undefined"}
    /\ evals \in 0..MaxEvals

(* The break stays one word past a doubleword boundary, so the epilogue    *)
(* header, which is written AT the break and not below it, is inside the   *)
(* arena even when the arena is full (extend_heap, mem_sbrk).              *)
EpilogueInArena ==
    Initialised => heap.brk % 8 = 4 /\ heap.brk + WSIZE <= MAX_HEAP

(* The list walked by mm_malloc covers the heap from the prologue to the   *)
(* epilogue, every footer repeats its header, and no two free blocks touch:*)
(* what mm_malloc, mm_free and coalesce rely on when they follow tags.     *)
WellFormedHeap ==
    Initialised /\ heap.lossless =>
        /\ heap.mem[HDRP(EndOfList)] = PACK(0, 1)
        /\ \A b \in List :
              LET next == b + Size(b)
              IN  /\ FTRP(heap.mem, b) \in Words
                  /\ heap.mem[FTRP(heap.mem, b)] = heap.mem[HDRP(b)]
                  /\ next \in List \union {EndOfList}
                  /\ b # heap.heap_start_pos => Size(b) >= 2 * DSIZE
                  /\ ~IsAlloc(b) => next = EndOfList \/ IsAlloc(next)

(* The allocated blocks of the list are those the trace holds, each once,  *)
(* and none is wasteful: nothing is leaked, and a block that could have    *)
(* been split has been (place path of mm_malloc, mm_free, mm_realloc).     *)
(* A driver that found data lost has left its table as it was before the   *)
(* mm_realloc.                                                             *)
Owners ==
    {<<blocks[id].ptr, blocks[id].size>> : id \in Live} \union
    (IF pending = NoCall THEN {} ELSE {<<pending.ptr, pending.size>>})

OwnedBlocks ==
    Initialised /\ heap.lossless /\ verdict \notin {"undefined", "data lost"} =>
        /\ {b \in List \ {heap.heap_start_pos} : IsAlloc(b)} = {o[1] : o \in Owners}
        /\ Cardinality({o[1] : o \in Owners}) =
              Cardinality(Live) + (IF pending = NoCall THEN 0 ELSE 1)
        /\ \A o \in Owners : /\ o[2] + DSIZE <= Size(o[1])
                             /\ Size(o[1]) < Adjust(o[2]) + 2 * DSIZE

(* What the program wrote into its blocks is still there, in the middle of *)
(* a realloc and after a failed one too.                                   *)
DataKept ==
    heap.lossless =>
        \A id \in Live : \A w \in PayloadWords(blocks[id].ptr, blocks[id].size) :
            heap.mem[w] = Fill(id)

(* The driver's range list is the live payloads, across reallocs that move *)
(* or leave a block (remove_range and add_range of eval_mm_valid).         *)
RangesMirrorBlocks ==
    Running => ranges = {RL!Range(blocks[id].ptr, blocks[id].size) : id \in Live}

(* The range list of a driver that runs traces behaves as module RangeList *)
(* allows, whatever the allocator returns.                                 *)
UsesRangeList == RL!Spec

(* The driver complains of an overlap, a stray payload or data lost by a   *)
(* realloc only after an extension that lost memory (or, see LossIsReal,   *)
(* of an id whose low byte is 128 or more).                                *)
NoFalseAlarm ==
    /\ verdict = "bad range" => ~heap.lossless
    /\ verdict = "data lost" => ~heap.lossless \/ \E id \in Live : LowByte(id) >= 128

(* mm_malloc fails only when no block of the list is free and large enough *)
(* and the arena has no room for the extension; a failed call leaves every *)
(* word of the heap and the break as they were (extend_heap, mem_sbrk).    *)
NoRoom(size) ==
    /\ \A b \in List : IsAlloc(b) \/ Size(b) < Adjust(size)
    /\ heap.brk + Larger(Adjust(size), CHUNKSIZE) > MAX_HEAP

FailsOnlyWhenFull ==
    [][verdict' # verdict /\ verdict' \in {"mm_malloc failed", "mm_realloc failed"} =>
          \A id \in Ids, size \in Sizes :
              Alloc(id, size) \/ ReallocAlloc(id, size) => NoRoom(size) /\ UNCHANGED heap]_vars

(***************************************************************************)
(* The heap as blocks: the refinement mapping to module BlockHeap.  A block*)
(* is in use for whoever holds its address, a realloc between its two      *)
(* steps included.                                                         *)
(***************************************************************************)
BlockSize ==
    LET blks == List \ {heap.heap_start_pos}
    IN  [b \in 0..MAX_HEAP |-> IF b \in blks THEN Size(b) ELSE 0]

BlockPayload ==
    LET owners == Owners
        held   == {o[1] : o \in owners}
    IN  [b \in 0..MAX_HEAP |->
            IF b \in held THEN (CHOOSE o \in owners : o[1] = b)[2] ELSE 0]

BH == INSTANCE BlockHeap WITH size <- BlockSize, payload <- BlockPayload,
                              brk <- heap.brk, Requests <- Sizes

(* Until an extension loses memory every call of the allocator is one step *)
(* of module BlockHeap, and mm_init starts it afresh on whatever the arena *)
(* holds, or finds an arena that cannot hold a single chunk.               *)
BlockSteps ==
    [][heap'.lossless /\ verdict' \notin {"undefined", "data lost"} =>
            \/ BH!Next \/ BH!Init' \/ UNCHANGED BH!vars
            \/ verdict' = "mm_init failed" /\ CHUNKSIZE + 24 > MAX_HEAP]_vars

-----------------------------------------------------------------------------
(***************************************************************************)
(* Statements of the repository that the code does not live up to.         *)
(***************************************************************************)

(* mdriver.c: the block that mm_malloc or mm_realloc returns "must be      *)
(* aligned properly, and must not overlap any currently allocated block".  *)
NeverRefused == verdict # "bad range"

(* mdriver.c: a payload that add_range accepts "must not overlap any other *)
(* payloads".                                                              *)
NoOverlap ==
    \A i, j \in Live : i # j =>
        \/ blocks[i].ptr + blocks[i].size <= blocks[j].ptr
        \/ blocks[j].ptr + blocks[j].size <= blocks[i].ptr

(* mdriver.c: "make sure that the new block contains the data from the old *)
(* block".                                                                 *)
ReallocPreserves == verdict # "data lost"

(* The same comment: when the driver says that a realloc lost data, no     *)
(* payload it knows of still starts with that data.                        *)
LossIsReal ==
    verdict = "data lost" =>
        \E id \in Live : \A r \in ranges :
            \E w \in PayloadWords(r.lo, Smaller(r.hi - r.lo + 1, blocks[id].size)) :
                heap.mem[w] # Fill(id)
=============================================================================
