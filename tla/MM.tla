--------------------------------- MODULE MM ---------------------------------
(***************************************************************************)
(* The allocator of the malloc lab (Week07/malloc-lab/mm.c): an implicit   *)
(* list of blocks with boundary tags, first fit, immediate coalescing.     *)
(*                                                                         *)
(* Every operator below is a C function or macro of mm.c, as a function of *)
(* the heap (module MemLib).  The words of the arena are all the allocator *)
(* has: a block exists only in its header and footer words, so a header    *)
(* that the code leaves unwritten is whatever the arena held there.  An    *)
(* access outside the arena is undefined behaviour and ends the call with  *)
(* the result Wild.                                                        *)
(*                                                                         *)
(* Request sizes are multiples of WSIZE: adjusting rounds every size up to *)
(* a doubleword anyway.                                                    *)
(***************************************************************************)
EXTENDS MemLib

CONSTANT CHUNKSIZE

ASSUME ChunkAssumption == CHUNKSIZE \in Nat /\ CHUNKSIZE % 8 = 0 /\ CHUNKSIZE >= 16

DSIZE == 8

Larger(x, y)  == IF x > y THEN x ELSE y
Smaller(x, y) == IF x < y THEN x ELSE y
ALIGN(size)   == ((size + 7) \div 8) * 8

(* Words of a boundary tag: the size is a multiple of 8, bit 0 is the      *)
(* allocated bit.                                                          *)
PACK(size, alloc) == size + alloc
GET_SIZE(w)  == w - (w % 8)
GET_ALLOC(w) == w % 2

HDRP(bp)         == bp - WSIZE
FTRP(m, bp)      == bp + GET_SIZE(m[HDRP(bp)]) - DSIZE
NEXT_BLKP(m, bp) == bp + GET_SIZE(m[HDRP(bp)])
PREV_BLKP(m, bp) == bp - GET_SIZE(m[bp - DSIZE])

(* PUT(HDRP(bp), tag); PUT(FTRP(bp), tag): the footer is found from the    *)
(* header just written.                                                    *)
Frame(h, bp, size, alloc) ==
    LET footer == bp + size - DSIZE
    IN  IF {HDRP(bp), footer} \subseteq Words
        THEN Result([h EXCEPT !.mem[HDRP(bp)] = PACK(size, alloc),
                              !.mem[footer]   = PACK(size, alloc)], bp)
        ELSE Result(h, Wild)

(* The body shared by coalesce_with_next, _prev and _both: the header of   *)
(* the first block, then the footer that the last block's header points to.*)
Merge(h, first, last, size) ==
    LET m == [h.mem EXCEPT ![HDRP(first)] = PACK(size, 0)]
    IN  IF FTRP(m, last) \in Words
        THEN Result([h EXCEPT !.mem = [m EXCEPT ![FTRP(m, last)] = PACK(size, 0)]],
                    first)
        ELSE Result(h, Wild)

coalesce(h, bp) ==
    LET m    == h.mem
        prev == PREV_BLKP(m, bp)
        next == NEXT_BLKP(m, bp)
        Size(b)    == GET_SIZE(m[HDRP(b)])
        prev_alloc == GET_ALLOC(m[FTRP(m, prev)]) = 1
        next_alloc == GET_ALLOC(m[HDRP(next)]) = 1
        readable   == /\ {HDRP(bp), bp - DSIZE} \subseteq Words
                      /\ {HDRP(prev), HDRP(next)} \subseteq Words
                      /\ FTRP(m, prev) \in Words
    IN  CASE ~readable -> Result(h, Wild)
          [] readable /\ prev_alloc /\ next_alloc -> Result(h, bp)
          [] readable /\ prev_alloc /\ ~next_alloc ->
                Merge(h, bp, next, Size(bp) + Size(next))
          [] readable /\ ~prev_alloc /\ next_alloc ->
                Merge(h, prev, bp, Size(prev) + Size(bp))
          [] readable /\ ~prev_alloc /\ ~next_alloc ->
                Merge(h, prev, next, Size(prev) + Size(bp) + Size(next))

(* The block returned starts at the old epilogue header, whose word becomes*)
(* its own header; the new epilogue header is the word AT the new break.   *)
extend_heap(h, words) ==
    LET even        == IF words % 2 = 1 THEN words + 1 ELSE words
        extend_size == ALIGN(Larger(even * WSIZE, CHUNKSIZE))
        s           == mem_sbrk(h, extend_size)
        bp          == s.ret + WSIZE
        framed      == Frame(s.heap, bp, extend_size, 0).heap
    IN  IF s.ret = Fail
        THEN Result(s.heap, NULL)
        ELSE coalesce([framed EXCEPT !.mem[s.ret + extend_size] = PACK(0, 1)], bp)

mm_init(h) ==
    LET pad   == mem_sbrk(h, WSIZE)
        four  == mem_sbrk(pad.heap, 4 * WSIZE)
        p     == IF (four.ret + 2 * WSIZE) % 8 # 0 THEN four.ret + WSIZE ELSE four.ret
        fresh == [four.heap EXCEPT !.mem[p]             = 0,
                                   !.mem[p + WSIZE]     = PACK(DSIZE, 1),
                                   !.mem[p + 2 * WSIZE] = PACK(DSIZE, 1),
                                   !.mem[p + 3 * WSIZE] = PACK(0, 1),
                                   !.heap_start_pos     = p + 2 * WSIZE,
                                   !.lossless           = TRUE]
        e     == extend_heap(fresh, CHUNKSIZE \div WSIZE)
    IN  CASE pad.ret = Fail -> pad
          [] pad.ret # Fail /\ four.ret = Fail -> four
          [] pad.ret # Fail /\ four.ret # Fail ->
                Result(e.heap, IF e.ret = NULL THEN Fail ELSE 0)

(* The block size for a request: payload, header and footer, in doublewords*)
Adjust(size) == IF size <= DSIZE
                THEN 2 * DSIZE
                ELSE DSIZE * ((size + DSIZE + (DSIZE - 1)) \div DSIZE)

(* The first-fit walk of mm_malloc: it goes from header to header until a  *)
(* word whose size is 0, whatever that word is.                            *)
FirstFit(h, asize) ==
    LET Word(bp) == h.mem[HDRP(bp)]
        walk[bp \in Nat] ==
            IF HDRP(bp) \notin Words THEN Wild
            ELSE IF GET_SIZE(Word(bp)) = 0 THEN NULL
            ELSE IF GET_ALLOC(Word(bp)) = 0 /\ GET_SIZE(Word(bp)) >= asize THEN bp
            ELSE walk[bp + GET_SIZE(Word(bp))]
    IN  walk[h.heap_start_pos]

(* A faulty variant of the next definition, for the properties to catch.   *)
Place_whole(h, bp, asize) == Frame(h, bp, GET_SIZE(h.mem[HDRP(bp)]), 1)

Place(h, bp, asize) ==
    LET csize == GET_SIZE(h.mem[HDRP(bp)])
        front == Frame(h, bp, asize, 1)
        rest  == Frame(front.heap, bp + asize, csize - asize, 0)
    IN  CASE csize - asize < 2 * DSIZE -> Frame(h, bp, csize, 1)
          [] csize - asize >= 2 * DSIZE ->
                IF Wild \in {front.ret, rest.ret} THEN Result(h, Wild)
                                                  ELSE Result(rest.heap, bp)

(* No fit: the heap is extended and only the first asize bytes of the      *)
(* coalesced block get a header and a footer.  What follows them up to the *)
(* epilogue belongs to no block unless the block is exactly asize long.    *)
ExtendAndPlace(h, asize) ==
    LET e == extend_heap(h, Larger(asize, CHUNKSIZE) \div WSIZE)
        exact  == GET_SIZE(e.heap.mem[HDRP(e.ret)]) = asize
        framed == Frame(e.heap, e.ret, asize, 1)
    IN  IF e.ret \in {NULL, Wild}
        THEN e
        ELSE Result([framed.heap EXCEPT !.lossless = @ /\ exact], framed.ret)

mm_malloc(h, size) ==
    LET asize == Adjust(size)
        fit   == FirstFit(h, asize)
    IN  CASE size = 0 -> Result(h, NULL)
          [] size # 0 /\ fit = Wild -> Result(h, Wild)
          [] size # 0 /\ fit = NULL -> ExtendAndPlace(h, asize)
          [] size # 0 /\ fit \notin {Wild, NULL} -> Place(h, fit, asize)

(* A faulty variant of the next definition, for the properties to catch.   *)
mm_free_only(h, bp) == Frame(h, bp, GET_SIZE(h.mem[HDRP(bp)]), 0)

mm_free(h, bp) ==
    LET framed == Frame(h, bp, GET_SIZE(h.mem[HDRP(bp)]), 0)
    IN  IF framed.ret = Wild THEN framed ELSE coalesce(framed.heap, bp)

(***************************************************************************)
(* mm_realloc up to its mm_free: mm_malloc, then memcpy of copySize bytes. *)
(* copySize is read as a size_t at oldptr - 8: its high half is the old    *)
(* block's own header, so unless that header is 0 it exceeds every size    *)
(* the driver asks for and the copy is "size" bytes long.  When the two    *)
(* ranges overlap memcpy is undefined: it may read everything first, or    *)
(* copy upwards word by word over what it has still to read.  A copySize   *)
(* that ends inside a word (possible only once a header is 0) counts the   *)
(* whole word.                                                             *)
(***************************************************************************)
(* Faulty variants of the next definition, for the properties to catch.    *)
CopySize_words(m, oldptr, size) == size \div WSIZE
CopySize_block(m, oldptr, size) == GET_SIZE(m[HDRP(oldptr)])

CopySize(m, oldptr, size) ==
    IF m[HDRP(oldptr)] > 0 THEN size ELSE Smaller(size, m[oldptr - DSIZE])

memcpy(m, dst, src, n) ==
    LET offset  == {a - dst : a \in {w \in Words : dst <= w /\ w < dst + n}}
        atOnce  == [a \in Words |-> IF a - dst \in offset THEN m[src + (a - dst)] ELSE m[a]]
        upwards[a \in Words] ==
            IF a - dst \in offset
            THEN LET s == src + (a - dst)
                 IN  IF s < a /\ s >= dst THEN upwards[s] ELSE m[s]
            ELSE m[a]
    IN  {atOnce, upwards}

ReallocCopies(h, oldptr, size) ==
    LET r == mm_malloc(h, size)
        n == CopySize(r.heap.mem, oldptr, size)
    IN  IF r.ret \in {NULL, Wild}
        THEN {r}
        ELSE IF oldptr + n > MAX_HEAP
             THEN {Result(r.heap, Wild)}
             ELSE {Result([r.heap EXCEPT !.mem = m], r.ret) :
                        m \in memcpy(r.heap.mem, r.ret, oldptr, n)}

(* The block pointers of the list, by the same walk as mm_malloc's.        *)
ListFrom(h, start) ==
    LET walk[bp \in Nat] ==
            IF HDRP(bp) \notin Words THEN {}
            ELSE IF GET_SIZE(h.mem[HDRP(bp)]) = 0 THEN {}
            ELSE {bp} \union walk[bp + GET_SIZE(h.mem[HDRP(bp)])]
    IN  walk[start]
=============================================================================
