---------------------------- MODULE MDriverProofs ----------------------------
(***************************************************************************)
(* The driver and the allocator of the malloc lab together, for every      *)
(* arena, chunk size, set of ids and set of request sizes, and any number  *)
(* of traces.  Shape is what holds of every state, also when extensions    *)
(* have lost memory; Sound is what holds while none has.                   *)
(***************************************************************************)
EXTENDS MDriver, MMProofs, FiniteSetTheorems

Verdicts == {"idle", "running", "mm_init failed", "mm_malloc failed",
             "mm_realloc failed", "bad range", "data lost", "undefined"}

LEMMA SizeType ==
    \A s \in Sizes : s \in Nat /\ s > 0 /\ s % 4 = 0
BY TraceAssumption DEF WSIZE

(* An entry of the driver's table: an aligned payload below the break.     *)
Entry(p, n) == Pointer(p) /\ p % 8 = 0 /\ n \in Sizes /\ p + n <= heap.brk

Calls == {NoCall} \union [id : Ids, ptr : Nat, size : Sizes]

Mirror == {RL!Range(blocks[id].ptr, blocks[id].size) : id \in Live}

Shape ==
    /\ Typed(heap) /\ evals \in 0..MaxEvals /\ verdict \in Verdicts
    /\ Initialised => Ready(heap)
    /\ ~Initialised => /\ verdict = "idle" /\ blocks = <<>> /\ ranges = {}
                       /\ pending = NoCall /\ heap.brk = 0
    /\ Live \subseteq Ids /\ IsFiniteSet(Live)
    /\ \A id \in Live : Entry(blocks[id].ptr, blocks[id].size)
    /\ \A i, j \in Live : blocks[i].ptr = blocks[j].ptr => i = j
    /\ ranges \subseteq [lo : Nat, hi : Nat]
    /\ pending \in Calls
    /\ pending # NoCall => /\ pending.id \in Live /\ pending.size \in Sizes
                           /\ Pointer(pending.ptr) /\ verdict = "running"
    /\ verdict = "running" => ranges = Mirror

LEMMA RangeIs ==
    ASSUME NEW p \in Nat, NEW n \in Sizes
    PROVE  /\ RL!Range(p, n) \in [lo : Nat, hi : Nat]
           /\ RL!Range(p, n).lo = p /\ RL!Range(p, n).hi = p + n - 1
BY SizeType DEF RL!Range

(* The entry of id is set, all others stay.                                *)
Entered(old, new, id, p, n) ==
    /\ DOMAIN new = DOMAIN old \union {id} /\ new[id] = [ptr |-> p, size |-> n]
    /\ \A i \in DOMAIN old : i # id => new[i] = old[i]

LEMMA RecordIs == \A id, p, n : Entered(blocks, Record(id, p, n), id, p, n)
BY DEF Record, Entered, Live

LEMMA ForgetIs ==
    ASSUME NEW id
    PROVE  /\ DOMAIN Forget(id) = Live \ {id}
           /\ \A i \in Live \ {id} : Forget(id)[i] = blocks[i]
BY DEF Forget

LEMMA FillType == \A id \in Nat : LowByte(id) \in Nat /\ Fill(id) \in Nat
BY DEF Fill, LowByte

(* memset of a payload.                                                    *)
LEMMA FilledIs ==
    ASSUME NEW h, Typed(h), NEW p \in Nat, NEW n \in Nat, NEW id \in Ids
    PROVE  /\ Filled(h.mem, p, n, id) \in Arena
           /\ [h EXCEPT !.mem = Filled(@, p, n, id)] = With(h, Filled(h.mem, p, n, id))
           /\ \A w \in PayloadWords(p, n) : Filled(h.mem, p, n, id)[w] = Fill(id)
           /\ \A w \in Words \ PayloadWords(p, n) : Filled(h.mem, p, n, id)[w] = h.mem[w]
<1>1. Fill(id) \in Nat
  BY FillType, TraceAssumption
<1>2. h.mem \in [Words -> Nat]
  BY DEF Typed, Arena
<1>3. Filled(h.mem, p, n, id) \in Arena
  BY <1>1, <1>2 DEF Filled, Arena
<1>4. [h EXCEPT !.mem = Filled(@, p, n, id)] = With(h, Filled(h.mem, p, n, id))
  BY DEF With, Typed
<1>5. /\ \A w \in PayloadWords(p, n) : Filled(h.mem, p, n, id)[w] = Fill(id)
      /\ \A w \in Words \ PayloadWords(p, n) : Filled(h.mem, p, n, id)[w] = h.mem[w]
  BY DEF Filled, PayloadWords
<1> QED BY <1>3, <1>4, <1>5

LEMMA InitShape == Init => Shape
<1> SUFFICES ASSUME Init PROVE Shape
  OBVIOUS
<1> USE DEF Init
<1>1. Typed(heap) /\ heap.brk = 0
  BY DEF mem_init, Typed, Arena, NULL
<1>2. Live = {}
  BY DEF Live
<1>3. IsFiniteSet(Live)
  BY <1>2, FS_EmptySet
<1>4. evals \in 0..MaxEvals /\ ~Initialised
  BY TraceAssumption DEF Initialised
<1> QED BY <1>1, <1>2, <1>3, <1>4 DEF Shape, Verdicts, Calls

(* What add_range has checked.                                             *)
LEMMA AcceptedIs ==
    ASSUME NEW rs, NEW e \in Nat, NEW p \in Nat, NEW n \in Sizes,
           RL!Accepted(rs, e, RL!Range(p, n)), rs \subseteq [lo : Nat, hi : Nat]
    PROVE  /\ p % 8 = 0 /\ p + n <= e
           /\ \A r \in rs : r.lo <= r.hi => r.lo # p
<1>1. n \in Nat /\ n > 0
  BY SizeType
<1>2. RL!Range(p, n).lo = p /\ RL!Range(p, n).hi = p + n - 1
  BY RangeIs
<1> DEFINE q == RL!Range(p, n)
<1>3. /\ q.lo % 8 = 0 /\ q.hi <= e - 1 /\ \A r \in rs : ~RL!Overlaps(q, r)
  BY DEF RL!Accepted
<1>4. \A r \in rs : ~(q.lo >= r.lo /\ q.lo <= r.hi)
  BY <1>3 DEF RL!Overlaps
<1> HIDE DEF q
<1>5. q.lo = p /\ q.hi = p + n - 1
  BY <1>2 DEF q
<1> QED BY <1>1, <1>3, <1>4, <1>5

LEMMA EvalStartShape == Shape /\ EvalStart => Shape'
<1> SUFFICES ASSUME Shape, EvalStart PROVE Shape'
  OBVIOUS
<1> DEFINE r == mm_init(mem_reset_brk(heap))
<1>1. Ready(r.heap) /\ (r.ret = Fail \/ r.ret # Fail)
  BY InitIs DEF Shape
<1>2. /\ evals < MaxEvals /\ evals' = evals + 1 /\ heap' = r.heap /\ ranges' = {} /\ blocks' = <<>>
      /\ verdict' = IF r.ret = Fail THEN "mm_init failed" ELSE "running"
      /\ pending = NoCall /\ pending' = NoCall
  BY DEF EvalStart
<1> HIDE DEF r
<1>3. Ready(heap') /\ Typed(heap')
  BY <1>1, <1>2 DEF Ready
<1>4. evals' \in 0..MaxEvals /\ Initialised' /\ verdict' \in Verdicts
  <2>1. evals \in 0..MaxEvals /\ MaxEvals \in Nat
    BY TraceAssumption DEF Shape
  <2>4. evals < MaxEvals /\ evals' = evals + 1
    BY <1>2
  <2>2. evals' \in 0..MaxEvals /\ evals' > 0
    BY <2>1, <2>4
  <2>3. verdict' \in Verdicts
    BY <1>2 DEF Verdicts
  <2> QED BY <2>2, <2>3 DEF Initialised
<1>5. Live' = {} /\ IsFiniteSet(Live')
  <2>1. blocks' = <<>>
    BY <1>2
  <2>2. Live' = {}
    BY <2>1 DEF Live
  <2> QED BY <2>2, FS_EmptySet
<1>6. Mirror' = {}
  BY <1>5 DEF Mirror
<1> QED BY <1>2, <1>3, <1>4, <1>5, <1>6 DEF Shape, Calls

(* A call of the allocator from a running evaluation that fails, or that   *)
(* changes nothing but the heap.                                           *)
LEMMA HeapOnlyShape ==
    ASSUME Shape, Initialised, Grown(heap, heap'), UNCHANGED <<blocks, ranges, evals>>,
           pending' = NoCall \/ /\ pending' \in Calls /\ pending'.id \in Live
                                /\ Pointer(pending'.ptr) /\ verdict' = "running",
           verdict' \in Verdicts, verdict' = "running" => verdict = "running"
    PROVE  Shape'
<1>1. Ready(heap') /\ Typed(heap') /\ heap'.brk \in Nat /\ heap.brk \in Nat /\ heap'.brk >= heap.brk
  BY DEF Grown, Ready, Shape, Typed
<1>2. Live' = Live /\ Mirror' = Mirror /\ Initialised'
  BY DEF Live, Mirror, Initialised
<1>3. \A id \in Live : Entry(blocks[id].ptr, blocks[id].size)'
  <2> SUFFICES ASSUME NEW id \in Live PROVE Entry(blocks[id].ptr, blocks[id].size)'
    OBVIOUS
  <2>1. Entry(blocks[id].ptr, blocks[id].size)
    BY DEF Shape
  <2>2. blocks[id].ptr \in Nat /\ blocks[id].size \in Nat
    BY <2>1, SizeType DEF Entry, Pointer
  <2> QED BY <1>1, <2>1, <2>2 DEF Entry
<1>4. pending' \in Calls /\ (pending' # NoCall => pending'.size \in Sizes)
  BY DEF Calls
<1> QED BY <1>1, <1>2, <1>3, <1>4 DEF Shape

(* A payload has been accepted and recorded, in the place of nothing or of *)
(* the old payload of the same id.                                         *)
LEMMA RecordShape ==
    ASSUME Shape, Initialised, Grown(heap, heap'), verdict = "running",
           NEW id \in Ids, NEW p, Pointer(p), NEW n \in Sizes,
           NEW rs, rs = {RL!Range(blocks[i].ptr, blocks[i].size) : i \in Live \ {id}},
           RL!Accepted(rs, heap'.brk, RL!Range(p, n)),
           ranges' = RL!add_range(rs, RL!Range(p, n)), blocks' = Record(id, p, n),
           pending' = NoCall, verdict' = "running", evals' = evals
    PROVE  Shape'
<1>1. Ready(heap') /\ Typed(heap') /\ heap'.brk \in Nat /\ heap.brk \in Nat /\ heap'.brk >= heap.brk
  BY DEF Grown, Ready, Shape, Typed
<1>2. \A i \in Live : /\ Entry(blocks[i].ptr, blocks[i].size)
                      /\ blocks[i].ptr \in Nat /\ blocks[i].size \in Sizes
                      /\ blocks[i].size \in Nat /\ blocks[i].size > 0
  BY SizeType DEF Shape, Entry, Pointer
<1>3. p \in Nat
  BY DEF Pointer
<1>4. rs \subseteq [lo : Nat, hi : Nat]
  BY <1>2, RangeIs
<1>5. p % 8 = 0 /\ p + n <= heap'.brk /\ \A r \in rs : r.lo <= r.hi => r.lo # p
  BY <1>1, <1>3, <1>4, AcceptedIs
<1>6. \A i \in Live \ {id} : blocks[i].ptr # p
  <2> SUFFICES ASSUME NEW i \in Live \ {id} PROVE blocks[i].ptr # p
    OBVIOUS
  <2> DEFINE r == RL!Range(blocks[i].ptr, blocks[i].size)
  <2>1. r \in rs /\ r.lo = blocks[i].ptr /\ r.hi = blocks[i].ptr + blocks[i].size - 1
    BY <1>2, RangeIs
  <2> HIDE DEF r
  <2> QED BY <1>2, <1>5, <2>1
<1>7. /\ Live' = Live \union {id}
      /\ blocks'[id].ptr = p /\ blocks'[id].size = n
      /\ \A i \in Live \ {id} : blocks'[i] = blocks[i]
  <2>1. Live' = DOMAIN blocks'
    BY DEF Live
  <2>2. Entered(blocks, blocks', id, p, n)
    BY RecordIs
  <2> QED BY <2>1, <2>2 DEF Entered, Live
<1>8. Live' \subseteq Ids /\ IsFiniteSet(Live')
  BY <1>7, FS_AddElement DEF Shape
<1>9. \A i \in Live' : Entry(blocks[i].ptr, blocks[i].size)'
  <2> SUFFICES ASSUME NEW i \in Live' PROVE Entry(blocks[i].ptr, blocks[i].size)'
    OBVIOUS
  <2>1. CASE i = id
    BY <1>5, <1>7, <2>1 DEF Entry
  <2>2. CASE i # id
    BY <1>1, <1>2, <1>7, <2>2 DEF Entry
  <2> QED BY <2>1, <2>2
<1>10. \A i, j \in Live' : blocks'[i].ptr = blocks'[j].ptr => i = j
  BY <1>6, <1>7 DEF Shape
<1>11. ranges' = Mirror'
  <2>1. ranges' = rs \union {RL!Range(p, n)}
    BY DEF RL!add_range
  <2>2. Mirror' = {RL!Range(blocks'[i].ptr, blocks'[i].size) : i \in Live \union {id}}
    BY <1>7 DEF Mirror
  <2>3. \A i \in Live \ {id} : RL!Range(blocks'[i].ptr, blocks'[i].size)
                                 = RL!Range(blocks[i].ptr, blocks[i].size)
    BY <1>7
  <2>4. RL!Range(blocks'[id].ptr, blocks'[id].size) = RL!Range(p, n)
    BY <1>7
  <2> HIDE DEF RL!Range
  <2> QED BY <2>1, <2>2, <2>3, <2>4
<1>12. ranges' \subseteq [lo : Nat, hi : Nat]
  <2>1. RL!Range(p, n) \in [lo : Nat, hi : Nat]
    BY <1>3, RangeIs
  <2> QED BY <1>4, <2>1 DEF RL!add_range
<1>13. evals' \in 0..MaxEvals /\ Initialised' /\ verdict' \in Verdicts /\ pending' \in Calls
  BY DEF Shape, Initialised, Verdicts, Calls
<1> QED BY <1>1, <1>8, <1>9, <1>10, <1>11, <1>12, <1>13 DEF Shape

LEMMA RunningReady ==
    ASSUME Shape, verdict = "running"
    PROVE  /\ Initialised /\ Ready(heap) /\ Typed(heap) /\ heap.brk \in Nat
           /\ Grown(heap, heap) /\ ranges = Mirror
<1>1. Initialised /\ Ready(heap) /\ ranges = Mirror
  BY DEF Shape
<1> QED BY <1>1 DEF Ready, Typed, Grown

(* memset changes words only.                                              *)
LEMMA FilledGrown ==
    ASSUME NEW h, NEW g, Grown(h, g), NEW p \in Nat, NEW n \in Sizes, NEW id \in Ids
    PROVE  /\ Grown(h, [g EXCEPT !.mem = Filled(@, p, n, id)])
           /\ [g EXCEPT !.mem = Filled(@, p, n, id)].brk = g.brk
<1>1. Typed(g) /\ Ready(g) /\ n \in Nat
  BY SizeType DEF Grown, Ready
<1>2. /\ Filled(g.mem, p, n, id) \in Arena
      /\ [g EXCEPT !.mem = Filled(@, p, n, id)] = With(g, Filled(g.mem, p, n, id))
  <2>1. Filled(g.mem, p, n, id) \in Arena
    BY <1>1, FilledIs
  <2>2. [g EXCEPT !.mem = Filled(@, p, n, id)] = With(g, Filled(g.mem, p, n, id))
    BY <1>1 DEF With, Typed
  <2> QED BY <2>1, <2>2
<1>3. /\ Ready(With(g, Filled(g.mem, p, n, id)))
      /\ With(g, Filled(g.mem, p, n, id)).brk = g.brk
      /\ With(g, Filled(g.mem, p, n, id)).lossless = g.lossless
  BY <1>1, <1>2, WithType
<1> QED BY <1>2, <1>3 DEF Grown

LEMMA AllocShape ==
    ASSUME Shape, NEW id \in Ids, NEW size \in Sizes, Alloc(id, size)
    PROVE  Shape'
<1> DEFINE r  == mm_malloc(heap, size)
           rg == RL!Range(r.ret, size)
<1>1. verdict = "running" /\ pending = NoCall /\ pending' = NoCall /\ evals' = evals /\ id \notin Live
  BY DEF Alloc, Running
<1>2. Initialised /\ Ready(heap) /\ ranges = Mirror
  BY <1>1, RunningReady
<1>3. Grown(heap, r.heap) /\ (r.ret \in {NULL, Wild} \/ Pointer(r.ret))
  BY <1>2, SizeType, MallocType
<1>4. \/ CallFailed(r, "mm_malloc failed") /\ UNCHANGED <<blocks, ranges>>
      \/ /\ r.ret \notin {NULL, Wild} /\ verdict' = "bad range" /\ heap' = r.heap
         /\ UNCHANGED <<blocks, ranges>>
      \/ /\ r.ret \notin {NULL, Wild} /\ RL!Accepted(ranges, r.heap.brk, rg)
         /\ ranges' = RL!add_range(ranges, rg)
         /\ heap' = [r.heap EXCEPT !.mem = Filled(@, r.ret, size, id)]
         /\ blocks' = Record(id, r.ret, size) /\ verdict' = verdict
  BY DEF Alloc
<1> HIDE DEF r
<1>5. CASE CallFailed(r, "mm_malloc failed") /\ UNCHANGED <<blocks, ranges>>
  <2>1. heap' = r.heap /\ verdict' \in {"undefined", "mm_malloc failed"}
    BY <1>5 DEF CallFailed
  <2> QED BY <1>1, <1>2, <1>3, <1>5, <2>1, HeapOnlyShape DEF Verdicts
<1>6. CASE verdict' = "bad range" /\ heap' = r.heap /\ UNCHANGED <<blocks, ranges>>
  BY <1>1, <1>2, <1>3, <1>6, HeapOnlyShape DEF Verdicts
<1>7. CASE /\ r.ret \notin {NULL, Wild} /\ RL!Accepted(ranges, r.heap.brk, rg)
           /\ ranges' = RL!add_range(ranges, rg)
           /\ heap' = [r.heap EXCEPT !.mem = Filled(@, r.ret, size, id)]
           /\ blocks' = Record(id, r.ret, size) /\ verdict' = verdict
  <2>1. Pointer(r.ret) /\ r.ret \in Nat
    BY <1>3, <1>7 DEF Pointer
  <2>2. Grown(heap, heap') /\ heap'.brk = r.heap.brk
    BY <1>3, <1>7, <2>1, FilledGrown
  <2>3. ranges = {RL!Range(blocks[i].ptr, blocks[i].size) : i \in Live \ {id}}
    BY <1>1, <1>2 DEF Mirror
  <2>4. RL!Accepted(ranges, heap'.brk, rg)
    BY <1>7, <2>2
  <2> QED BY <1>1, <1>2, <1>7, <2>1, <2>2, <2>3, <2>4, RecordShape
<1> QED BY <1>4, <1>5, <1>6, <1>7

LEMMA ReallocAllocShape ==
    ASSUME Shape, NEW id \in Ids, NEW size \in Sizes, ReallocAlloc(id, size)
    PROVE  Shape'
<1>1. verdict = "running" /\ UNCHANGED <<blocks, ranges, evals>> /\ id \in Live
  BY DEF ReallocAlloc, Running
<1>2. Initialised /\ Ready(heap) /\ Pointer(blocks[id].ptr) /\ blocks[id].ptr % 8 = 0
  BY <1>1, RunningReady DEF Shape, Entry
<1>3. PICK r \in ReallocCopies(heap, blocks[id].ptr, size) :
          \/ /\ CallFailed(r, "mm_realloc failed")
             /\ UNCHANGED pending
          \/ /\ r.ret \notin {NULL, Wild}
             /\ pending' = [id |-> id, ptr |-> r.ret, size |-> size]
             /\ heap' = r.heap
             /\ UNCHANGED verdict
  BY DEF ReallocAlloc
<1>4. Grown(heap, r.heap) /\ (r.ret \in {NULL, Wild} \/ Pointer(r.ret))
  BY <1>2, SizeType, ReallocType
<1>5. CASE CallFailed(r, "mm_realloc failed") /\ UNCHANGED pending
  <2>1. heap' = r.heap /\ verdict' \in {"undefined", "mm_realloc failed"}
    BY <1>5 DEF CallFailed
  <2>2. pending' = NoCall
    BY <1>5 DEF ReallocAlloc, Running
  <2> QED BY <1>1, <1>2, <1>4, <2>1, <2>2, HeapOnlyShape DEF Verdicts
<1>6. CASE /\ r.ret \notin {NULL, Wild}
           /\ pending' = [id |-> id, ptr |-> r.ret, size |-> size]
           /\ heap' = r.heap /\ UNCHANGED verdict
  <2>1. Pointer(r.ret) /\ r.ret \in Nat
    BY <1>4, <1>6 DEF Pointer
  <2>2. pending' \in Calls /\ pending'.id \in Live /\ Pointer(pending'.ptr)
    BY <1>1, <1>6, <2>1 DEF Calls
  <2> QED BY <1>1, <1>2, <1>4, <1>6, <2>2, HeapOnlyShape DEF Verdicts
<1> QED BY <1>3, <1>5, <1>6

(* Without one entry.                                                      *)
LEMMA RestIs ==
    ASSUME Shape, verdict = "running", NEW id \in Live
    PROVE  RL!remove_range(ranges, blocks[id].ptr)
              = {RL!Range(blocks[i].ptr, blocks[i].size) : i \in Live \ {id}}
<1>1. ranges = Mirror
  BY RunningReady
<1>2. \A i \in Live : RL!Range(blocks[i].ptr, blocks[i].size).lo = blocks[i].ptr
  BY DEF RL!Range
<1>3. \A i \in Live : blocks[i].ptr = blocks[id].ptr <=> i = id
  BY DEF Shape
<1> QED BY <1>1, <1>2, <1>3 DEF RL!remove_range, Mirror

LEMMA ReallocFreeShape ==
    ASSUME Shape, ReallocFree
    PROVE  Shape'
<1> DEFINE id   == pending.id
           newp == pending.ptr
           size == pending.size
           new  == RL!Range(newp, size)
           r    == mm_free(heap, blocks[id].ptr)
           rest == RL!remove_range(ranges, blocks[id].ptr)
<1>1. pending # NoCall /\ pending' = NoCall /\ evals' = evals
  BY DEF ReallocFree
<1>2. /\ verdict = "running" /\ id \in Live /\ id \in Ids /\ size \in Sizes
      /\ Pointer(newp) /\ newp \in Nat /\ Pointer(blocks[id].ptr)
  BY <1>1 DEF Shape, Entry, Pointer
<1>3. Initialised /\ Ready(heap) /\ Typed(heap) /\ heap.brk \in Nat /\ ranges = Mirror
      /\ Grown(heap, heap)
  BY <1>2, RunningReady
<1>4. SameShape(heap, r.heap)
  BY <1>2, <1>3, FreeType
<1>5. \/ verdict' = "undefined" /\ UNCHANGED <<heap, ranges, blocks>>
      \/ verdict' = "bad range" /\ heap' = r.heap /\ ranges' = rest /\ UNCHANGED blocks
      \/ /\ RL!Accepted(rest, r.heap.brk, new)
         /\ verdict' = "data lost" /\ heap' = r.heap /\ ranges' = RL!add_range(rest, new)
         /\ UNCHANGED blocks
      \/ /\ RL!Accepted(rest, r.heap.brk, new)
         /\ heap' = [r.heap EXCEPT !.mem = Filled(@, newp, size, id)]
         /\ ranges' = RL!add_range(rest, new)
         /\ blocks' = Record(id, newp, size)
         /\ UNCHANGED verdict
  BY DEF ReallocFree
<1> HIDE DEF r, id, newp, size, rest
<1>6. Ready(r.heap) /\ r.heap.brk = heap.brk /\ Grown(heap, r.heap)
  BY <1>3, <1>4, ShapeType DEF Grown
<1>7. rest = {RL!Range(blocks[i].ptr, blocks[i].size) : i \in Live \ {id}}
  BY <1>2, RestIs DEF rest
<1>8. rest \subseteq ranges
  BY <1>3, <1>7 DEF Mirror
<1>9. CASE verdict' = "undefined" /\ UNCHANGED <<heap, ranges, blocks>>
  <2>1. Grown(heap, heap')
    BY <1>3, <1>9
  <2> QED BY <1>1, <1>3, <1>9, <2>1, HeapOnlyShape DEF Verdicts
(* Nothing is asked of the range list of an evaluation that has ended.     *)
<1>10. ASSUME verdict' \in {"bad range", "data lost"}, heap' = r.heap,
              ranges' \subseteq [lo : Nat, hi : Nat], UNCHANGED blocks
       PROVE  Shape'
  <2>1. Ready(heap') /\ Typed(heap') /\ heap'.brk = heap.brk
    BY <1>6, <1>10 DEF Ready
  <2>2. Live' = Live /\ Initialised' /\ evals' \in 0..MaxEvals
    BY <1>1, <1>3, <1>10 DEF Live, Initialised, Shape
  <2>3. \A i \in Live : Entry(blocks[i].ptr, blocks[i].size)'
    BY <1>10, <2>1 DEF Shape, Entry
  <2>4. verdict' \in Verdicts /\ verdict' # "running" /\ pending' \in Calls
    BY <1>1, <1>10 DEF Verdicts, Calls
  <2> QED BY <1>1, <1>10, <2>1, <2>2, <2>3, <2>4 DEF Shape
<1>11. rest \subseteq [lo : Nat, hi : Nat] /\ RL!add_range(rest, new) \subseteq [lo : Nat, hi : Nat]
  <2>1. new \in [lo : Nat, hi : Nat]
    BY <1>2, RangeIs
  <2> QED BY <1>8, <2>1 DEF RL!add_range, Shape
<1>12. CASE verdict' = "bad range" /\ heap' = r.heap /\ ranges' = rest /\ UNCHANGED blocks
  BY <1>10, <1>11, <1>12
<1>13. CASE verdict' = "data lost" /\ heap' = r.heap /\ ranges' = RL!add_range(rest, new)
            /\ UNCHANGED blocks
  BY <1>10, <1>11, <1>13
<1>14. CASE /\ RL!Accepted(rest, r.heap.brk, new)
            /\ heap' = [r.heap EXCEPT !.mem = Filled(@, newp, size, id)]
            /\ ranges' = RL!add_range(rest, new)
            /\ blocks' = Record(id, newp, size)
            /\ UNCHANGED verdict
  <2>1. Grown(heap, heap') /\ heap'.brk = r.heap.brk
    BY <1>2, <1>6, <1>14, FilledGrown
  <2>2. RL!Accepted(rest, heap'.brk, new)
    BY <1>14, <2>1
  <2> QED BY <1>1, <1>2, <1>3, <1>7, <1>14, <2>1, <2>2, RecordShape
<1> QED BY <1>5, <1>9, <1>12, <1>13, <1>14

LEMMA FreeShape ==
    ASSUME Shape, NEW id \in Ids, Free(id)
    PROVE  Shape'
<1> DEFINE r == mm_free(heap, blocks[id].ptr)
<1>1. /\ verdict = "running" /\ pending' = NoCall /\ evals' = evals /\ id \in Live
      /\ ranges' = RL!remove_range(ranges, blocks[id].ptr) /\ blocks' = Forget(id)
      /\ heap' = r.heap /\ verdict' \in {"undefined", "running"}
  BY DEF Free, Running
<1>2. Initialised /\ Ready(heap) /\ Typed(heap) /\ ranges = Mirror /\ Pointer(blocks[id].ptr)
  BY <1>1, RunningReady DEF Shape, Entry
<1>3. SameShape(heap, r.heap)
  BY <1>2, FreeType
<1> HIDE DEF r
<1>4. Ready(heap') /\ Typed(heap') /\ heap'.brk = heap.brk
  BY <1>1, <1>2, <1>3, ShapeType DEF Ready
<1>5. Live' = Live \ {id} /\ \A i \in Live \ {id} : blocks'[i] = blocks[i]
  BY <1>1, ForgetIs DEF Live
<1>6. Live' \subseteq Ids /\ IsFiniteSet(Live')
  BY <1>5, FS_Subset DEF Shape
<1>7. \A i \in Live' : Entry(blocks[i].ptr, blocks[i].size)'
  BY <1>4, <1>5 DEF Shape, Entry
<1>8. \A i, j \in Live' : blocks'[i].ptr = blocks'[j].ptr => i = j
  BY <1>5 DEF Shape
<1>9. ranges' = {RL!Range(blocks[i].ptr, blocks[i].size) : i \in Live \ {id}}
  BY <1>1, RestIs
<1>10. ranges' = Mirror'
  <2>1. Mirror' = {RL!Range(blocks'[i].ptr, blocks'[i].size) : i \in Live \ {id}}
    BY <1>5 DEF Mirror
  <2>2. \A i \in Live \ {id} : RL!Range(blocks'[i].ptr, blocks'[i].size)
                                 = RL!Range(blocks[i].ptr, blocks[i].size)
    BY <1>5
  <2> HIDE DEF RL!Range
  <2> QED BY <1>9, <2>1, <2>2
<1>11. ranges' \subseteq [lo : Nat, hi : Nat]
  <2>1. ranges' \subseteq ranges
    BY <1>2, <1>9 DEF Mirror
  <2> QED BY <2>1 DEF Shape
<1>12. evals' \in 0..MaxEvals /\ Initialised' /\ verdict' \in Verdicts /\ pending' \in Calls
  BY <1>1, <1>2 DEF Shape, Initialised, Verdicts, Calls
<1> QED BY <1>1, <1>4, <1>6, <1>7, <1>8, <1>10, <1>11, <1>12 DEF Shape

LEMMA StutterShape == Shape /\ UNCHANGED vars => Shape'
BY DEF Shape, vars, Initialised, Live, Entry, Mirror

LEMMA NextShape == Shape /\ [Next]_vars => Shape'
BY EvalStartShape, AllocShape, ReallocAllocShape, ReallocFreeShape, FreeShape,
      StutterShape
   DEF Next

LEMMA ShapeInvariant == Spec => []Shape
BY InitShape, NextShape, PTL DEF Spec

(* The state keeps its shape, whatever the traces ask for and however much *)
(* memory the extensions of mm_malloc lose: addresses are addresses, the   *)
(* break stays inside the arena, and a realloc between its two calls is of *)
(* a live id.                                                              *)
THEOREM TypeCorrect == Spec => []TypeOK
<1>1. Shape => TypeOK
  <2> SUFFICES ASSUME Shape PROVE TypeOK
    OBVIOUS
  <2>1. DOMAIN heap.mem = Words /\ (\A w \in Words : heap.mem[w] \in Nat) /\ heap.lossless \in BOOLEAN
    BY DEF Shape, Typed, Arena
  <2>2. heap.brk \in 0..MAX_HEAP
    BY WordsType DEF Shape, Typed, Ready
  <2>3. \A id \in Live : blocks[id].ptr \in Nat /\ blocks[id].size \in Sizes
    BY DEF Shape, Entry, Pointer
  <2>4. \A r \in ranges : r.lo \in Nat /\ r.hi \in Nat
    BY DEF Shape
  <2> QED BY <2>1, <2>2, <2>3, <2>4 DEF Shape, TypeOK, Verdicts
<1> QED BY <1>1, ShapeInvariant, PTL

(* The epilogue header, which extend_heap and mm_init write at the break   *)
(* and not below it, is always a word of the arena.                        *)
THEOREM EpilogueSafe == Spec => []EpilogueInArena
<1>1. Shape => EpilogueInArena
  BY DEF Shape, Ready, EpilogueInArena, WSIZE
<1> QED BY <1>1, ShapeInvariant, PTL

(* The range list of eval_mm_valid is exactly the payloads of the live ids,*)
(* through every malloc, realloc and free the driver has accepted.         *)
THEOREM RangesExact == Spec => []RangesMirrorBlocks
<1>1. Shape => RangesMirrorBlocks
  BY DEF Shape, RangesMirrorBlocks, Running, Mirror
<1> QED BY <1>1, ShapeInvariant, PTL

-----------------------------------------------------------------------------
(***************************************************************************)
(* A failed call.                                                          *)
(***************************************************************************)
LEMMA NoRoomIs ==
    ASSUME Shape, verdict = "running", NEW size \in Sizes, mm_malloc(heap, size).ret = NULL
    PROVE  NoRoom(size) /\ mm_malloc(heap, size).heap = heap
<1>1. Ready(heap) /\ heap.heap_start_pos = 16 /\ heap.mem \in Arena
  BY RunningReady DEF Ready, Typed
<1>2. /\ mm_malloc(heap, size).heap = heap
      /\ heap.brk + Larger(Adjust(size), CHUNKSIZE) > MAX_HEAP
      /\ \A b \in ListFrom(heap, 16) : HDRP(b) \in Words /\ ~Fits(heap.mem, Adjust(size), b)
  BY <1>1, SizeType, MallocType
<1>3. \A b \in List : IsAlloc(b) \/ Size(b) < Adjust(size)
  <2> SUFFICES ASSUME NEW b \in List PROVE IsAlloc(b) \/ Size(b) < Adjust(size)
    OBVIOUS
  <2>1. HDRP(b) \in Words /\ ~Fits(heap.mem, Adjust(size), b)
    BY <1>1, <1>2 DEF List
  <2>2. heap.mem[HDRP(b)] \in Nat
    BY <1>1, <2>1 DEF Arena
  <2>3. GET_SIZE(heap.mem[HDRP(b)]) \in Nat /\ GET_ALLOC(heap.mem[HDRP(b)]) \in {0, 1}
    BY <2>2, TagType
  <2>4. Adjust(size) \in Nat
    BY SizeType, AdjustType
  <2> QED BY <2>1, <2>3, <2>4 DEF Fits, IsAlloc, Size
<1> QED BY <1>2, <1>3 DEF NoRoom

LEMMA FailureStep ==
    ASSUME Shape, verdict' \in {"mm_malloc failed", "mm_realloc failed"},
           NEW id \in Ids, NEW size \in Sizes, Alloc(id, size) \/ ReallocAlloc(id, size)
    PROVE  NoRoom(size) /\ UNCHANGED heap
<1>1. verdict = "running" /\ Ready(heap)
  BY RunningReady DEF Alloc, ReallocAlloc, Running
<1>2. CASE Alloc(id, size)
  <2> DEFINE r == mm_malloc(heap, size)
  <2>1. /\ r.ret \in {NULL, Wild} /\ heap' = r.heap
        /\ verdict' = IF r.ret = Wild THEN "undefined" ELSE "mm_malloc failed"
    BY <1>1, <1>2 DEF Alloc, CallFailed
  <2> HIDE DEF r
  <2>2. r.ret = NULL
    BY <2>1
  <2> QED BY <1>1, <2>1, <2>2, NoRoomIs DEF r
<1>3. CASE ReallocAlloc(id, size)
  <2>1. id \in Live
    BY <1>3 DEF ReallocAlloc
  <2>2. PICK r \in ReallocCopies(heap, blocks[id].ptr, size) :
            \/ CallFailed(r, "mm_realloc failed")
            \/ UNCHANGED verdict
    BY <1>3 DEF ReallocAlloc
  <2>3. /\ r.ret \in {NULL, Wild} /\ heap' = r.heap
        /\ verdict' = IF r.ret = Wild THEN "undefined" ELSE "mm_realloc failed"
    BY <1>1, <2>2 DEF CallFailed
  <2>4. r.ret = NULL
    BY <2>3
  <2>5. r = mm_malloc(heap, size)
    <3>1. Pointer(blocks[id].ptr) /\ blocks[id].ptr % 8 = 0
      BY <2>1 DEF Shape, Entry
    <3> QED BY <1>1, <2>4, <3>1, SizeType, ReallocType
  <2> QED BY <1>1, <2>3, <2>4, <2>5, NoRoomIs
<1> QED BY <1>2, <1>3

(* mm_malloc and mm_realloc report failure only when no block of the list  *)
(* is free and large enough and the arena cannot be extended by what they  *)
(* would ask for; the heap is then exactly as it was before the call.  This*)
(* needs no well-formed list: it holds after lossy extensions too.         *)
THEOREM FailureHonest == Spec => FailsOnlyWhenFull
<1>1. Shape /\ [Next]_vars =>
         [verdict' # verdict /\ verdict' \in {"mm_malloc failed", "mm_realloc failed"} =>
             \A id \in Ids, size \in Sizes :
                 Alloc(id, size) \/ ReallocAlloc(id, size) => NoRoom(size) /\ UNCHANGED heap]_vars
  BY FailureStep
<1> QED BY <1>1, ShapeInvariant, PTL DEF Spec, FailsOnlyWhenFull

-----------------------------------------------------------------------------
(***************************************************************************)
(* The driver's calls on its range list are steps of module RangeList.     *)
(***************************************************************************)
LEMMA GrowStep ==
    ASSUME Ready(heap), Grown(heap, heap'), UNCHANGED ranges
    PROVE  RL!Next
<1>1. heap'.brk \in heap.brk..MAX_HEAP
  BY WordsType DEF Grown, Ready, Typed
<1> QED BY <1>1 DEF RL!Next, RL!Grow

LEMMA PointerIn == \A p : Pointer(p) => p \in RL!Pointers
BY PointerType, WordsType DEF RL!Pointers

LEMMA BreakIn ==
    ASSUME Ready(heap), NEW g, Grown(heap, g)
    PROVE  g.brk \in heap.brk..MAX_HEAP /\ g.brk \in RL!Addr
BY WordsType DEF Grown, Ready, Typed, RL!Addr

LEMMA AllocRange ==
    ASSUME Shape, NEW id \in Ids, NEW size \in Sizes, Alloc(id, size)
    PROVE  RL!Next
<1> DEFINE r  == mm_malloc(heap, size)
           rg == RL!Range(r.ret, size)
<1>1. Ready(heap)
  BY RunningReady DEF Alloc, Running
<1>2. Grown(heap, r.heap) /\ (r.ret \in {NULL, Wild} \/ Pointer(r.ret))
  BY <1>1, SizeType, MallocType
<1>3. \/ heap' = r.heap /\ UNCHANGED ranges
      \/ /\ r.ret \notin {NULL, Wild} /\ RL!Accepted(ranges, r.heap.brk, rg)
         /\ ranges' = RL!add_range(ranges, rg)
         /\ heap' = [r.heap EXCEPT !.mem = Filled(@, r.ret, size, id)]
  BY DEF Alloc, CallFailed
<1> HIDE DEF r
<1>4. CASE heap' = r.heap /\ UNCHANGED ranges
  BY <1>1, <1>2, <1>4, GrowStep
<1>5. CASE /\ r.ret \notin {NULL, Wild} /\ RL!Accepted(ranges, r.heap.brk, rg)
           /\ ranges' = RL!add_range(ranges, rg)
           /\ heap' = [r.heap EXCEPT !.mem = Filled(@, r.ret, size, id)]
  <2>1. Pointer(r.ret) /\ r.ret \in Nat /\ r.ret \in RL!Pointers
    BY <1>2, <1>5, PointerIn DEF Pointer
  <2>2. Grown(heap, heap') /\ heap'.brk = r.heap.brk
    BY <1>2, <1>5, <2>1, FilledGrown
  <2>3. heap'.brk \in heap.brk..MAX_HEAP
    BY <1>1, <2>2, BreakIn
  <2>4. RL!Add(rg)
    BY <1>5, <2>2, <2>3 DEF RL!Add
  <2> HIDE DEF RL!Add
  <2> QED BY <2>1, <2>4 DEF RL!Next
<1> QED BY <1>3, <1>4, <1>5

LEMMA ReallocAllocRange ==
    ASSUME Shape, NEW id \in Ids, NEW size \in Sizes, ReallocAlloc(id, size)
    PROVE  RL!Next
<1>1. Ready(heap) /\ Pointer(blocks[id].ptr) /\ blocks[id].ptr % 8 = 0 /\ UNCHANGED ranges
  BY RunningReady DEF ReallocAlloc, Running, Shape, Entry
<1>2. PICK r \in ReallocCopies(heap, blocks[id].ptr, size) : heap' = r.heap
  BY DEF ReallocAlloc, CallFailed
<1>3. Grown(heap, heap')
  BY <1>1, <1>2, SizeType, ReallocType
<1> QED BY <1>1, <1>3, GrowStep

LEMMA ReallocFreeRange ==
    ASSUME Shape, ReallocFree
    PROVE  RL!Next \/ UNCHANGED RL!rvars
<1> DEFINE id   == pending.id
           newp == pending.ptr
           size == pending.size
           new  == RL!Range(newp, size)
           r    == mm_free(heap, blocks[id].ptr)
           rest == RL!remove_range(ranges, blocks[id].ptr)
           old  == RL!Range(blocks[id].ptr, blocks[id].size)
<1>1. /\ verdict = "running" /\ id \in Live /\ id \in Ids /\ size \in Sizes
      /\ Pointer(newp) /\ newp \in Nat /\ Pointer(blocks[id].ptr)
  BY DEF ReallocFree, Shape, Entry, Pointer
<1>2. Ready(heap) /\ Typed(heap) /\ ranges = Mirror /\ Grown(heap, heap)
  BY <1>1, RunningReady
<1>3. SameShape(heap, r.heap)
  BY <1>1, <1>2, FreeType
<1>4. \/ UNCHANGED <<heap, ranges>>
      \/ ~RL!Accepted(rest, r.heap.brk, new) /\ heap' = r.heap /\ ranges' = rest
      \/ /\ RL!Accepted(rest, r.heap.brk, new)
         /\ heap' = r.heap \/ heap' = [r.heap EXCEPT !.mem = Filled(@, newp, size, id)]
         /\ ranges' = RL!add_range(rest, new)
  BY DEF ReallocFree
<1>5. old \in ranges /\ old.lo = blocks[id].ptr
  BY <1>1, <1>2 DEF Mirror, RL!Range
<1> HIDE DEF r, id, newp, size, old
<1>6. Grown(heap, r.heap) /\ r.heap.brk = heap.brk
  BY <1>2, <1>3, ShapeType DEF Grown
<1>7. CASE UNCHANGED <<heap, ranges>>
  BY <1>7 DEF RL!rvars
<1>8. CASE \/ ~RL!Accepted(rest, r.heap.brk, new) /\ heap' = r.heap /\ ranges' = rest
           \/ /\ RL!Accepted(rest, r.heap.brk, new)
              /\ heap' = r.heap \/ heap' = [r.heap EXCEPT !.mem = Filled(@, newp, size, id)]
              /\ ranges' = RL!add_range(rest, new)
  <2>1. Grown(heap, heap') /\ heap'.brk = r.heap.brk
    <3>1. CASE heap' = r.heap
      BY <1>6, <3>1
    <3>2. CASE heap' = [r.heap EXCEPT !.mem = Filled(@, newp, size, id)]
      BY <1>1, <1>6, <3>2, FilledGrown
    <3> QED BY <1>8, <3>1, <3>2
  <2>2. heap'.brk \in heap.brk..MAX_HEAP
    BY <1>2, <2>1, BreakIn
  <2>3. RL!Replace(old.lo, new)
    BY <1>5, <1>8, <2>1, <2>2 DEF RL!Replace
  <2>4. newp \in RL!Pointers
    BY <1>1, PointerIn
  <2> HIDE DEF RL!Replace
  <2> QED BY <1>1, <1>5, <2>3, <2>4 DEF RL!Next
<1> QED BY <1>4, <1>7, <1>8

LEMMA FreeRange ==
    ASSUME Shape, NEW id \in Ids, Free(id)
    PROVE  RL!Next
<1> DEFINE r == mm_free(heap, blocks[id].ptr)
           old == RL!Range(blocks[id].ptr, blocks[id].size)
<1>1. /\ verdict = "running" /\ id \in Live
      /\ ranges' = RL!remove_range(ranges, blocks[id].ptr) /\ heap' = r.heap
  BY DEF Free, Running
<1>2. Ready(heap) /\ Typed(heap) /\ ranges = Mirror /\ Pointer(blocks[id].ptr)
  BY <1>1, RunningReady DEF Shape, Entry
<1>3. SameShape(heap, r.heap)
  BY <1>2, FreeType
<1> HIDE DEF r
<1>4. heap'.brk = heap.brk
  BY <1>1, <1>2, <1>3, ShapeType
<1>5. old \in ranges /\ old.lo = blocks[id].ptr
  BY <1>1, <1>2 DEF Mirror, RL!Range
<1> HIDE DEF old
<1>6. RL!Remove(old.lo)
  BY <1>1, <1>4, <1>5 DEF RL!Remove
<1> QED BY <1>5, <1>6 DEF RL!Next

LEMMA EvalStartRange ==
    ASSUME Shape, EvalStart
    PROVE  RL!Next
<1>1. Ready(heap') /\ ranges' = {}
  <2> DEFINE r == mm_init(mem_reset_brk(heap))
  <2>1. Ready(r.heap)
    BY InitIs DEF Shape
  <2>2. heap' = r.heap /\ ranges' = {}
    BY DEF EvalStart
  <2> HIDE DEF r
  <2> QED BY <2>1, <2>2
<1>2. heap'.brk \in RL!Addr
  BY <1>1, WordsType DEF Ready, Typed, RL!Addr
<1> QED BY <1>1, <1>2 DEF RL!Next, RL!Clear

(* Seen through its range list the driver behaves as module RangeList      *)
(* allows: every accepted, refused, replaced or freed payload is a step of *)
(* it, whatever the allocator returns.                                     *)
THEOREM RangeListUsed == Spec => UsesRangeList
<1>1. Init => RL!Init
  BY WordsType DEF Init, RL!Init, mem_init, RL!Addr
<1>2. Shape /\ [Next]_vars => [RL!Next]_(RL!rvars)
  <2>1. Shape /\ UNCHANGED vars => UNCHANGED RL!rvars
    BY DEF vars, RL!rvars
  <2> HIDE DEF RL!Next, RL!rvars
  <2> QED BY <2>1, EvalStartRange, AllocRange, ReallocAllocRange, ReallocFreeRange,
        FreeRange
             DEF Next
<1> QED BY <1>1, <1>2, ShapeInvariant, PTL DEF Spec, UsesRangeList, RL!Spec

-----------------------------------------------------------------------------
(***************************************************************************)
(* While no memory is lost: the heap is the blocks z of which those of A   *)
(* are in use, no two free ones touch, and, unless the evaluation ended in *)
(* a way that leaves the driver's table behind, A is what the driver holds.*)
(***************************************************************************)
Ptrs    == {blocks[id].ptr : id \in Live}
Holding == Ptrs \union (IF pending = NoCall THEN {} ELSE {pending.ptr})

Holds(z, p, n) == n + 8 <= z[p] /\ z[p] < Adjust(n) + 16

(* What mm_realloc has copied so far is the old data.                      *)
PendingKept ==
    \A w \in PayloadWords(pending.ptr, Smaller(pending.size, blocks[pending.id].size)) :
        heap.mem[w] = Fill(pending.id)

Owned(z, A) ==
    /\ A = Holding
    /\ \A id \in Live : Holds(z, blocks[id].ptr, blocks[id].size)
    /\ pending # NoCall => /\ Holds(z, pending.ptr, pending.size) /\ pending.ptr \notin Ptrs
                           /\ PendingKept

Ended == verdict \in {"undefined", "data lost"}

Sound(z, A) == Good(heap, z, A) /\ Apart(z, A) /\ (~Ended => Owned(z, A))

LEMMA KeepPayload ==
    ASSUME NEW m, NEW m2, NEW z, NEW e, Chain(z, e), NEW B, B \subseteq Blk(z),
           Keep(m, m2, z, B), NEW p \in B, NEW n \in Nat, n + 8 <= z[p]
    PROVE  \A w \in PayloadWords(p, n) : m2[w] = m[w]
<1>1. p \in Nat /\ z[p] \in Nat
  BY ChainType
<1>2. \A w \in PayloadWords(p, n) : w \in Words /\ w \in Nat /\ p <= w /\ w < p + n
  BY WordsType DEF PayloadWords
<1>3. \A w \in PayloadWords(p, n) : w < p + z[p] - 8
  BY <1>1, <1>2
<1> QED BY <1>2, <1>3 DEF Keep

(* add_range accepts a payload in a block of its own.                      *)
LEMMA AcceptedWhen ==
    ASSUME NEW z, NEW brk \in Nat, Chain(z, brk + 4), NEW p \in Blk(z), NEW n \in Sizes,
           n + 8 <= z[p], NEW L, L \subseteq Live,
           \A i \in L : /\ blocks[i].ptr \in Blk(z) /\ blocks[i].ptr # p /\ blocks[i].size \in Sizes
                        /\ blocks[i].size + 8 <= z[blocks[i].ptr]
    PROVE  RL!Accepted({RL!Range(blocks[i].ptr, blocks[i].size) : i \in L}, brk, RL!Range(p, n))
<1> DEFINE new == RL!Range(p, n)
<1>1. /\ p \in Nat /\ p % 8 = 0 /\ z[p] \in Nat /\ p + z[p] <= brk + 4 /\ n \in Nat /\ n > 0
  BY ChainType, SizeType
<1>2. new.lo = p /\ new.hi = p + n - 1
  BY <1>1, RangeIs
<1>3. ASSUME NEW i \in L
      PROVE  ~RL!Overlaps(new, RL!Range(blocks[i].ptr, blocks[i].size))
  <2> DEFINE q == blocks[i].ptr
             k == blocks[i].size
             r == RL!Range(q, k)
  <2>0. q \in Blk(z) /\ q # p /\ k \in Sizes /\ k + 8 <= z[q]
    BY <1>3
  <2> HIDE DEF q, k
  <2>1. q \in Nat /\ z[q] \in Nat /\ k \in Nat /\ k > 0
    BY <2>0, ChainType, SizeType
  <2>2. r.lo = q /\ r.hi = q + k - 1
    BY <2>0, <2>1, RangeIs
  <2>3. (q < p => q + z[q] <= p) /\ (p < q => p + z[p] <= q)
    BY <2>0 DEF Chain
  <2> HIDE DEF new, r
  <2>4. ~RL!Overlaps(new, r)
    BY <1>1, <1>2, <2>0, <2>1, <2>2, <2>3 DEF RL!Overlaps
  <2> QED BY <2>4 DEF r, q, k
<1>4. new.lo % 8 = 0 /\ new.lo >= 0 /\ new.lo <= brk - 1 /\ new.hi >= 0 /\ new.hi <= brk - 1
  BY <1>1, <1>2
<1> HIDE DEF new
<1> QED BY <1>3, <1>4 DEF RL!Accepted, new

(* What mm_malloc gives the driver.                                        *)
Took(z, A, z2, q, size) ==
    /\ Placing(z, A, heap.brk + 4, Adjust(size), z2, q.heap.brk + 4, q.ret)
    /\ Good(q.heap, z2, A \union {q.ret}) /\ Apart(z2, A \union {q.ret})
    /\ Keep(heap.mem, q.heap.mem, z, A)
    /\ q.ret \notin A /\ q.ret \in Nat /\ q.ret >= 24 /\ q.ret \in Blk(z2) /\ A \subseteq Blk(z2)
    /\ \A c \in A : z2[c] = z[c]
    /\ Holds(z2, q.ret, size) /\ Chain(z2, q.heap.brk + 4)

LEMMA TookIs ==
    ASSUME NEW z, NEW A, Good(heap, z, A), Apart(z, A), NEW size \in Sizes,
           NEW q, q = mm_malloc(heap, size), q.ret # NULL, q.heap.lossless
    PROVE  \E z2 : Took(z, A, z2, q, size)
<1>1. size \in Nat /\ size > 0
  BY SizeType
<1>2. PICK z2 : /\ Placing(z, A, heap.brk + 4, Adjust(size), z2, q.heap.brk + 4, q.ret)
                /\ Good(q.heap, z2, A \union {q.ret}) /\ Keep(heap.mem, q.heap.mem, z, A)
  <2>1. mm_malloc(heap, size).ret # NULL /\ mm_malloc(heap, size).heap.lossless
    OBVIOUS
  <2> QED BY <1>1, <2>1, MallocIs
<1> DEFINE asize == Adjust(size)
           e == heap.brk + 4
           e2 == q.heap.brk + 4
           p == q.ret
<1>3. asize \in Nat /\ asize % 8 = 0 /\ asize >= 16 /\ asize >= size + 8
  BY <1>1, AdjustType
<1>4. Chain(z, e) /\ A \subseteq Blk(z) /\ Placing(z, A, e, asize, z2, e2, p)
  BY <1>2 DEF Good
<1> HIDE DEF asize, e, e2, p
<1>5. /\ p \notin A /\ p \in Blk(z2) /\ A \subseteq Blk(z2)
      /\ p \in Nat /\ p >= 24
      /\ \A c \in A : z2[c] = z[c]
      /\ asize <= z2[p] /\ z2[p] < asize + 16
      /\ Chain(z2, e2)
      /\ Apart(z2, A \union {p})
  BY <1>3, <1>4, PlacingType
<1>6. z2[p] \in Nat
  BY <1>5, ChainType
<1>7. Holds(z2, p, size)
  BY <1>1, <1>3, <1>5, <1>6 DEF Holds, asize
<1>8. Took(z, A, z2, q, size)
  BY <1>2, <1>5, <1>7 DEF Took, asize, e, e2, p
<1> QED BY <1>8

(* The payload of id is what the driver wrote.                             *)
KeptIn(m, id, p, n) == \A w \in PayloadWords(p, n) : m[w] = Fill(id)

LEMMA StillKept ==
    ASSUME NEW m, NEW m2, NEW z, NEW e, Chain(z, e), NEW B, B \subseteq Blk(z),
           Keep(m, m2, z, B), NEW p \in B, NEW n \in Nat, n + 8 <= z[p],
           NEW i, KeptIn(m, i, p, n)
    PROVE  KeptIn(m2, i, p, n)
<1>1. \A w \in PayloadWords(p, n) : m2[w] = m[w]
  BY KeepPayload
<1> QED BY <1>1 DEF KeptIn

(* A call of the allocator as a step from one set of blocks to another:    *)
(* nothing, a block comes into use, a block is given back.                 *)
TakeStep(z, A, z2) ==
    \E p \in Nat, n \in Sizes :
        /\ Placing(z, A, heap.brk + 4, Adjust(n), z2, heap'.brk + 4, p)
        /\ p \notin A /\ Owners' = Owners \union {<<p, n>>}

GiveStep(z, A, z2) ==
    \E p \in A, n \in Sizes : \E ret \in Nat :
        /\ Coalescing(z, A \ {p}, p, z2, ret) /\ heap'.brk = heap.brk
        /\ <<p, n>> \in Owners /\ Owners' = Owners \ {<<p, n>>}

Step(z, A, z2) ==
    \/ z2 = z /\ Owners' = Owners /\ heap'.brk = heap.brk
    \/ TakeStep(z, A, z2)
    \/ GiveStep(z, A, z2)

Advance(z, A) == \E z2, A2 : Sound(z2, A2)' /\ (~Ended' => Step(z, A, z2))

LEMMA OwnedIs ==
    ASSUME Shape, verdict = "running", NEW z, NEW A, Sound(z, A)
    PROVE  /\ Owned(z, A) /\ Good(heap, z, A) /\ Apart(z, A) /\ A = Holding
           /\ Chain(z, heap.brk + 4) /\ A \subseteq Blk(z)
           /\ \A i \in Live : /\ blocks[i].ptr \in A /\ blocks[i].ptr \in Nat
                              /\ blocks[i].size \in Sizes /\ blocks[i].size \in Nat
                              /\ blocks[i].size + 8 <= z[blocks[i].ptr]
                              /\ Holds(z, blocks[i].ptr, blocks[i].size)
<1>1. Owned(z, A) /\ Good(heap, z, A) /\ Apart(z, A)
  BY DEF Sound, Ended
<1>2. A = Holding /\ Ptrs \subseteq A
  BY <1>1 DEF Owned, Holding
<1>3. Chain(z, heap.brk + 4) /\ A \subseteq Blk(z)
  BY <1>1 DEF Good
<1>4. \A i \in Live : /\ blocks[i].ptr \in A /\ blocks[i].ptr \in Nat
                      /\ blocks[i].size \in Sizes /\ Holds(z, blocks[i].ptr, blocks[i].size)
  BY <1>1, <1>2 DEF Owned, Ptrs, Shape, Entry, Pointer
<1>5. \A i \in Live : blocks[i].size \in Nat /\ blocks[i].size + 8 <= z[blocks[i].ptr]
  BY <1>4, SizeType DEF Holds
<1> QED BY <1>1, <1>2, <1>3, <1>4, <1>5

(* Nothing has changed but the verdict.                                    *)
LEMMA SameSound ==
    ASSUME Shape, verdict = "running", NEW z, NEW A, Sound(z, A), DataKept,
           UNCHANGED <<heap, blocks, pending>>
    PROVE  Advance(z, A) /\ DataKept'
<1>1. Sound(z, A)'
  <2>1. Good(heap, z, A) /\ Apart(z, A) /\ Owned(z, A)
    BY OwnedIs
  <2>2. Owned(z, A)'
    BY <2>1 DEF Owned, Holding, Ptrs, Live, PendingKept
  <2> QED BY <2>1, <2>2 DEF Sound
<1>2. Step(z, A, z)
  BY DEF Step, Owners, Live
<1>3. DataKept'
  BY DEF DataKept, Live
<1> QED BY <1>1, <1>2, <1>3 DEF Advance

LEMMA AllocSound ==
    ASSUME Shape, NEW id \in Ids, NEW size \in Sizes, Alloc(id, size), heap'.lossless,
           NEW z, NEW A, Sound(z, A), DataKept
    PROVE  Advance(z, A) /\ DataKept' /\ verdict' \notin {"bad range", "data lost"}
<1>1. PICK q : q = mm_malloc(heap, size)
  OBVIOUS
<1>2. /\ verdict = "running" /\ pending = NoCall /\ pending' = NoCall /\ id \notin Live
      /\ \/ CallFailed(q, "mm_malloc failed") /\ UNCHANGED <<blocks, ranges>>
         \/ /\ q.ret \notin {NULL, Wild}
            /\ ~RL!Accepted(ranges, q.heap.brk, RL!Range(q.ret, size))
            /\ verdict' = "bad range" /\ heap' = q.heap
         \/ /\ q.ret \notin {NULL, Wild}
            /\ heap' = [q.heap EXCEPT !.mem = Filled(@, q.ret, size, id)]
            /\ blocks' = Record(id, q.ret, size) /\ verdict' = verdict
  BY <1>1 DEF Alloc, Running
<1>3. Initialised /\ Ready(heap) /\ ranges = Mirror /\ size \in Nat /\ size > 0
  BY <1>2, RunningReady, SizeType
<1>4. /\ Grown(heap, q.heap) /\ Ready(q.heap) /\ Typed(q.heap) /\ q.heap.mem \in Arena
      /\ q.ret = NULL => q.heap = heap
  BY <1>1, <1>3, MallocType DEF Grown, Ready, Typed
<1>5. heap'.lossless = q.heap.lossless
  <2>1. heap' = q.heap \/ heap' = [q.heap EXCEPT !.mem = Filled(@, q.ret, size, id)]
    BY <1>2 DEF CallFailed
  <2> QED BY <1>4, <2>1 DEF Typed
<1>6. CASE q.ret = NULL
  <2>1. CallFailed(q, "mm_malloc failed") /\ UNCHANGED blocks /\ q.heap = heap
    BY <1>2, <1>4, <1>6
  <2>2. heap' = heap /\ verdict' = "mm_malloc failed"
    <3>1. /\ heap' = q.heap
          /\ verdict' = IF q.ret = Wild THEN "undefined" ELSE "mm_malloc failed"
      BY <2>1 DEF CallFailed
    <3>2. q.ret # Wild
      BY <1>6 DEF NULL, Wild
    <3> QED BY <2>1, <3>1, <3>2
  <2>3. UNCHANGED <<heap, blocks, pending>>
    BY <1>2, <2>1, <2>2
  <2> QED BY <1>2, <2>2, <2>3, SameSound
<1>7. CASE q.ret # NULL
  <2> DEFINE p == q.ret
             A2 == A \union {p}
  <2>1. /\ Owned(z, A) /\ Good(heap, z, A) /\ Apart(z, A) /\ A = Holding
        /\ Chain(z, heap.brk + 4) /\ A \subseteq Blk(z)
        /\ \A i \in Live : /\ blocks[i].ptr \in A /\ blocks[i].ptr \in Nat
                           /\ blocks[i].size \in Sizes /\ blocks[i].size \in Nat
                           /\ blocks[i].size + 8 <= z[blocks[i].ptr]
                           /\ Holds(z, blocks[i].ptr, blocks[i].size)
    BY <1>2, OwnedIs
  <2>2. PICK z2 : Took(z, A, z2, q, size)
    BY <1>1, <1>5, <1>7, <2>1, TookIs
  <2>3. /\ Placing(z, A, heap.brk + 4, Adjust(size), z2, q.heap.brk + 4, p)
        /\ Good(q.heap, z2, A2) /\ Apart(z2, A2) /\ Keep(heap.mem, q.heap.mem, z, A)
        /\ p \notin A /\ p \in Nat /\ p >= 24 /\ p \in Blk(z2) /\ A \subseteq Blk(z2)
        /\ \A c \in A : z2[c] = z[c]
        /\ Holds(z2, p, size) /\ Chain(z2, q.heap.brk + 4)
    BY <2>2 DEF Took
  <2>4. p # Wild /\ size + 8 <= z2[p] /\ q.heap.brk \in Nat
    BY <1>4, <2>3 DEF Wild, Holds, Typed
  <2> HIDE DEF p, A2
  <2>5. RL!Accepted(ranges, q.heap.brk, RL!Range(p, size))
    <3>1. \A i \in Live : /\ blocks[i].ptr \in Blk(z2) /\ blocks[i].ptr # p
                          /\ blocks[i].size \in Sizes
                          /\ blocks[i].size + 8 <= z2[blocks[i].ptr]
      BY <2>1, <2>3
    <3>2. RL!Accepted({RL!Range(blocks[i].ptr, blocks[i].size) : i \in Live}, q.heap.brk,
                      RL!Range(p, size))
      BY <2>3, <2>4, <3>1, AcceptedWhen
    <3> QED BY <1>3, <3>2 DEF Mirror
  <2> DEFINE m == Filled(q.heap.mem, p, size, id)
  <2>6. /\ heap' = [q.heap EXCEPT !.mem = Filled(@, p, size, id)]
        /\ blocks' = Record(id, p, size) /\ verdict' = "running"
    BY <1>2, <1>7, <2>4, <2>5 DEF p, CallFailed
  <2>7. /\ heap' = With(q.heap, m) /\ m \in Arena /\ KeptIn(m, id, p, size)
        /\ \A w \in Words \ PayloadWords(p, size) : m[w] = q.heap.mem[w]
    BY <1>3, <1>4, <2>3, <2>6, FilledIs DEF KeptIn
  <2> HIDE DEF m
  <2>8. heap'.mem = m /\ heap'.brk = q.heap.brk
    BY <1>4, <2>7, WithType
  <2>9. Good(heap', z2, A2) /\ Keep(q.heap.mem, m, z2, Blk(z2) \ {p})
    <3>1. \A w \in Words : ~Inside(z2, p, w) => m[w] = q.heap.mem[w]
      <4>1. z2[p] \in Nat
        BY <2>3, ChainType
      <4>2. \A w \in Words : ~Inside(z2, p, w) => w \notin PayloadWords(p, size)
        BY <1>3, <2>3, <2>4, <4>1, WordsType DEF Inside, PayloadWords
      <4> QED BY <2>7, <4>2
    <3> QED BY <2>3, <2>7, <3>1, PayloadWrite
  <2>10. Live' = Live \union {id} /\ blocks'[id] = [ptr |-> p, size |-> size]
         /\ \A i \in Live : blocks'[i] = blocks[i]
    <3>1. Entered(blocks, blocks', id, p, size)
      BY <2>6, RecordIs
    <3> QED BY <1>2, <3>1 DEF Entered, Live
  <2>11. \A i \in Live : KeptIn(m, i, blocks[i].ptr, blocks[i].size)
    <3> SUFFICES ASSUME NEW i \in Live PROVE KeptIn(m, i, blocks[i].ptr, blocks[i].size)
      OBVIOUS
    <3> DEFINE b == blocks[i].ptr
               k == blocks[i].size
    <3>1. KeptIn(heap.mem, i, b, k)
      BY <1>4, <1>5 DEF DataKept, KeptIn, Grown
    <3>2. b \in A /\ k \in Nat /\ k + 8 <= z[b] /\ k + 8 <= z2[b] /\ b \in Blk(z2) \ {p}
      BY <2>1, <2>3
    <3> HIDE DEF b, k
    <3>3. KeptIn(q.heap.mem, i, b, k)
      BY <2>1, <2>3, <3>1, <3>2, StillKept
    <3>4. Blk(z2) \ {p} \subseteq Blk(z2)
      OBVIOUS
    <3>5. KeptIn(m, i, b, k)
      BY <2>3, <2>9, <3>2, <3>3, <3>4, StillKept
    <3> QED BY <3>5 DEF b, k
  <2>12. DataKept'
    <3>1. \A i \in Live' : KeptIn(heap'.mem, i, blocks'[i].ptr, blocks'[i].size)
      BY <2>7, <2>8, <2>10, <2>11
    <3> QED BY <3>1 DEF DataKept, KeptIn
  <2>13. Owned(z2, A2)'
    <3>1. Ptrs' = Ptrs \union {p}
      BY <2>10 DEF Ptrs
    <3>2. A2 = Holding'
      BY <1>2, <2>1, <3>1 DEF Holding, A2
    <3>3. \A i \in Live' : Holds(z2, blocks'[i].ptr, blocks'[i].size)
      BY <2>1, <2>3, <2>10 DEF Holds
    <3> QED BY <1>2, <3>2, <3>3 DEF Owned
  <2>14. Sound(z2, A2)'
    BY <2>3, <2>9, <2>13 DEF Sound
  <2>15. Owners' = Owners \union {<<p, size>>}
    <3>1. {<<blocks'[i].ptr, blocks'[i].size>> : i \in Live'}
             = {<<blocks[i].ptr, blocks[i].size>> : i \in Live} \union {<<p, size>>}
      <4>1. <<blocks'[id].ptr, blocks'[id].size>> = <<p, size>>
        BY <2>10
      <4>2. \A i \in Live : <<blocks'[i].ptr, blocks'[i].size>> = <<blocks[i].ptr, blocks[i].size>>
        BY <2>10
      <4> QED BY <2>10, <4>1, <4>2
    <3> QED BY <1>2, <3>1 DEF Owners
  <2>16. TakeStep(z, A, z2)
    BY <2>3, <2>8, <2>15 DEF TakeStep, p
  <2> QED BY <2>6, <2>12, <2>14, <2>16 DEF Advance, Step
<1> QED BY <1>6, <1>7

(* What the copy brings into the new payload.                              *)
LEMMA CopyKept ==
    ASSUME NEW m, NEW m2, NEW old \in Nat, NEW k \in Nat, NEW p \in Nat, NEW n \in Nat, NEW i,
           old % 4 = 0, p % 4 = 0, old + k <= MAX_HEAP,
           KeptIn(m, i, old, k),
           \A w \in Words : p <= w /\ w < p + n /\ w - p < k => m2[w] = m[old + (w - p)]
    PROVE  KeptIn(m2, i, p, Smaller(n, k))
<1> SUFFICES ASSUME NEW w \in PayloadWords(p, Smaller(n, k)) PROVE m2[w] = Fill(i)
  BY DEF KeptIn
<1>1. w \in Words /\ w \in Nat /\ w % 4 = 0 /\ p <= w /\ w < p + n /\ w - p < k
  BY WordsType DEF PayloadWords, Smaller
<1>2. old + (w - p) \in Nat /\ (old + (w - p)) % 4 = 0 /\ old + (w - p) < MAX_HEAP
      /\ old <= old + (w - p) /\ old + (w - p) < old + k
  BY <1>1, WordsType
<1>3. old + (w - p) \in PayloadWords(old, k)
  BY <1>2, WordsType DEF PayloadWords
<1> QED BY <1>1, <1>3 DEF KeptIn

LEMMA ReallocAllocSound ==
    ASSUME Shape, NEW id \in Ids, NEW size \in Sizes, ReallocAlloc(id, size), heap'.lossless,
           NEW z, NEW A, Sound(z, A), DataKept
    PROVE  Advance(z, A) /\ DataKept' /\ verdict' \notin {"bad range", "data lost"}
<1> DEFINE old == blocks[id].ptr
           k   == blocks[id].size
<1>1. PICK q : q = mm_malloc(heap, size)
  OBVIOUS
<1>2. /\ verdict = "running" /\ pending = NoCall /\ id \in Live /\ blocks' = blocks
  BY DEF ReallocAlloc, Running
<1>3. PICK r \in ReallocCopies(heap, old, size) :
          \/ CallFailed(r, "mm_realloc failed") /\ pending' = pending
          \/ /\ r.ret \notin {NULL, Wild}
             /\ pending' = [id |-> id, ptr |-> r.ret, size |-> size]
             /\ heap' = r.heap /\ verdict' = verdict
  BY DEF ReallocAlloc
<1>4. /\ Initialised /\ Ready(heap) /\ size \in Nat /\ size > 0
      /\ Pointer(old) /\ old % 8 = 0
  BY <1>2, RunningReady, SizeType DEF Shape, Entry
<1>5. heap' = r.heap
  BY <1>3 DEF CallFailed
<1>6. /\ Grown(heap, q.heap) /\ Ready(q.heap) /\ Typed(q.heap) /\ q.heap.mem \in Arena
      /\ q.ret = NULL => q.heap = heap
  BY <1>1, <1>4, MallocType DEF Grown, Ready, Typed
<1>7. \/ r = q /\ r.ret \in {NULL, Wild}
      \/ \E n : Copied(heap, old, size, n, r)
  BY <1>1, <1>4, ReallocIs
<1>8. /\ Owned(z, A) /\ Good(heap, z, A) /\ Apart(z, A) /\ A = Holding
      /\ Chain(z, heap.brk + 4) /\ A \subseteq Blk(z)
      /\ \A i \in Live : /\ blocks[i].ptr \in A /\ blocks[i].ptr \in Nat
                         /\ blocks[i].size \in Sizes /\ blocks[i].size \in Nat
                         /\ blocks[i].size + 8 <= z[blocks[i].ptr]
                         /\ Holds(z, blocks[i].ptr, blocks[i].size)
  BY <1>2, OwnedIs
<1>9. CASE r = q /\ r.ret = NULL
  <2>1. heap' = heap /\ verdict' = "mm_realloc failed" /\ pending' = pending
    <3>1. CallFailed(r, "mm_realloc failed") /\ pending' = pending
      BY <1>3, <1>9
    <3>2. r.ret # Wild
      BY <1>9 DEF NULL, Wild
    <3>3. verdict' = IF r.ret = Wild THEN "undefined" ELSE "mm_realloc failed"
      BY <3>1 DEF CallFailed
    <3>4. heap' = heap
      BY <1>5, <1>6, <1>9
    <3> QED BY <3>1, <3>2, <3>3, <3>4
  <2>2. UNCHANGED <<heap, blocks, pending>>
    BY <1>2, <2>1
  <2> QED BY <1>2, <2>1, <2>2, SameSound
<1>10. ASSUME q.ret # NULL, q.heap.lossless
       PROVE  q.ret # Wild /\ \E z2 : Took(z, A, z2, q, size)
  <2>1. PICK z2 : Took(z, A, z2, q, size)
    BY <1>1, <1>8, <1>10, TookIs
  <2>2. q.ret # Wild
    BY <2>1 DEF Took, Wild
  <2> QED BY <2>1, <2>2
<1>11. CASE r = q /\ r.ret = Wild
  <2>1. q.ret = Wild /\ q.ret # NULL /\ q.heap.lossless
    BY <1>5, <1>11 DEF NULL, Wild
  <2> QED BY <1>10, <2>1
<1>12. CASE \E n : Copied(heap, old, size, n, r)
  <2>1. PICK n : Copied(heap, old, size, n, r)
    BY <1>12
  <2>2. /\ q.ret \notin {NULL, Wild}
        /\ n \in Nat /\ n <= size /\ (q.heap.mem[HDRP(old)] > 0 => n = size)
        /\ \/ old + n > MAX_HEAP /\ r = Result(q.heap, Wild)
           \/ /\ old + n <= MAX_HEAP
              /\ \E m \in memcpy(q.heap.mem, q.ret, old, n) :
                    m \in Arena /\ r = Result(With(q.heap, m), q.ret)
    BY <1>1, <2>1 DEF Copied
  <2>3. q.heap.lossless
    <3>1. \A m \in Arena : With(q.heap, m).lossless = q.heap.lossless
      BY <1>6, WithType
    <3>2. r.heap = q.heap \/ \E m \in Arena : r.heap = With(q.heap, m)
      BY <2>2, ResultIs
    <3> QED BY <1>5, <3>1, <3>2
  <2> DEFINE p == q.ret
             A2 == A \union {p}
  <2>4. PICK z2 : Took(z, A, z2, q, size)
    BY <1>10, <2>2, <2>3
  <2>5. /\ Placing(z, A, heap.brk + 4, Adjust(size), z2, q.heap.brk + 4, p)
        /\ Good(q.heap, z2, A2) /\ Apart(z2, A2) /\ Keep(heap.mem, q.heap.mem, z, A)
        /\ p \notin A /\ p \in Nat /\ p >= 24 /\ p \in Blk(z2) /\ A \subseteq Blk(z2)
        /\ \A c \in A : z2[c] = z[c]
        /\ Holds(z2, p, size) /\ Chain(z2, q.heap.brk + 4)
    BY <2>4 DEF Took
  <2>6. /\ p % 4 = 0 /\ size + 8 <= z2[p] /\ old \in A /\ old \in Blk(z2) /\ old # p
        /\ k \in Nat /\ k + 8 <= z2[old] /\ old \in Nat /\ old % 4 = 0 /\ old + k <= MAX_HEAP
    <3>1. p % 8 = 0
      BY <2>5, ChainType
    <3>2. old \in A /\ old \in Blk(z2) /\ old # p /\ k \in Nat /\ k + 8 <= z2[old]
      BY <1>2, <1>8, <2>5
    <3>3. old + z2[old] <= MAX_HEAP /\ z2[old] \in Nat /\ old \in Nat
      <4> DEFINE e == q.heap.brk + 4
      <4>1. Chain(z2, e)
        BY <2>5
      <4> HIDE DEF e, old
      <4> QED BY <3>2, <4>1, ChainType
    <3> HIDE DEF old, k, p
    <3>4. old % 4 = 0 /\ p % 4 = 0
      BY <1>4, <2>5, <3>1, <3>3
    <3>5. old + k <= MAX_HEAP
      BY <3>2, <3>3, WordsType
    <3> QED BY <2>5, <3>2, <3>3, <3>4, <3>5 DEF Holds
  <2> HIDE DEF p, A2, old, k
  <2>7. n = size
    <3>1. HDRP(old) = old - 4
      BY DEF HDRP, WSIZE
    <3>2. q.heap.mem[old - 4] = Tag(z2, A2, old)
      BY <2>5, <2>6 DEF Good, Tagged
    <3>3. Tag(z2, A2, old) > 0
      BY <2>5, <2>6, TagIs
    <3> QED BY <2>2, <3>1, <3>2, <3>3
  <2>8. /\ KeptIn(q.heap.mem, id, old, k)
        /\ \A i \in Live : KeptIn(q.heap.mem, i, blocks[i].ptr, blocks[i].size)
    <3>1. \A i \in Live : KeptIn(heap.mem, i, blocks[i].ptr, blocks[i].size)
      BY <1>6, <2>3 DEF DataKept, KeptIn, Grown
    <3>2. ASSUME NEW i \in Live PROVE KeptIn(q.heap.mem, i, blocks[i].ptr, blocks[i].size)
      <4> DEFINE b == blocks[i].ptr
                 j == blocks[i].size
      <4>1. KeptIn(heap.mem, i, b, j) /\ b \in A /\ j \in Nat /\ j + 8 <= z[b]
        BY <1>8, <3>1
      <4> HIDE DEF b, j
      <4>2. KeptIn(q.heap.mem, i, b, j)
        BY <1>8, <2>5, <4>1, StillKept
      <4> QED BY <4>2 DEF b, j
    <3> QED BY <1>2, <3>2 DEF old, k
  <2>9. CASE old + n > MAX_HEAP /\ r = Result(q.heap, Wild)
    <3>1. r.heap = q.heap /\ r.ret = Wild
      BY <2>9, ResultIs
    <3>2. heap' = q.heap /\ verdict' = "undefined"
      BY <1>3, <1>5, <3>1 DEF CallFailed
    <3>3. DataKept'
      BY <1>2, <2>8, <3>2 DEF DataKept, KeptIn, Live
    <3>4. Sound(z2, A2)' /\ Ended'
      BY <2>5, <3>2 DEF Sound, Ended
    <3> QED BY <3>2, <3>3, <3>4 DEF Advance
  <2>10. CASE /\ old + n <= MAX_HEAP
              /\ \E m \in memcpy(q.heap.mem, q.ret, old, n) :
                    m \in Arena /\ r = Result(With(q.heap, m), q.ret)
    <3>1. PICK m \in memcpy(q.heap.mem, p, old, size) : m \in Arena /\ r = Result(With(q.heap, m), p)
      BY <2>7, <2>10 DEF p
    <3>2. r.heap = With(q.heap, m) /\ r.ret = p
      BY <3>1, ResultIs
    <3>3. /\ Good(With(q.heap, m), z2, A2) /\ Keep(q.heap.mem, m, z2, Blk(z2) \ {p})
          /\ \A w \in Words : p <= w /\ w < p + size /\ w - p < z2[old] - 8 =>
                m[w] = q.heap.mem[old + (w - p)]
      <4>1. old + size <= MAX_HEAP
        BY <2>7, <2>10
      <4>2. /\ Good(q.heap, z2, A2) /\ p \in Blk(z2) /\ old \in Blk(z2) /\ old # p
            /\ size \in Nat /\ size + 8 <= z2[p] /\ m \in memcpy(q.heap.mem, p, old, size)
        BY <1>4, <2>5, <2>6, <3>1
      <4> DEFINE g == q.heap
      <4>3. /\ Good(g, z2, A2) /\ m \in memcpy(g.mem, p, old, size)
        BY <4>2
      <4> HIDE DEF g
      <4>4. Good(With(g, m), z2, A2)
        BY <4>1, <4>2, <4>3, CopyIs, Zenon
      <4>5. Keep(g.mem, m, z2, Blk(z2) \ {p})
        BY <4>1, <4>2, <4>3, CopyIs, Zenon
      <4>6. Arrived(g.mem, m, old, p, size, z2[old] - 8)
        BY <4>1, <4>2, <4>3, CopyIs, Zenon
      <4> QED BY <4>4, <4>5, <4>6 DEF g, Arrived
    <3>4. /\ pending' = [id |-> id, ptr |-> p, size |-> size]
          /\ heap' = With(q.heap, m) /\ verdict' = "running"
      BY <1>2, <1>3, <1>5, <2>2, <3>2 DEF CallFailed, p
    <3>5. heap'.mem = m /\ heap'.brk = q.heap.brk /\ Good(heap', z2, A2)
      BY <1>6, <3>1, <3>3, <3>4, WithType
    <3>6. \A i \in Live : KeptIn(m, i, blocks[i].ptr, blocks[i].size)
      <4> SUFFICES ASSUME NEW i \in Live PROVE KeptIn(m, i, blocks[i].ptr, blocks[i].size)
        OBVIOUS
      <4> DEFINE b == blocks[i].ptr
                 j == blocks[i].size
      <4>1. KeptIn(q.heap.mem, i, b, j) /\ j \in Nat /\ j + 8 <= z2[b] /\ b \in Blk(z2) \ {p}
        BY <1>8, <2>5, <2>8
      <4>2. Blk(z2) \ {p} \subseteq Blk(z2)
        OBVIOUS
      <4> HIDE DEF b, j
      <4>3. KeptIn(m, i, b, j)
        BY <2>5, <3>3, <4>1, <4>2, StillKept
      <4> QED BY <4>3 DEF b, j
    <3>7. KeptIn(m, id, p, Smaller(size, k))
      <4>1. \A w \in Words : p <= w /\ w < p + size /\ w - p < k => m[w] = q.heap.mem[old + (w - p)]
        <5>1. \A w \in Words : w \in Nat
          BY WordsType
        <5>2. z2[old] \in Nat
          BY <2>5, <2>6, ChainType
        <5> QED BY <2>5, <2>6, <3>3, <5>1, <5>2
      <4>2. /\ old \in Nat /\ k \in Nat /\ p \in Nat /\ size \in Nat
            /\ old % 4 = 0 /\ p % 4 = 0 /\ old + k <= MAX_HEAP
            /\ KeptIn(q.heap.mem, id, old, k)
        BY <1>4, <2>5, <2>6, <2>8
      <4> DEFINE m0 == q.heap.mem
      <4>3. /\ \A w \in Words : p <= w /\ w < p + size /\ w - p < k => m[w] = m0[old + (w - p)]
            /\ KeptIn(m0, id, old, k)
        BY <4>1, <4>2
      <4> HIDE DEF m0
      <4> QED BY ONLY <4>2, <4>3, CopyKept
    <3>8. DataKept'
      BY <1>2, <3>5, <3>6 DEF DataKept, KeptIn, Live
    <3>9. /\ pending'.id = id /\ pending'.ptr = p /\ pending'.size = size /\ pending' # NoCall
          /\ Live' = Live /\ Ptrs' = Ptrs
      <4>1. pending' # NoCall
        <5>1. id # -1
          BY TraceAssumption
        <5> QED BY <3>4, <5>1 DEF NoCall
      <4> QED BY <1>2, <3>4, <4>1 DEF Live, Ptrs
    <3>10. Owned(z2, A2)'
      <4>1. Ptrs = A
        BY <1>2, <1>8 DEF Holding
      <4>2. A2 = Holding' /\ p \notin Ptrs'
        BY <2>5, <3>9, <4>1 DEF Holding, A2
      <4>3. \A i \in Live' : Holds(z2, blocks'[i].ptr, blocks'[i].size)
        BY <1>2, <1>8, <2>5, <3>9 DEF Holds
      <4>4. PendingKept'
        BY <1>2, <3>5, <3>7, <3>9 DEF PendingKept, KeptIn, k
      <4> QED BY <2>5, <3>9, <4>2, <4>3, <4>4 DEF Owned
    <3>11. Sound(z2, A2)'
      BY <2>5, <3>5, <3>10 DEF Sound
    <3>12. Owners' = Owners \union {<<p, size>>}
      BY <1>2, <3>9 DEF Owners
    <3>13. TakeStep(z, A, z2)
      BY <2>5, <3>5, <3>12 DEF TakeStep
    <3> QED BY <3>4, <3>8, <3>11, <3>13 DEF Advance, Step
  <2> QED BY <2>2, <2>9, <2>10
<1> QED BY <1>7, <1>9, <1>11, <1>12

(* What mm_free does to the heap of the driver.                            *)
Gave(z, B, p, z2, r) ==
    /\ Coalescing(z, B, p, z2, r.ret) /\ r.ret \in Nat /\ r.ret # Wild
    /\ Good(r.heap, z2, B) /\ Apart(z2, B) /\ Chain(z2, heap.brk + 4)
    /\ r.heap.brk = heap.brk /\ r.heap.lossless = heap.lossless /\ Typed(r.heap)
    /\ Keep(heap.mem, r.heap.mem, z, Blk(z))
    /\ B \subseteq Blk(z2) /\ \A c \in B : z2[c] = z[c]

LEMMA GaveIs ==
    ASSUME NEW z, NEW A, Good(heap, z, A), Apart(z, A), NEW p \in A,
           NEW r, r = mm_free(heap, p)
    PROVE  \E z2 : Gave(z, A \ {p}, p, z2, r)
<1> DEFINE B == A \ {p}
           e == heap.brk + 4
<1>1. Chain(z, e) /\ A \subseteq Blk(z) /\ Typed(heap)
  BY DEF Good, Ready
<1>2. PICK z2 : /\ Coalescing(z, B, p, z2, r.ret) /\ Good(r.heap, z2, B)
                /\ SameShape(heap, r.heap) /\ Keep(heap.mem, r.heap.mem, z, Blk(z))
  <2> DEFINE q == mm_free(heap, p)
  <2>1. \E z2 : /\ Coalescing(z, A \ {p}, p, z2, q.ret) /\ Good(q.heap, z2, A \ {p})
                /\ SameShape(heap, q.heap) /\ Keep(heap.mem, q.heap.mem, z, Blk(z))
    BY FreeIs
  <2>2. q = r
    OBVIOUS
  <2> HIDE DEF q
  <2> QED BY <2>1, <2>2
<1>3. r.heap.brk = heap.brk /\ r.heap.lossless = heap.lossless /\ Typed(r.heap)
  BY <1>1, <1>2, ShapeType
<1>4. B \subseteq Blk(z) /\ p \in Blk(z) \ B /\ B \union {p} = A /\ Apart(z, B \union {p})
  BY <1>1
<1> HIDE DEF B, e
<1> DEFINE ret == r.ret
<1>5. Coalescing(z, B, p, z2, ret)
  BY <1>2
<1> HIDE DEF ret
<1>6. /\ Chain(z2, e) /\ B \subseteq Blk(z2) /\ ret \in Blk(z2) \ B /\ Others(z, z2, p, ret)
  BY <1>1, <1>4, <1>5, CoalescingChain
<1>7. Apart(z2, B)
  BY <1>1, <1>4, <1>5, CoalescingApart
<1>8. \A c \in B : z2[c] = z[c]
  BY <1>6 DEF Others
<1>9. ret \in Nat /\ ret # Wild
  BY <1>6, ChainType DEF Wild
<1>10. Gave(z, B, p, z2, r)
  BY <1>2, <1>3, <1>6, <1>7, <1>8, <1>9 DEF Gave, ret, e
<1> QED BY <1>10 DEF B

LEMMA FreeSound ==
    ASSUME Shape, NEW id \in Ids, Free(id), heap'.lossless,
           NEW z, NEW A, Sound(z, A), DataKept
    PROVE  Advance(z, A) /\ DataKept' /\ verdict' \notin {"bad range", "data lost"}
<1>0. PICK old, k, B, r : /\ old = blocks[id].ptr /\ k = blocks[id].size
                          /\ B = A \ {old} /\ r = mm_free(heap, old)
  OBVIOUS
<1>1. old = blocks[id].ptr /\ k = blocks[id].size /\ B = A \ {old} /\ r = mm_free(heap, old)
  BY <1>0
<1>2. /\ verdict = "running" /\ pending = NoCall /\ pending' = NoCall /\ id \in Live
      /\ heap' = r.heap /\ verdict' = IF r.ret = Wild THEN "undefined" ELSE verdict
      /\ blocks' = Forget(id)
  BY <1>1 DEF Free, Running
<1>3. /\ Owned(z, A) /\ Good(heap, z, A) /\ Apart(z, A) /\ A = Holding
      /\ Chain(z, heap.brk + 4) /\ A \subseteq Blk(z)
      /\ \A i \in Live : /\ blocks[i].ptr \in A /\ blocks[i].ptr \in Nat
                         /\ blocks[i].size \in Sizes /\ blocks[i].size \in Nat
                         /\ blocks[i].size + 8 <= z[blocks[i].ptr]
                         /\ Holds(z, blocks[i].ptr, blocks[i].size)
  BY <1>2, OwnedIs
<1>4. old \in A /\ old \in Nat /\ k \in Sizes
  BY <1>1, <1>2, <1>3
<1>5. PICK z2 : Gave(z, B, old, z2, r)
  BY <1>1, <1>3, <1>4, GaveIs
<1>6. /\ Coalescing(z, B, old, z2, r.ret) /\ r.ret \in Nat /\ r.ret # Wild
      /\ Good(r.heap, z2, B) /\ Apart(z2, B)
      /\ r.heap.brk = heap.brk /\ r.heap.lossless = heap.lossless
      /\ Keep(heap.mem, r.heap.mem, z, Blk(z))
      /\ B \subseteq Blk(z2) /\ \A c \in B : z2[c] = z[c]
  BY <1>5 DEF Gave
<1>7. verdict' = "running"
  BY <1>2, <1>6
<1>8. Live' = Live \ {id} /\ \A i \in Live' : blocks'[i] = blocks[i]
  BY <1>2, ForgetIs DEF Live
<1>9. \A i \in Live' : blocks[i].ptr # old
  BY <1>1, <1>2, <1>8 DEF Shape
<1>10. DataKept'
  <2>1. ASSUME NEW i \in Live' PROVE KeptIn(heap'.mem, i, blocks'[i].ptr, blocks'[i].size)
    <3> DEFINE b == blocks[i].ptr
               j == blocks[i].size
    <3>1. KeptIn(heap.mem, i, b, j)
      BY <1>2, <1>6, <1>8 DEF DataKept, KeptIn
    <3>2. b \in Blk(z) /\ j \in Nat /\ j + 8 <= z[b] /\ Blk(z) \subseteq Blk(z)
      BY <1>3, <1>8
    <3>3. blocks'[i].ptr = b /\ blocks'[i].size = j
      BY <1>8
    <3> HIDE DEF b, j
    <3>4. KeptIn(r.heap.mem, i, b, j)
      BY <1>3, <1>6, <3>1, <3>2, StillKept
    <3> QED BY <1>2, <3>3, <3>4
  <2> QED BY <2>1 DEF DataKept, KeptIn
<1>11. Owned(z2, B)'
  <2>1. Ptrs' = Ptrs \ {old}
    BY <1>1, <1>8, <1>9 DEF Ptrs
  <2>2. B = Holding'
    BY <1>1, <1>2, <1>3, <2>1 DEF Holding
  <2>3. \A i \in Live' : Holds(z2, blocks'[i].ptr, blocks'[i].size)
    <3>1. \A i \in Live' : /\ blocks'[i] = blocks[i] /\ Holds(z, blocks[i].ptr, blocks[i].size)
                           /\ blocks[i].ptr \in B
      BY <1>1, <1>3, <1>8, <1>9
    <3> QED BY <1>6, <3>1 DEF Holds
  <2> QED BY <1>2, <2>2, <2>3 DEF Owned
<1>12. Sound(z2, B)'
  BY <1>2, <1>6, <1>11 DEF Sound
<1>13. <<old, k>> \in Owners /\ Owners' = Owners \ {<<old, k>>}
  <2>1. Owners = {<<blocks[i].ptr, blocks[i].size>> : i \in Live}
    BY <1>2 DEF Owners
  <2>2. Owners' = {<<blocks'[i].ptr, blocks'[i].size>> : i \in Live'}
    BY <1>2 DEF Owners
  <2>3. \A i \in Live' : <<blocks'[i].ptr, blocks'[i].size>> = <<blocks[i].ptr, blocks[i].size>>
                         /\ <<blocks[i].ptr, blocks[i].size>> # <<old, k>>
    BY <1>8, <1>9
  <2> QED BY <1>1, <1>2, <1>8, <2>1, <2>2, <2>3
<1>14. GiveStep(z, A, z2)
  BY <1>1, <1>2, <1>4, <1>6, <1>13 DEF GiveStep
<1> QED BY <1>7, <1>10, <1>12, <1>14 DEF Advance, Step

(* The comparison fails only for a byte that a char cannot hold.           *)
LEMMA ComparedIs ==
    ASSUME NEW m, NEW id \in Ids, NEW p, NEW size,
           KeptIn(m, id, p, Smaller(size, blocks[id].size)), ~Preserved(m, id, p, size)
    PROVE  LowByte(id) >= 128
<1>1. SignedChar(LowByte(id)) # LowByte(id)
  BY DEF Preserved, KeptIn
<1>2. LowByte(id) \in Nat
  BY FillType, TraceAssumption
<1> QED BY <1>1, <1>2 DEF SignedChar

LEMMA ReallocFreeSound ==
    ASSUME Shape, ReallocFree, heap'.lossless, NEW z, NEW A, Sound(z, A), DataKept
    PROVE  /\ Advance(z, A) /\ DataKept' /\ verdict' # "bad range"
           /\ verdict' = "data lost" => \E i \in Live' : LowByte(i) >= 128
<1>0. PICK id, p, size, old, k, B, r, rest :
          /\ id = pending.id /\ p = pending.ptr /\ size = pending.size
          /\ old = blocks[id].ptr /\ k = blocks[id].size /\ B = A \ {old}
          /\ r = mm_free(heap, old) /\ rest = RL!remove_range(ranges, old)
  OBVIOUS
<1>a. /\ id = pending.id /\ p = pending.ptr /\ size = pending.size
      /\ old = blocks[id].ptr /\ k = blocks[id].size /\ B = A \ {old}
  BY <1>0
<1> DEFINE new == RL!Range(p, size)
<1>b. r = mm_free(heap, old) /\ rest = RL!remove_range(ranges, old)
  BY <1>0
<1>1. /\ pending # NoCall /\ pending' = NoCall
      /\ \/ r.ret = Wild
         \/ ~RL!Accepted(rest, r.heap.brk, new)
         \/ /\ r.ret # Wild /\ RL!Accepted(rest, r.heap.brk, new)
            /\ ~Preserved(r.heap.mem, id, p, size)
            /\ verdict' = "data lost" /\ heap' = r.heap /\ blocks' = blocks
         \/ /\ r.ret # Wild /\ RL!Accepted(rest, r.heap.brk, new)
            /\ Preserved(r.heap.mem, id, p, size)
            /\ heap' = [r.heap EXCEPT !.mem = Filled(@, p, size, id)]
            /\ blocks' = Record(id, p, size) /\ verdict' = verdict
  BY <1>a, <1>b DEF ReallocFree
<1>2. /\ verdict = "running" /\ id \in Live /\ id \in Ids /\ size \in Sizes
      /\ p \in Nat /\ size \in Nat /\ size > 0
  BY <1>a, <1>1, SizeType DEF Shape, Pointer
<1>3. /\ Owned(z, A) /\ Good(heap, z, A) /\ Apart(z, A) /\ A = Holding
      /\ Chain(z, heap.brk + 4) /\ A \subseteq Blk(z)
      /\ \A i \in Live : /\ blocks[i].ptr \in A /\ blocks[i].ptr \in Nat
                         /\ blocks[i].size \in Sizes /\ blocks[i].size \in Nat
                         /\ blocks[i].size + 8 <= z[blocks[i].ptr]
                         /\ Holds(z, blocks[i].ptr, blocks[i].size)
  BY <1>2, OwnedIs
<1>4. /\ old \in A /\ old \in Nat /\ k \in Sizes /\ k \in Nat
      /\ p \in A /\ p # old /\ p \notin Ptrs /\ Holds(z, p, size)
      /\ KeptIn(heap.mem, id, p, Smaller(size, k))
  <2>1. old \in A /\ old \in Nat /\ k \in Sizes /\ k \in Nat /\ old \in Ptrs
    BY <1>a, <1>2, <1>3 DEF Ptrs
  <2>2. Holds(z, p, size) /\ p \notin Ptrs /\ PendingKept /\ p \in A
    BY <1>a, <1>1, <1>3 DEF Owned, Holding
  <2>3. KeptIn(heap.mem, id, p, Smaller(size, k))
    BY <1>a, <2>2 DEF PendingKept, KeptIn
  <2> QED BY <2>1, <2>2, <2>3
<1>5. PICK z2 : Gave(z, B, old, z2, r)
  BY <1>a, <1>b, <1>3, <1>4, GaveIs
<1>6. /\ Coalescing(z, B, old, z2, r.ret) /\ r.ret \in Nat /\ r.ret # Wild
      /\ Good(r.heap, z2, B) /\ Apart(z2, B) /\ Chain(z2, heap.brk + 4)
      /\ r.heap.brk = heap.brk /\ r.heap.lossless = heap.lossless /\ Typed(r.heap)
      /\ Keep(heap.mem, r.heap.mem, z, Blk(z))
      /\ B \subseteq Blk(z2) /\ \A c \in B : z2[c] = z[c]
  BY <1>5 DEF Gave
<1>7. p \in B /\ p \in Blk(z2) /\ p \in Blk(z) /\ size + 8 <= z[p] /\ size + 8 <= z2[p]
  BY <1>a, <1>3, <1>4, <1>6 DEF Holds
<1>8. RL!Accepted(rest, r.heap.brk, new)
  <2>1. rest = {RL!Range(blocks[i].ptr, blocks[i].size) : i \in Live \ {id}}
    BY <1>a, <1>b, <1>2, RestIs
  <2>2. \A i \in Live \ {id} : /\ blocks[i].ptr \in Blk(z) /\ blocks[i].ptr # p
                               /\ blocks[i].size \in Sizes
                               /\ blocks[i].size + 8 <= z[blocks[i].ptr]
    BY <1>3, <1>4 DEF Ptrs
  <2>3. heap.brk \in Nat /\ Live \ {id} \subseteq Live
    BY <1>2, RunningReady
  <2>4. RL!Accepted({RL!Range(blocks[i].ptr, blocks[i].size) : i \in Live \ {id}}, heap.brk, new)
    BY <1>2, <1>3, <1>7, <2>2, <2>3, AcceptedWhen
  <2> QED BY <1>6, <2>1, <2>4
<1> HIDE DEF new
<1>9. heap.lossless
  <2>1. heap' = r.heap \/ heap' = [r.heap EXCEPT !.mem = Filled(@, p, size, id)]
    BY <1>1, <1>6, <1>8
  <2> QED BY <1>6, <2>1 DEF Typed
<1>10. /\ \A i \in Live : KeptIn(r.heap.mem, i, blocks[i].ptr, blocks[i].size)
       /\ KeptIn(r.heap.mem, id, p, Smaller(size, k))
  <2>1. ASSUME NEW i, NEW b, NEW j \in Nat, KeptIn(heap.mem, i, b, j), b \in Blk(z), j + 8 <= z[b]
        PROVE  KeptIn(r.heap.mem, i, b, j)
    <3>1. Blk(z) \subseteq Blk(z)
      OBVIOUS
    <3> QED BY <1>3, <1>6, <2>1, <3>1, StillKept
  <2>2. \A i \in Live : KeptIn(heap.mem, i, blocks[i].ptr, blocks[i].size)
    BY <1>9 DEF DataKept, KeptIn
  <2>3. \A i \in Live : KeptIn(r.heap.mem, i, blocks[i].ptr, blocks[i].size)
    BY <1>3, <2>1, <2>2
  <2>4. Smaller(size, k) \in Nat /\ Smaller(size, k) + 8 <= z[p]
    <3>1. z[p] \in Nat
      BY <1>3, <1>7, ChainType
    <3> QED BY <1>2, <1>4, <1>7, <3>1 DEF Smaller
  <2>5. KeptIn(r.heap.mem, id, p, Smaller(size, k))
    BY <1>4, <1>7, <2>1, <2>4
  <2> QED BY <2>3, <2>5
<1>11. CASE /\ ~Preserved(r.heap.mem, id, p, size)
            /\ verdict' = "data lost" /\ heap' = r.heap /\ blocks' = blocks
  <2>1. DataKept'
    BY <1>10, <1>11 DEF DataKept, KeptIn, Live
  <2>2. LowByte(id) >= 128
    <3>1. KeptIn(r.heap.mem, id, p, Smaller(size, blocks[id].size))
      BY <1>a, <1>10
    <3> QED BY <1>2, <1>11, <3>1, ComparedIs
  <2>3. Live' = Live
    BY <1>11 DEF Live
  <2>4. Sound(z2, B)' /\ Ended'
    BY <1>6, <1>11 DEF Sound, Ended
  <2> QED BY <1>2, <1>11, <2>1, <2>2, <2>3, <2>4 DEF Advance
<1>12. CASE /\ heap' = [r.heap EXCEPT !.mem = Filled(@, p, size, id)]
            /\ blocks' = Record(id, p, size) /\ verdict' = verdict
  <2>1. PICK m : m = Filled(r.heap.mem, p, size, id)
    OBVIOUS
  <2>2. /\ heap' = With(r.heap, m) /\ m \in Arena /\ KeptIn(m, id, p, size)
        /\ \A w \in Words \ PayloadWords(p, size) : m[w] = r.heap.mem[w]
    BY <1>2, <1>6, <1>12, <2>1, FilledIs DEF KeptIn
  <2>3. heap'.mem = m /\ heap'.brk = r.heap.brk
    BY <1>6, <2>2, WithType
  <2>4. Good(heap', z2, B) /\ Keep(r.heap.mem, m, z2, Blk(z2) \ {p})
    <3>1. \A w \in Words : ~Inside(z2, p, w) => m[w] = r.heap.mem[w]
      <4>1. z2[p] \in Nat
        BY <1>6, <1>7, ChainType
      <4>2. \A w \in Words : ~Inside(z2, p, w) => w \notin PayloadWords(p, size)
        BY <1>2, <1>7, <4>1, WordsType DEF Inside, PayloadWords
      <4> QED BY <2>2, <4>2
    <3> QED BY <1>6, <1>7, <2>2, <3>1, PayloadWrite
  <2>5. Live' = Live /\ blocks'[id] = [ptr |-> p, size |-> size]
        /\ \A i \in Live \ {id} : blocks'[i] = blocks[i]
    <3>1. Entered(blocks, blocks', id, p, size)
      BY <1>12, RecordIs
    <3> QED BY <1>2, <3>1 DEF Entered, Live
  <2>6. \A i \in Live \ {id} : blocks[i].ptr \in B \ {p}
    BY <1>a, <1>2, <1>3, <1>4 DEF Shape, Ptrs
  <2>7. \A i \in Live \ {id} : KeptIn(m, i, blocks[i].ptr, blocks[i].size)
    <3> SUFFICES ASSUME NEW i \in Live \ {id} PROVE KeptIn(m, i, blocks[i].ptr, blocks[i].size)
      OBVIOUS
    <3> DEFINE b == blocks[i].ptr
               j == blocks[i].size
    <3>1. KeptIn(r.heap.mem, i, b, j)
      BY <1>10
    <3>2. j \in Nat /\ j + 8 <= z2[b] /\ b \in Blk(z2) \ {p}
      BY <1>3, <1>6, <2>6
    <3>3. Blk(z2) \ {p} \subseteq Blk(z2)
      OBVIOUS
    <3> HIDE DEF b, j
    <3>4. KeptIn(m, i, b, j)
      BY <1>6, <2>4, <3>1, <3>2, <3>3, StillKept
    <3> QED BY <3>4 DEF b, j
  <2>8. DataKept'
    <3>1. \A i \in Live' : KeptIn(heap'.mem, i, blocks'[i].ptr, blocks'[i].size)
      BY <2>2, <2>3, <2>5, <2>7
    <3> QED BY <3>1 DEF DataKept, KeptIn
  <2>9. Owned(z2, B)'
    <3>1. Ptrs' = (Ptrs \ {old}) \union {p}
      BY <1>a, <1>2, <2>5 DEF Ptrs, Shape
    <3>2. Holding = Ptrs \union {p} /\ Holding' = Ptrs'
      BY <1>a, <1>1 DEF Holding
    <3>3. B = Holding'
      BY <1>a, <1>3, <1>4, <3>1, <3>2
    <3>4. \A i \in Live' : Holds(z2, blocks'[i].ptr, blocks'[i].size)
      <4>1. \A i \in Live \ {id} : Holds(z2, blocks[i].ptr, blocks[i].size)
        BY <1>3, <1>6, <2>6 DEF Holds
      <4>2. Holds(z2, p, size)
        BY <1>4, <1>6, <1>7 DEF Holds
      <4> QED BY <2>5, <4>1, <4>2
    <3> QED BY <1>1, <3>3, <3>4 DEF Owned
  <2>10. Sound(z2, B)'
    BY <1>6, <2>4, <2>9 DEF Sound
  <2>11. <<old, k>> \in Owners /\ Owners' = Owners \ {<<old, k>>}
    <3>1. Owners = {<<blocks[i].ptr, blocks[i].size>> : i \in Live} \union {<<p, size>>}
      BY <1>a, <1>1 DEF Owners
    <3>2. Owners' = {<<blocks'[i].ptr, blocks'[i].size>> : i \in Live}
      BY <1>1, <2>5 DEF Owners
    <3>3. \A i \in Live \ {id} : <<blocks'[i].ptr, blocks'[i].size>> = <<blocks[i].ptr, blocks[i].size>>
                                 /\ <<blocks[i].ptr, blocks[i].size>> # <<old, k>>
      BY <1>a, <1>2, <2>5 DEF Shape
    <3>4. <<blocks'[id].ptr, blocks'[id].size>> = <<p, size>> /\ <<p, size>> # <<old, k>>
          /\ <<blocks[id].ptr, blocks[id].size>> = <<old, k>>
      BY <1>a, <1>4, <2>5
    <3> QED BY <1>2, <3>1, <3>2, <3>3, <3>4
  <2>12. GiveStep(z, A, z2)
    BY <1>a, <1>4, <1>6, <2>3, <2>11 DEF GiveStep
  <2> QED BY <1>2, <1>12, <2>8, <2>10, <2>12 DEF Advance, Step
<1> QED BY <1>1, <1>6, <1>8, <1>11, <1>12

LEMMA EvalStartSound ==
    ASSUME Shape, EvalStart
    PROVE  /\ DataKept' /\ verdict' \in {"running", "mm_init failed"} /\ Owners' = {}
           /\ \E n \in Nat : Sound(OneBlock(n), {})'
           /\ verdict' = "mm_init failed" => CHUNKSIZE + 24 > MAX_HEAP
           /\ verdict' = "running" => /\ Sound(OneBlock(CHUNKSIZE), {})'
                                      /\ heap'.brk = 20 + CHUNKSIZE
                                      /\ CHUNKSIZE + 24 <= MAX_HEAP
<1>1. PICK r : r = mm_init(mem_reset_brk(heap))
  OBVIOUS
<1>2. /\ heap' = r.heap /\ blocks' = <<>> /\ pending' = NoCall
      /\ verdict' = IF r.ret = Fail THEN "mm_init failed" ELSE "running"
  BY <1>1 DEF EvalStart
<1>3. \/ /\ r.ret = Fail /\ CHUNKSIZE + 20 > MAX_HEAP /\ r.heap.brk = 20
         /\ Good(r.heap, OneBlock(0), {}) /\ Apart(OneBlock(0), {})
      \/ /\ r.ret = 0 /\ CHUNKSIZE + 24 <= MAX_HEAP /\ r.heap.brk = 20 + CHUNKSIZE
         /\ Good(r.heap, OneBlock(CHUNKSIZE), {}) /\ Apart(OneBlock(CHUNKSIZE), {})
  <2> DEFINE q == mm_init(mem_reset_brk(heap))
  <2>1. \/ /\ q.ret = Fail /\ CHUNKSIZE + 20 > MAX_HEAP /\ q.heap.brk = 20
           /\ Good(q.heap, OneBlock(0), {}) /\ Apart(OneBlock(0), {})
        \/ /\ q.ret = 0 /\ CHUNKSIZE + 24 <= MAX_HEAP /\ q.heap.brk = 20 + CHUNKSIZE
           /\ Good(q.heap, OneBlock(CHUNKSIZE), {}) /\ Apart(OneBlock(CHUNKSIZE), {})
    BY InitIs DEF Shape
  <2>2. q = r
    BY <1>1
  <2> HIDE DEF q
  <2> QED BY <2>1, <2>2
<1>4. Live' = {}
  <2>1. blocks' = <<>>
    BY <1>2
  <2> QED BY <2>1 DEF Live
<1>5. DataKept' /\ Owners' = {} /\ \A z : Owned(z, {})'
  BY <1>2, <1>4 DEF DataKept, Owners, Owned, Holding, Ptrs
<1>6. CASE /\ r.ret = Fail /\ CHUNKSIZE + 20 > MAX_HEAP /\ r.heap.brk = 20
           /\ Good(r.heap, OneBlock(0), {}) /\ Apart(OneBlock(0), {})
  <2>1. Sound(OneBlock(0), {})'
    BY <1>2, <1>5, <1>6 DEF Sound
  <2>2. verdict' = "mm_init failed" /\ CHUNKSIZE + 24 > MAX_HEAP
    <3>1. verdict' = "mm_init failed"
      BY <1>2, <1>6
    <3>2. CHUNKSIZE \in Nat /\ MAX_HEAP \in Nat /\ CHUNKSIZE + 20 > MAX_HEAP
      BY <1>6, ChunkAssumption, ArenaAssumption
    <3>3. CHUNKSIZE + 24 > MAX_HEAP
      BY ONLY <3>2
    <3> QED BY <3>1, <3>3
  <2> QED BY <1>5, <2>1, <2>2
<1>7. CASE /\ r.ret = 0 /\ CHUNKSIZE + 24 <= MAX_HEAP /\ r.heap.brk = 20 + CHUNKSIZE
           /\ Good(r.heap, OneBlock(CHUNKSIZE), {}) /\ Apart(OneBlock(CHUNKSIZE), {})
  <2>1. Sound(OneBlock(CHUNKSIZE), {})'
    BY <1>2, <1>5, <1>7 DEF Sound
  <2>2. verdict' = "running" /\ CHUNKSIZE \in Nat
    BY <1>2, <1>7, ChunkAssumption DEF Fail
  <2> QED BY <1>2, <1>5, <1>7, <2>1, <2>2
<1> QED BY <1>3, <1>6, <1>7

(* No call gives back memory that an extension has lost.                   *)
LEMMA StaysLossless ==
    ASSUME Shape, heap'.lossless, NEW id \in Ids, NEW size \in Sizes,
           Alloc(id, size) \/ ReallocAlloc(id, size) \/ ReallocFree \/ Free(id)
    PROVE  heap.lossless /\ verdict = "running" /\ Initialised /\ Initialised'
<1>1. verdict = "running" /\ Initialised /\ Ready(heap) /\ Typed(heap)
  BY RunningReady DEF Alloc, ReallocAlloc, ReallocFree, Free, Running, Shape
<1>2. Initialised'
  <2>1. evals' = evals
    BY DEF Alloc, ReallocAlloc, ReallocFree, Free
  <2> QED BY <1>1, <2>1 DEF Initialised
<1>3. ASSUME NEW g, Typed(g), g.lossless => heap.lossless,
             heap' = g \/ \E m : heap' = [g EXCEPT !.mem = m]
      PROVE  heap.lossless
  BY <1>3 DEF Typed
<1>4. CASE Alloc(id, size)
  <2>1. PICK q : q = mm_malloc(heap, size)
    OBVIOUS
  <2>2. Typed(q.heap) /\ (q.heap.lossless => heap.lossless)
    BY <1>1, <2>1, SizeType, MallocType DEF Grown, Ready
  <2>3. heap' = q.heap \/ heap' = [q.heap EXCEPT !.mem = Filled(@, q.ret, size, id)]
    BY <1>4, <2>1 DEF Alloc, CallFailed
  <2>4. heap.lossless
    BY <1>3, <2>2, <2>3
  <2> QED BY <1>1, <1>2, <2>4
<1>5. CASE ReallocAlloc(id, size)
  <2>1. /\ Pointer(blocks[id].ptr) /\ blocks[id].ptr % 8 = 0
        /\ \E r \in ReallocCopies(heap, blocks[id].ptr, size) : heap' = r.heap
    BY <1>5 DEF ReallocAlloc, CallFailed, Shape, Entry
  <2>2. Typed(heap') /\ (heap'.lossless => heap.lossless)
    BY <1>1, <2>1, SizeType, ReallocType DEF Grown, Ready
  <2> QED BY <1>1, <1>2, <2>2
<1>6. ASSUME NEW p, Pointer(p), NEW r, r = mm_free(heap, p)
      PROVE  Typed(r.heap) /\ r.heap.lossless = heap.lossless
  <2>1. SameShape(heap, r.heap)
    BY <1>1, <1>6, FreeType
  <2> QED BY <1>1, <2>1, ShapeType
<1>7. CASE ReallocFree
  <2>1. PICK r : r = mm_free(heap, blocks[pending.id].ptr)
    OBVIOUS
  <2>2. Pointer(blocks[pending.id].ptr)
    BY <1>7 DEF ReallocFree, Shape, Entry
  <2>3. \/ heap' = heap \/ heap' = r.heap
        \/ heap' = [r.heap EXCEPT !.mem = Filled(@, pending.ptr, pending.size, pending.id)]
    BY <1>7, <2>1 DEF ReallocFree
  <2>4. heap.lossless
    BY <1>1, <1>3, <1>6, <2>1, <2>2, <2>3
  <2> QED BY <1>1, <1>2, <2>4
<1>8. CASE Free(id)
  <2>1. PICK r : r = mm_free(heap, blocks[id].ptr)
    OBVIOUS
  <2>2. Pointer(blocks[id].ptr) /\ heap' = r.heap
    BY <1>8, <2>1 DEF Free, Shape, Entry
  <2>3. heap.lossless
    BY <1>6, <2>1, <2>2
  <2> QED BY <1>1, <1>2, <2>3
<1> QED BY <1>1, <1>2, <1>4, <1>5, <1>7, <1>8

Lossless ==
    /\ Initialised /\ heap.lossless => \E z, A : Sound(z, A)
    /\ DataKept /\ NoFalseAlarm

(* One step, while no memory is lost.                                      *)
LEMMA CallAdvances ==
    ASSUME Shape, Lossless, heap'.lossless, NEW id \in Ids, NEW size \in Sizes,
           Alloc(id, size) \/ ReallocAlloc(id, size) \/ ReallocFree \/ Free(id)
    PROVE  /\ verdict = "running" /\ Initialised /\ Initialised' /\ heap.lossless
           /\ \E z, A : Sound(z, A) /\ Advance(z, A)
           /\ DataKept' /\ NoFalseAlarm'
<1>1. heap.lossless /\ verdict = "running" /\ Initialised /\ Initialised'
  BY StaysLossless
<1>2. PICK z, A : Sound(z, A)
  BY <1>1 DEF Lossless
<1>3. DataKept
  BY DEF Lossless
<1>4. CASE Alloc(id, size)
  <2>1. Advance(z, A) /\ DataKept' /\ verdict' \notin {"bad range", "data lost"}
    BY <1>2, <1>3, <1>4, AllocSound
  <2> QED BY <1>1, <1>2, <2>1 DEF NoFalseAlarm
<1>5. CASE ReallocAlloc(id, size)
  <2>1. Advance(z, A) /\ DataKept' /\ verdict' \notin {"bad range", "data lost"}
    BY <1>2, <1>3, <1>5, ReallocAllocSound
  <2> QED BY <1>1, <1>2, <2>1 DEF NoFalseAlarm
<1>6. CASE ReallocFree
  <2>1. /\ Advance(z, A) /\ DataKept' /\ verdict' # "bad range"
        /\ verdict' = "data lost" => \E i \in Live' : LowByte(i) >= 128
    BY <1>2, <1>3, <1>6, ReallocFreeSound
  <2> QED BY <1>1, <1>2, <2>1 DEF NoFalseAlarm
<1>7. CASE Free(id)
  <2>1. Advance(z, A) /\ DataKept' /\ verdict' \notin {"bad range", "data lost"}
    BY <1>2, <1>3, <1>7, FreeSound
  <2> QED BY <1>1, <1>2, <2>1 DEF NoFalseAlarm
<1> QED BY <1>4, <1>5, <1>6, <1>7

LEMMA InitLossless == Init => Lossless
<1> SUFFICES ASSUME Init PROVE Lossless
  OBVIOUS
<1>1. Live = {}
  BY DEF Init, Live
<1> QED BY <1>1 DEF Init, Lossless, Initialised, DataKept, NoFalseAlarm

LEMMA NextLossless == Shape /\ Lossless /\ [Next]_vars => Lossless'
<1> SUFFICES ASSUME Shape, Lossless, [Next]_vars PROVE Lossless'
  OBVIOUS
<1>1. CASE EvalStart
  <2>1. PICK n \in Nat : Sound(OneBlock(n), {})'
    BY <1>1, EvalStartSound
  <2>2. DataKept' /\ NoFalseAlarm'
    BY <1>1, EvalStartSound DEF NoFalseAlarm
  <2> QED BY <2>1, <2>2 DEF Lossless
<1>2. ASSUME NEW id \in Ids, NEW size \in Sizes,
             Alloc(id, size) \/ ReallocAlloc(id, size) \/ ReallocFree \/ Free(id)
      PROVE  Lossless'
  <2>1. CASE heap'.lossless
    <3>1. /\ \E z, A : Advance(z, A)
          /\ DataKept' /\ NoFalseAlarm'
      BY <1>2, <2>1, CallAdvances
    <3> QED BY <3>1 DEF Advance, Lossless
  <2>2. CASE ~heap'.lossless
    BY <2>2 DEF Lossless, DataKept, NoFalseAlarm
  <2> QED BY <2>1, <2>2
<1>3. CASE UNCHANGED vars
  <2>1. \A z, A : Sound(z, A) => Sound(z, A)'
    BY <1>3 DEF vars, Sound, Ended, Owned, Holding, Ptrs, Live, PendingKept
  <2>2. DataKept' /\ NoFalseAlarm'
    BY <1>3 DEF vars, Lossless, DataKept, NoFalseAlarm, Live
  <2> QED BY <1>3, <2>1, <2>2 DEF vars, Lossless, Initialised
<1>4. CASE ReallocFree \/ \E id \in Ids : Free(id)
  <2>1. CASE Sizes = {} \/ Ids = {}
    <3>1. CASE ReallocFree
      <4>1. pending.id \in Live /\ pending.size \in Sizes
        BY <3>1 DEF ReallocFree, Shape
      <4> QED BY <2>1, <4>1 DEF Shape
    <3>2. ASSUME NEW id \in Ids, Free(id) PROVE FALSE
      <4>1. id \in Live
        BY <3>2 DEF Free
      <4> QED BY <2>1, <3>2, <4>1 DEF Shape, Entry
    <3> QED BY <1>4, <3>1, <3>2
  <2>2. CASE Sizes # {} /\ Ids # {}
    BY <1>2, <1>4, <2>2
  <2> QED BY <2>1, <2>2
<1> QED BY <1>1, <1>2, <1>3, <1>4 DEF Next

LEMMA LosslessInvariant == Spec => [](Shape /\ Lossless)
BY InitShape, NextShape, InitLossless, NextLossless, PTL DEF Spec

(* While no extension has lost memory, every live payload holds what the   *)
(* driver wrote into it: through placing, splitting, coalescing, extending *)
(* and copying, in the middle of a realloc and after a failed one.         *)
THEOREM NothingOverwritten == Spec => []DataKept
<1>1. Lossless => DataKept
  BY DEF Lossless
<1> QED BY <1>1, LosslessInvariant, PTL

(* While no extension has lost memory the driver never reports an overlap  *)
(* or a stray payload, and data lost only for an id whose low byte a char  *)
(* cannot hold.                                                            *)
THEOREM NoFalseReport == Spec => []NoFalseAlarm
<1>1. Lossless => NoFalseAlarm
  BY DEF Lossless
<1> QED BY <1>1, LosslessInvariant, PTL

-----------------------------------------------------------------------------
(***************************************************************************)
(* What Sound says of the list that the allocator walks.                   *)
(***************************************************************************)
(* The word-level reading of one element of the list.                      *)
Element(b) ==
    LET next == b + Size(b)
    IN  /\ FTRP(heap.mem, b) \in Words
        /\ heap.mem[FTRP(heap.mem, b)] = heap.mem[HDRP(b)]
        /\ next \in List \union {EndOfList}
        /\ b # heap.heap_start_pos => Size(b) >= 2 * DSIZE
        /\ ~IsAlloc(b) => next = EndOfList \/ IsAlloc(next)

LEMMA SeenIs ==
    ASSUME NEW z, NEW A, Good(heap, z, A)
    PROVE  /\ heap.heap_start_pos = 16 /\ List = {16} \union Blk(z) /\ Chain(z, heap.brk + 4)
           /\ 16 \notin Blk(z) /\ EndOfList = heap.brk + 4 /\ A \subseteq Blk(z)
           /\ HDRP(16) = 12 /\ Size(16) = 8 /\ IsAlloc(16)
           /\ \A b \in Blk(z) : Size(b) = z[b] /\ (IsAlloc(b) <=> b \in A)
<1>1. List = {16} \union Blk(z)
  BY ListIs, Reads DEF List
<1>2. Chain(z, heap.brk + 4) /\ A \subseteq Blk(z)
  BY DEF Good
<1>3. 16 \notin Blk(z)
  BY <1>2, ChainType
<1>4. /\ heap.heap_start_pos = 16 /\ HDRP(16) = 12 /\ Size(16) = 8 /\ IsAlloc(16)
      /\ \A b \in Blk(z) : Size(b) = z[b] /\ (IsAlloc(b) <=> b \in A)
  BY Reads DEF Size, IsAlloc
<1> QED BY <1>1, <1>2, <1>3, <1>4 DEF EndOfList, WSIZE

LEMMA WellFormedIs == Shape /\ Lossless => WellFormedHeap
<1> SUFFICES ASSUME Shape, Lossless, Initialised, heap.lossless
             PROVE  /\ heap.mem[HDRP(EndOfList)] = PACK(0, 1)
                    /\ \A b \in List : Element(b)
  BY DEF WellFormedHeap, Element
<1>1. PICK z, A : Good(heap, z, A) /\ Apart(z, A)
  BY DEF Lossless, Sound
<1>2. /\ heap.heap_start_pos = 16 /\ List = {16} \union Blk(z) /\ Chain(z, heap.brk + 4)
      /\ 16 \notin Blk(z) /\ EndOfList = heap.brk + 4 /\ A \subseteq Blk(z)
      /\ HDRP(16) = 12 /\ Size(16) = 8 /\ IsAlloc(16)
      /\ \A b \in Blk(z) : Size(b) = z[b] /\ (IsAlloc(b) <=> b \in A)
  BY <1>1, SeenIs
<1>3. heap.mem[HDRP(EndOfList)] = PACK(0, 1)
  <2>1. HDRP(EndOfList) = heap.brk
    BY <1>1, <1>2, Reads
  <2> QED BY <1>1, <2>1 DEF Good, PACK
<1>4. Element(16)
  <2>1. FTRP(heap.mem, 16) = 16 /\ 16 \in Words
    <3>1. GET_SIZE(heap.mem[12]) = 8 /\ 16 \in Words
      BY <1>1, Reads
    <3> QED BY <1>2, <3>1 DEF FTRP, DSIZE
  <2>2. heap.mem[16] = heap.mem[12]
    BY <1>1 DEF Good
  <2>3. 16 + Size(16) = 24
    BY <1>2
  <2>4. 24 \in List \union {EndOfList}
    BY <1>2 DEF Chain
  <2> QED BY <1>2, <2>1, <2>2, <2>3, <2>4 DEF Element
<1>5. ASSUME NEW b \in Blk(z) PROVE Element(b)
  <2>1. /\ b \in Nat /\ z[b] \in Nat /\ z[b] >= 16
        /\ b + z[b] \in Blk(z) \union {heap.brk + 4}
    BY <1>2, ChainType
  <2>2. /\ FTRP(heap.mem, b) = b + z[b] - 8
        /\ b + z[b] - 8 \in Words /\ HDRP(b) = b - 4
    <3>1. HDRP(b) = b - 4 /\ GET_SIZE(heap.mem[HDRP(b)]) = z[b]
      BY <1>1, Reads
    <3>2. b + z[b] - 8 \in Words
      BY <1>2, TagPlaces
    <3> QED BY <3>1, <3>2 DEF FTRP, DSIZE
  <2>3. heap.mem[b + z[b] - 8] = heap.mem[b - 4]
    BY <1>1 DEF Good, Tagged
  <2>4. b + z[b] = EndOfList \/ (b + z[b] \in Blk(z) /\ b + z[b] \in List)
    BY <1>2, <2>1
  <2>5. ~IsAlloc(b) => b + z[b] = EndOfList \/ IsAlloc(b + z[b])
    <3>1. CASE b + z[b] \in Blk(z)
      BY <1>1, <1>2, <3>1 DEF Apart
    <3> QED BY <2>4, <3>1
  <2>6. Size(b) = z[b]
    BY <1>2
  <2> QED BY <2>1, <2>2, <2>3, <2>4, <2>5, <2>6 DEF Element, DSIZE
<1> QED BY <1>2, <1>3, <1>4, <1>5

(* As long as no extension has lost memory the boundary tags describe the  *)
(* heap: the list that mm_malloc walks covers it from the prologue to the  *)
(* epilogue, every footer repeats its header, and no two free blocks touch.*)
THEOREM TagsDescribeHeap == Spec => []WellFormedHeap
BY WellFormedIs, LosslessInvariant, PTL

(* What the driver holds, as addresses and as pairs.                       *)
Pair(o, p, n) == o = <<p, n>> /\ o[1] = p /\ o[2] = n

LEMMA OwnersAre ==
    /\ \A i \in Live : <<blocks[i].ptr, blocks[i].size>> \in Owners
    /\ pending # NoCall => <<pending.ptr, pending.size>> \in Owners
    /\ \A o \in Owners : \/ \E i \in Live : Pair(o, blocks[i].ptr, blocks[i].size)
                         \/ pending # NoCall /\ Pair(o, pending.ptr, pending.size)
<1>1. \A p, n : Pair(<<p, n>>, p, n)
  BY DEF Pair
<1>2. \A i \in Live : <<blocks[i].ptr, blocks[i].size>> \in Owners
  BY DEF Owners
<1>3. pending # NoCall => <<pending.ptr, pending.size>> \in Owners
  BY DEF Owners
<1>4. \A o \in Owners : \/ \E i \in Live : o = <<blocks[i].ptr, blocks[i].size>>
                        \/ pending # NoCall /\ o = <<pending.ptr, pending.size>>
  BY DEF Owners
<1> QED BY <1>1, <1>2, <1>3, <1>4

LEMMA HoldingIs == Holding = {o[1] : o \in Owners}
<1>1. ASSUME NEW p \in Holding PROVE \E o \in Owners : o[1] = p
  <2>1. \A q, n : <<q, n>>[1] = q
    OBVIOUS
  <2>2. CASE p \in Ptrs
    <3>1. PICK i \in Live : p = blocks[i].ptr
      BY <2>2 DEF Ptrs
    <3>2. <<blocks[i].ptr, blocks[i].size>> \in Owners
      BY OwnersAre
    <3> QED BY <2>1, <3>1, <3>2
  <2>3. CASE pending # NoCall /\ p = pending.ptr
    <3>1. <<pending.ptr, pending.size>> \in Owners
      BY <2>3, OwnersAre
    <3> QED BY <2>1, <2>3, <3>1
  <2> QED BY <2>2, <2>3 DEF Holding
<1>2. ASSUME NEW o \in Owners PROVE o[1] \in Holding
  BY OwnersAre DEF Pair, Holding, Ptrs
<1> QED BY <1>1, <1>2

LEMMA HoldingCount ==
    ASSUME Shape, pending # NoCall => pending.ptr \notin Ptrs
    PROVE  Cardinality(Holding) = Cardinality(Live) + (IF pending = NoCall THEN 0 ELSE 1)
<1> DEFINE f == [i \in Live |-> blocks[i].ptr]
<1>1. IsFiniteSet(Live) /\ \A i, j \in Live : blocks[i].ptr = blocks[j].ptr => i = j
  BY DEF Shape
<1>2. f \in [Live -> Ptrs] /\ \A t \in Ptrs : \E i \in Live : f[i] = t
  BY DEF Ptrs
<1>3. \A i, j \in Live : f[i] = f[j] => i = j
  BY <1>1
<1> HIDE DEF f
<1>4. f \in Bijection(Live, Ptrs)
  BY <1>2, <1>3 DEF Bijection, Injection, Surjection, IsInjective
<1>5. IsFiniteSet(Ptrs) /\ Cardinality(Ptrs) = Cardinality(Live) /\ Cardinality(Live) \in Nat
  BY <1>1, <1>4, FS_Bijection, FS_CardinalityType DEF ExistsBijection
<1>6. CASE pending = NoCall
  <2>1. Holding = Ptrs
    BY <1>6 DEF Holding
  <2> QED BY <1>5, <1>6, <2>1
<1>7. CASE pending # NoCall
  <2>1. Holding = Ptrs \union {pending.ptr} /\ pending.ptr \notin Ptrs
    BY <1>7 DEF Holding
  <2>2. Cardinality(Ptrs \union {pending.ptr}) = Cardinality(Ptrs) + 1
    BY <1>5, <2>1, FS_AddElement
  <2> QED BY <1>5, <1>7, <2>1, <2>2
<1> QED BY <1>6, <1>7

LEMMA OwnedBlocksIs == Shape /\ Lossless => OwnedBlocks
<1> SUFFICES ASSUME Shape, Lossless, Initialised, heap.lossless,
                    verdict \notin {"undefined", "data lost"}
             PROVE  /\ {b \in List \ {heap.heap_start_pos} : IsAlloc(b)} = {o[1] : o \in Owners}
                    /\ Cardinality({o[1] : o \in Owners}) =
                          Cardinality(Live) + (IF pending = NoCall THEN 0 ELSE 1)
                    /\ \A o \in Owners : /\ o[2] + DSIZE <= Size(o[1])
                                         /\ Size(o[1]) < Adjust(o[2]) + 2 * DSIZE
  BY DEF OwnedBlocks
<1>1. PICK z, A : Good(heap, z, A) /\ Owned(z, A)
  BY DEF Lossless, Sound, Ended
<1>2. /\ heap.heap_start_pos = 16 /\ List = {16} \union Blk(z) /\ 16 \notin Blk(z)
      /\ A \subseteq Blk(z) /\ \A b \in Blk(z) : Size(b) = z[b] /\ (IsAlloc(b) <=> b \in A)
  BY <1>1, SeenIs
<1>3. A = Holding /\ A = {o[1] : o \in Owners}
  BY <1>1, HoldingIs DEF Owned
<1>4. {b \in List \ {heap.heap_start_pos} : IsAlloc(b)} = A
  BY <1>2
<1>5. Cardinality(A) = Cardinality(Live) + (IF pending = NoCall THEN 0 ELSE 1)
  BY <1>1, <1>3, HoldingCount DEF Owned
<1>6. ASSUME NEW o \in Owners
      PROVE  o[2] + DSIZE <= Size(o[1]) /\ Size(o[1]) < Adjust(o[2]) + 2 * DSIZE
  <2>1. Holds(z, o[1], o[2])
    BY <1>1, OwnersAre DEF Owned, Pair
  <2>2. o[1] \in Blk(z)
    <3>1. o[1] \in A
      BY <1>3
    <3> QED BY <1>2, <3>1
  <2> DEFINE p == o[1]
             n == o[2]
  <2>3. Holds(z, p, n) /\ Size(p) = z[p]
    BY <1>2, <2>1, <2>2
  <2> HIDE DEF p, n
  <2>4. n + DSIZE <= Size(p) /\ Size(p) < Adjust(n) + 2 * DSIZE
    <3>0. DSIZE = 8
      BY DEF DSIZE
    <3>1. 2 * DSIZE = 16 /\ DSIZE = 8
      BY ONLY <3>0
    <3>2. n + 8 <= Size(p) /\ Size(p) < Adjust(n) + 16
      BY <2>3 DEF Holds
    <3> QED BY <3>1, <3>2
  <2> QED BY <2>4 DEF p, n
<1> QED BY <1>3, <1>4, <1>5, <1>6

(* As long as no extension has lost memory the blocks marked as allocated  *)
(* are those the driver holds, each once, also between the two calls of a  *)
(* realloc, and each is as small as its request allows: nothing is leaked, *)
(* freed twice or handed out twice.                                        *)
THEOREM BlocksAreOwned == Spec => []OwnedBlocks
BY OwnedBlocksIs, LosslessInvariant, PTL

-----------------------------------------------------------------------------
(***************************************************************************)
(* The refinement mapping: BlockSize is the z of Sound, BlockPayload what  *)
(* the driver asked for.                                                   *)
(***************************************************************************)
SizesOf(h) ==
    LET blks == ListFrom(h, h.heap_start_pos) \ {h.heap_start_pos}
    IN  [b \in 0..MAX_HEAP |-> IF b \in blks THEN GET_SIZE(h.mem[HDRP(b)]) ELSE 0]

PayOf(own) ==
    LET held == {o[1] : o \in own}
    IN  [b \in 0..MAX_HEAP |-> IF b \in held THEN (CHOOSE o \in own : o[1] = b)[2] ELSE 0]

LEMMA MappingIs ==
    /\ BlockSize = SizesOf(heap) /\ BlockSize' = SizesOf(heap')
    /\ BlockPayload = PayOf(Owners) /\ BlockPayload' = PayOf(Owners')
BY DEF BlockSize, BlockPayload, SizesOf, PayOf, List, Size

LEMMA SizesAre ==
    ASSUME NEW h, NEW z, NEW A, Good(h, z, A)
    PROVE  SizesOf(h) = z
<1>1. /\ ListFrom(h, h.heap_start_pos) = {16} \union Blk(z) /\ h.heap_start_pos = 16
      /\ \A b \in Blk(z) : GET_SIZE(h.mem[HDRP(b)]) = z[b]
  BY ListIs, Reads
<1>2. Chain(z, h.brk + 4)
  BY DEF Good
<1>3. 16 \notin Blk(z) /\ z \in [0..MAX_HEAP -> Nat]
  BY <1>2, ChainType DEF Chain
<1>4. ListFrom(h, h.heap_start_pos) \ {h.heap_start_pos} = Blk(z)
  BY <1>1, <1>3
<1>5. \A b \in 0..MAX_HEAP : b \notin Blk(z) => z[b] = 0
  <2>1. \A b \in 0..MAX_HEAP : z[b] \in Nat
    BY <1>3
  <2> QED BY <2>1 DEF Blk
<1>6. SizesOf(h) = [b \in 0..MAX_HEAP |-> IF b \in Blk(z) THEN GET_SIZE(h.mem[HDRP(b)]) ELSE 0]
  BY <1>4 DEF SizesOf
<1>7. \A b \in 0..MAX_HEAP : (IF b \in Blk(z) THEN GET_SIZE(h.mem[HDRP(b)]) ELSE 0) = z[b]
  BY <1>1, <1>5
<1> QED BY <1>3, <1>6, <1>7

(* Pairs of an address of A and a request, one for each address.           *)
Proper(own, A) ==
    /\ \A o \in own : o = <<o[1], o[2]>> /\ o[1] \in A /\ o[2] \in Sizes
    /\ \A o, q \in own : o[1] = q[1] => o = q
    /\ \A b \in A : \E o \in own : o[1] = b

LEMMA PayIs ==
    ASSUME NEW own, NEW A, A \subseteq 0..MAX_HEAP, Proper(own, A)
    PROVE  /\ DOMAIN PayOf(own) = 0..MAX_HEAP
           /\ \A b \in 0..MAX_HEAP : b \notin A => PayOf(own)[b] = 0
           /\ \A o \in own : PayOf(own)[o[1]] = o[2]
<1>1. \A b : b \in {o[1] : o \in own} <=> b \in A
  BY DEF Proper
<1>2. DOMAIN PayOf(own) = 0..MAX_HEAP
  BY DEF PayOf
<1>3. \A b \in 0..MAX_HEAP : b \notin A => PayOf(own)[b] = 0
  BY <1>1 DEF PayOf
<1>4. ASSUME NEW o \in own PROVE PayOf(own)[o[1]] = o[2]
  <2>1. o[1] \in A /\ o[1] \in 0..MAX_HEAP
    BY DEF Proper
  <2> DEFINE c == CHOOSE q \in own : q[1] = o[1]
  <2>2. c \in own /\ c[1] = o[1]
    OBVIOUS
  <2>3. c = o
    BY <2>2 DEF Proper
  <2>4. PayOf(own)[o[1]] = c[2]
    BY <1>1, <2>1 DEF PayOf
  <2> QED BY <2>3, <2>4
<1> QED BY <1>2, <1>3, <1>4

LEMMA OwnersProper ==
    ASSUME Shape, NEW z, NEW A, Owned(z, A)
    PROVE  Proper(Owners, A)
<1>1. \A o \in Owners : \/ \E i \in Live : Pair(o, blocks[i].ptr, blocks[i].size)
                        \/ pending # NoCall /\ Pair(o, pending.ptr, pending.size)
  BY OwnersAre
<1>2. A = {o[1] : o \in Owners}
  BY HoldingIs DEF Owned
<1>3. pending # NoCall => pending.size \in Sizes /\ \A i \in Live : blocks[i].ptr # pending.ptr
  BY DEF Owned, Shape, Ptrs
<1>4. /\ \A i \in Live : blocks[i].size \in Sizes
      /\ \A i, j \in Live : blocks[i].ptr = blocks[j].ptr => i = j
  BY DEF Shape, Entry
<1>5. \A o \in Owners : o = <<o[1], o[2]>> /\ o[1] \in A /\ o[2] \in Sizes
  BY <1>1, <1>2, <1>3, <1>4 DEF Pair
<1>6. \A o, q \in Owners : o[1] = q[1] => o = q
  BY <1>1, <1>3, <1>4 DEF Pair
<1> QED BY <1>2, <1>5, <1>6 DEF Proper

LEMMA PayTaken ==
    ASSUME NEW own, NEW A, A \subseteq 0..MAX_HEAP, Proper(own, A),
           NEW p \in 0..MAX_HEAP, p \notin A, NEW n \in Sizes
    PROVE  PayOf(own \union {<<p, n>>}) = [PayOf(own) EXCEPT ![p] = n]
<1> DEFINE own2 == own \union {<<p, n>>}
           A2   == A \union {p}
<1>0. <<p, n>>[1] = p /\ <<p, n>>[2] = n
  OBVIOUS
<1>1. Proper(own2, A2) /\ A2 \subseteq 0..MAX_HEAP
  <2>1. \A o \in own2 : o = <<o[1], o[2]>> /\ o[1] \in A2 /\ o[2] \in Sizes
    BY <1>0 DEF Proper
  <2>2. \A o, q \in own2 : o[1] = q[1] => o = q
    <3>1. \A o \in own : o[1] # p
      BY DEF Proper
    <3> QED BY <1>0, <3>1 DEF Proper
  <2>3. \A b \in A2 : \E o \in own2 : o[1] = b
    BY <1>0 DEF Proper
  <2> QED BY <2>1, <2>2, <2>3 DEF Proper
<1>2. <<p, n>> \in own2 /\ own \subseteq own2
  OBVIOUS
<1> HIDE DEF own2, A2
<1>3. /\ DOMAIN PayOf(own) = 0..MAX_HEAP /\ DOMAIN PayOf(own2) = 0..MAX_HEAP
      /\ \A b \in 0..MAX_HEAP : b \notin A => PayOf(own)[b] = 0
      /\ \A b \in 0..MAX_HEAP : b \notin A2 => PayOf(own2)[b] = 0
      /\ \A o \in own : PayOf(own)[o[1]] = o[2]
      /\ \A o \in own2 : PayOf(own2)[o[1]] = o[2]
  BY <1>1, PayIs
<1>4. PayOf(own2)[p] = n
  BY <1>0, <1>2, <1>3
<1>5. ASSUME NEW b \in 0..MAX_HEAP, b # p PROVE PayOf(own2)[b] = PayOf(own)[b]
  <2>1. CASE b \in A
    <3>1. PICK o \in own : o[1] = b
      BY <2>1 DEF Proper
    <3> QED BY <1>2, <1>3, <3>1
  <2>2. CASE b \notin A
    BY <1>3, <1>5, <2>2 DEF A2
  <2> QED BY <2>1, <2>2
<1>6. PayOf(own) = [b \in 0..MAX_HEAP |-> PayOf(own)[b]]
      /\ PayOf(own2) = [b \in 0..MAX_HEAP |-> PayOf(own2)[b]]
  <2>1. \A s : DOMAIN PayOf(s) = 0..MAX_HEAP /\ PayOf(s) = [b \in DOMAIN PayOf(s) |-> PayOf(s)[b]]
    BY DEF PayOf
  <2> QED BY <2>1
<1>7. PayOf(own2) = [PayOf(own) EXCEPT ![p] = n]
  BY <1>3, <1>4, <1>5, <1>6
<1> QED BY <1>7 DEF own2

LEMMA PayGiven ==
    ASSUME NEW own, NEW A, A \subseteq 0..MAX_HEAP, Proper(own, A),
           NEW p, NEW n, <<p, n>> \in own
    PROVE  PayOf(own \ {<<p, n>>}) = [PayOf(own) EXCEPT ![p] = 0]
<1> DEFINE own2 == own \ {<<p, n>>}
           A2   == A \ {p}
<1>0. <<p, n>>[1] = p /\ <<p, n>>[2] = n /\ \A o \in own2 : o[1] # p
  BY DEF Proper
<1>1. Proper(own2, A2) /\ A2 \subseteq 0..MAX_HEAP /\ p \in 0..MAX_HEAP
  <2>1. \A o \in own2 : o = <<o[1], o[2]>> /\ o[1] \in A2 /\ o[2] \in Sizes
    BY <1>0 DEF Proper
  <2>2. \A o, q \in own2 : o[1] = q[1] => o = q
    BY DEF Proper
  <2>3. \A b \in A2 : \E o \in own2 : o[1] = b
    BY <1>0 DEF Proper
  <2>4. p \in 0..MAX_HEAP
    BY <1>0 DEF Proper
  <2> QED BY <2>1, <2>2, <2>3, <2>4 DEF Proper
<1>2. own2 \subseteq own /\ \A o \in own : o[1] # p => o \in own2
  BY <1>0
<1> HIDE DEF own2, A2
<1>3. /\ DOMAIN PayOf(own) = 0..MAX_HEAP /\ DOMAIN PayOf(own2) = 0..MAX_HEAP
      /\ \A b \in 0..MAX_HEAP : b \notin A => PayOf(own)[b] = 0
      /\ \A b \in 0..MAX_HEAP : b \notin A2 => PayOf(own2)[b] = 0
      /\ \A o \in own : PayOf(own)[o[1]] = o[2]
      /\ \A o \in own2 : PayOf(own2)[o[1]] = o[2]
  BY <1>1, PayIs
<1>4. PayOf(own2)[p] = 0
  BY <1>1, <1>3 DEF A2
<1>5. ASSUME NEW b \in 0..MAX_HEAP, b # p PROVE PayOf(own2)[b] = PayOf(own)[b]
  <2>1. CASE b \in A
    <3>1. PICK o \in own : o[1] = b
      BY <2>1 DEF Proper
    <3> QED BY <1>2, <1>3, <1>5, <3>1
  <2>2. CASE b \notin A
    BY <1>3, <1>5, <2>2 DEF A2
  <2> QED BY <2>1, <2>2
<1>6. PayOf(own) = [b \in 0..MAX_HEAP |-> PayOf(own)[b]]
      /\ PayOf(own2) = [b \in 0..MAX_HEAP |-> PayOf(own2)[b]]
  <2>1. \A s : DOMAIN PayOf(s) = 0..MAX_HEAP /\ PayOf(s) = [b \in DOMAIN PayOf(s) |-> PayOf(s)[b]]
    BY DEF PayOf
  <2> QED BY <2>1
<1>7. PayOf(own2) = [PayOf(own) EXCEPT ![p] = 0]
  BY <1>1, <1>3, <1>4, <1>5, <1>6
<1> QED BY <1>7 DEF own2

(* The mapped heap at a state: sizes z, payloads pay, blocks in use A.     *)
Mapped(z, A, pay) ==
    /\ BlockSize = z /\ BlockPayload = pay /\ Chain(z, heap.brk + 4) /\ A \subseteq Blk(z)
    /\ \A b \in 0..MAX_HEAP : pay[b] = 0 <=> b \notin A

LEMMA MappedIs ==
    ASSUME NEW z, NEW A, NEW pay, Mapped(z, A, pay)
    PROVE  /\ BH!Blocks = Blk(z) /\ BH!End = heap.brk + 4
           /\ \A b \in Blk(z) : (BH!Free(b) <=> b \notin A) /\ BH!After(b) = b + z[b]
           /\ \A n \in Nat : BH!Adjust(n) = Adjust(n)
<1>1. BH!Blocks = Blk(z)
  BY DEF Mapped, BH!Blocks, BH!Addr, Blk
<1>2. BH!End = heap.brk + 4
  BY DEF BH!End
<1>3. \A b \in Blk(z) : (BH!Free(b) <=> b \notin A) /\ BH!After(b) = b + z[b]
  BY BlkType DEF Mapped, BH!Free, BH!After
<1>4. ASSUME NEW n \in Nat PROVE BH!Adjust(n) = Adjust(n)
  BY DEF BH!Adjust, Adjust, DSIZE
<1> QED BY <1>1, <1>2, <1>3, <1>4

LEMMA TakeIsStep ==
    ASSUME NEW z, NEW A, NEW pay, Mapped(z, A, pay), NEW z2, BlockSize' = z2,
           NEW p \in Nat, NEW n \in Sizes, BlockPayload' = [pay EXCEPT ![p] = n],
           Placing(z, A, heap.brk + 4, Adjust(n), z2, heap'.brk + 4, p),
           heap.brk \in Nat, heap'.brk \in Nat
    PROVE  BH!Next
<1>1. /\ BH!Blocks = Blk(z) /\ BH!End = heap.brk + 4
      /\ \A b \in Blk(z) : (BH!Free(b) <=> b \notin A) /\ BH!After(b) = b + z[b]
      /\ BH!Adjust(n) = Adjust(n)
  BY MappedIs, SizeType
<1>2. BlockSize = z /\ BlockPayload = pay
  BY DEF Mapped
<1>3. CASE /\ p \in Blk(z) \ A /\ z[p] >= Adjust(n) /\ heap'.brk + 4 = heap.brk + 4
           /\ \A c \in Blk(z) \ A : c < p => z[c] < Adjust(n)
           /\ \/ z[p] - Adjust(n) < 16 /\ z2 = z
              \/ z[p] - Adjust(n) >= 16 /\ z2 = Split(z, p, Adjust(n))
  <2>1. BH!FirstFit(p, n)
    BY <1>1, <1>2, <1>3 DEF BH!FirstFit
  <2>2. heap'.brk = heap.brk
    BY <1>3
  <2>3. BH!PlaceWhole(p, n) \/ BH!PlaceSplit(p, n)
    BY <1>1, <1>2, <1>3, <2>1, <2>2 DEF BH!PlaceWhole, BH!PlaceSplit, Split
  <2> HIDE DEF BH!PlaceWhole, BH!PlaceSplit
  <2> QED BY <1>1, <1>3, <2>3 DEF BH!Next
<1>4. CASE /\ p = heap.brk + 4 /\ Adjust(n) >= CHUNKSIZE
           /\ heap'.brk + 4 = heap.brk + 4 + Adjust(n) /\ heap'.brk + 4 <= MAX_HEAP
           /\ \A c \in Blk(z) \ A : z[c] < Adjust(n) /\ c + z[c] # heap.brk + 4
           /\ z2 = Longer(z, heap.brk + 4, Adjust(n))
  <2>1. \A b \in BH!Blocks : BH!Free(b) => z[b] < BH!Adjust(n) /\ BH!After(b) # BH!End
    BY <1>1, <1>4
  <2>2. Adjust(n) \in Nat /\ MAX_HEAP \in Nat
    BY SizeType, AdjustType, ArenaAssumption
  <2>3. heap'.brk = heap.brk + Adjust(n) /\ heap.brk + Adjust(n) <= MAX_HEAP
    BY <1>4, <2>2
  <2>4. BH!Extend(n)
    BY <1>1, <1>2, <1>4, <2>1, <2>3 DEF BH!Extend, Longer
  <2> QED BY <2>4 DEF BH!Next
<1> QED BY <1>3, <1>4 DEF Placing

LEMMA GiveIsStep ==
    ASSUME NEW z, NEW A, NEW pay, Mapped(z, A, pay), NEW z2, BlockSize' = z2,
           NEW p \in A, BlockPayload' = [pay EXCEPT ![p] = 0], heap'.brk = heap.brk,
           NEW ret, Coalescing(z, A \ {p}, p, z2, ret)
    PROVE  BH!Next
<1>1. /\ BH!Blocks = Blk(z) /\ BH!End = heap.brk + 4
      /\ \A b \in Blk(z) : (BH!Free(b) <=> b \notin A) /\ BH!After(b) = b + z[b]
  BY MappedIs
<1>2. BlockSize = z /\ BlockPayload = pay /\ p \in Blk(z) /\ ~BH!Free(p)
  BY <1>1 DEF Mapped
<1>3. p + z[p] # p
  <2>1. p \in Nat /\ z[p] \in Nat /\ z[p] >= 16
    BY <1>2, ChainType DEF Mapped
  <2> QED BY <2>1
<1>4. BH!FreeBehind(p) <=> FreeNext(z, A \ {p}, p)
  BY <1>1, <1>2, <1>3 DEF BH!FreeBehind, FreeNext
<1>5. \A a \in Blk(z) : BH!FreeBefore(a, p) <=> FreePrev(z, A \ {p}, a, p)
  BY <1>1, <1>2, <1>3 DEF BH!FreeBefore, FreePrev
<1>6. CASE /\ ~FreeNext(z, A \ {p}, p) /\ \A a \in Blk(z) : ~FreePrev(z, A \ {p}, a, p)
           /\ z2 = z
  <2>1. BH!FreeAlone(p)
    BY <1>1, <1>2, <1>4, <1>5, <1>6 DEF BH!FreeAlone
  <2> QED BY <1>1, <1>2, <2>1 DEF BH!Next
<1>7. CASE /\ FreeNext(z, A \ {p}, p) /\ \A a \in Blk(z) : ~FreePrev(z, A \ {p}, a, p)
           /\ z2 = Join(z, p, p + z[p])
  <2>1. BH!FreeWithNext(p)
    BY <1>1, <1>2, <1>4, <1>5, <1>7 DEF BH!FreeWithNext, Join
  <2> QED BY <1>1, <1>2, <2>1 DEF BH!Next
<1>8. ASSUME NEW a \in Blk(z), FreePrev(z, A \ {p}, a, p), ~FreeNext(z, A \ {p}, p),
             z2 = Join(z, a, p)
      PROVE  BH!Next
  <2>1. BH!FreeWithPrev(a, p)
    BY <1>1, <1>2, <1>4, <1>5, <1>8 DEF BH!FreeWithPrev, Join
  <2> QED BY <1>1, <1>2, <2>1 DEF BH!Next
<1>9. ASSUME NEW a \in Blk(z), FreePrev(z, A \ {p}, a, p), FreeNext(z, A \ {p}, p),
             z2 = JoinAll(z, a, p, p + z[p])
      PROVE  BH!Next
  <2>1. BH!FreeWithBoth(a, p)
    BY <1>1, <1>2, <1>4, <1>5, <1>9 DEF BH!FreeWithBoth, JoinAll
  <2> QED BY <1>1, <1>2, <2>1 DEF BH!Next
<1> QED BY <1>6, <1>7, <1>8, <1>9 DEF Coalescing

LEMMA PayOfNone == PayOf({}) = [b \in 0..MAX_HEAP |-> 0]
BY DEF PayOf

LEMMA StartIsInit ==
    ASSUME Shape, EvalStart
    PROVE  BH!Init' \/ (verdict' = "mm_init failed" /\ CHUNKSIZE + 24 > MAX_HEAP)
<1>1. /\ verdict' \in {"running", "mm_init failed"} /\ Owners' = {}
      /\ verdict' = "mm_init failed" => CHUNKSIZE + 24 > MAX_HEAP
      /\ verdict' = "running" => /\ Sound(OneBlock(CHUNKSIZE), {})'
                                 /\ heap'.brk = 20 + CHUNKSIZE
  BY EvalStartSound
<1>2. CASE verdict' = "running"
  <2>1. Good(heap', OneBlock(CHUNKSIZE), {}) /\ heap'.brk = 20 + CHUNKSIZE
    BY <1>1, <1>2 DEF Sound
  <2>2. BlockSize' = OneBlock(CHUNKSIZE)
    BY <2>1, SizesAre, MappingIs
  <2>3. BlockPayload' = [b \in 0..MAX_HEAP |-> 0]
    BY <1>1, PayOfNone, MappingIs
  <2>4. BH!Init'
    BY <2>1, <2>2, <2>3 DEF BH!Init, BH!Addr, BH!First, OneBlock
  <2> QED BY <2>4
<1> QED BY <1>1, <1>2

LEMMA CallIsStep ==
    ASSUME Shape, Shape', Lossless, heap'.lossless, verdict' \notin {"undefined", "data lost"},
           NEW id \in Ids, NEW size \in Sizes,
           Alloc(id, size) \/ ReallocAlloc(id, size) \/ ReallocFree \/ Free(id)
    PROVE  BH!Next \/ UNCHANGED BH!vars
<1>1. /\ verdict = "running" /\ heap.brk \in Nat /\ heap'.brk \in Nat
      /\ \E z, A : Sound(z, A) /\ Advance(z, A)
  BY CallAdvances DEF Shape, Typed
<1>2. PICK z, A : Sound(z, A) /\ Advance(z, A)
  BY <1>1
<1>3. PICK z2, A2 : Sound(z2, A2)' /\ Step(z, A, z2)
  BY <1>2 DEF Advance, Ended
<1>4. Good(heap, z, A) /\ Owned(z, A) /\ Good(heap', z2, A2)
  BY <1>1, <1>2, <1>3 DEF Sound, Ended
<1>5. BlockSize = z /\ BlockSize' = z2
  BY <1>4, SizesAre, MappingIs
<1> DEFINE pay == PayOf(Owners)
<1>6. BlockPayload = pay /\ BlockPayload' = PayOf(Owners')
  BY MappingIs
<1>7. Proper(Owners, A) /\ Chain(z, heap.brk + 4) /\ A \subseteq Blk(z) /\ A \subseteq 0..MAX_HEAP
  BY <1>4, OwnersProper DEF Good, Blk
<1>8. Mapped(z, A, pay)
  <2>1. /\ \A b \in 0..MAX_HEAP : b \notin A => pay[b] = 0
        /\ \A o \in Owners : pay[o[1]] = o[2]
    BY <1>7, PayIs
  <2>2. ASSUME NEW b \in A PROVE pay[b] # 0
    <3>1. PICK o \in Owners : o[1] = b
      BY <1>7 DEF Proper
    <3>2. o[2] \in Sizes
      BY <1>7 DEF Proper
    <3> HIDE DEF pay
    <3>3. pay[b] = o[2]
      BY <2>1, <3>1
    <3>4. \A s \in Sizes : s # 0
      BY ONLY SizeType
    <3> QED BY <3>2, <3>3, <3>4
  <2> HIDE DEF pay
  <2> QED BY <1>5, <1>6, <1>7, <2>1, <2>2 DEF Mapped
<1>9. CASE z2 = z /\ Owners' = Owners /\ heap'.brk = heap.brk
  BY <1>5, <1>6, <1>9 DEF BH!vars
<1>10. CASE TakeStep(z, A, z2)
  <2>1. PICK p \in Nat, n \in Sizes :
            /\ Placing(z, A, heap.brk + 4, Adjust(n), z2, heap'.brk + 4, p)
            /\ p \notin A /\ Owners' = Owners \union {<<p, n>>}
    BY <1>10 DEF TakeStep
  <2>2. p \in 0..MAX_HEAP
    <3>1. p \in Blk(z) \/ p = heap.brk + 4
      BY <2>1 DEF Placing
    <3>2. heap.brk + 4 \in 0..MAX_HEAP
      <4> DEFINE e == heap.brk + 4
      <4>1. Chain(z, e)
        BY <1>7
      <4> HIDE DEF e
      <4>2. e \in 0..MAX_HEAP
        BY <4>1, ChainType
      <4> QED BY <4>2 DEF e
    <3> QED BY <3>1, <3>2, BlkType
  <2>3. BlockPayload' = [pay EXCEPT ![p] = n]
    BY <1>6, <1>7, <2>1, <2>2, PayTaken
  <2> HIDE DEF pay
  <2> QED BY <1>1, <1>5, <1>8, <2>1, <2>3, TakeIsStep
<1>11. CASE GiveStep(z, A, z2)
  <2>1. PICK p \in A, n \in Sizes, ret \in Nat :
            /\ Coalescing(z, A \ {p}, p, z2, ret) /\ heap'.brk = heap.brk
            /\ <<p, n>> \in Owners /\ Owners' = Owners \ {<<p, n>>}
    BY <1>11 DEF GiveStep
  <2>2. BlockPayload' = [pay EXCEPT ![p] = 0]
    BY <1>6, <1>7, <2>1, PayGiven
  <2> HIDE DEF pay
  <2> QED BY <1>5, <1>8, <2>1, <2>2, GiveIsStep
<1> QED BY <1>3, <1>9, <1>10, <1>11 DEF Step

(* Until an extension loses memory, every call of the word-level allocator *)
(* is a step of the block-level heap of module BlockHeap, or leaves it as  *)
(* it is, and mm_init starts it afresh on whatever words the arena holds.  *)
THEOREM CallsAreBlockSteps == Spec => BlockSteps
<1>1. Shape /\ Shape' /\ Lossless /\ [Next]_vars =>
         [heap'.lossless /\ verdict' \notin {"undefined", "data lost"} =>
             \/ BH!Next \/ BH!Init' \/ UNCHANGED BH!vars
             \/ verdict' = "mm_init failed" /\ CHUNKSIZE + 24 > MAX_HEAP]_vars
  <2> SUFFICES ASSUME Shape, Shape', Lossless, Next, heap'.lossless,
                      verdict' \notin {"undefined", "data lost"}
               PROVE  \/ BH!Next \/ BH!Init' \/ UNCHANGED BH!vars
                      \/ verdict' = "mm_init failed" /\ CHUNKSIZE + 24 > MAX_HEAP
    BY DEF vars
  <2>1. CASE EvalStart
    BY <2>1, StartIsInit
  <2>2. ASSUME NEW id \in Ids, NEW size \in Sizes,
               Alloc(id, size) \/ ReallocAlloc(id, size) \/ ReallocFree \/ Free(id)
        PROVE  BH!Next \/ UNCHANGED BH!vars
    BY <2>2, CallIsStep
  <2>3. CASE ReallocFree \/ \E id \in Ids : Free(id)
    <3>1. \E id \in Ids, size \in Sizes : ReallocFree \/ Free(id)
      <4>1. CASE ReallocFree
        <5>1. pending.id \in Ids /\ pending.size \in Sizes
          BY <4>1 DEF ReallocFree, Shape
        <5> QED BY <4>1, <5>1
      <4>2. ASSUME NEW id \in Ids, Free(id) PROVE \E size \in Sizes : Free(id)
        <5>1. id \in Live /\ blocks[id].size \in Sizes
          BY <4>2 DEF Free, Shape, Entry
        <5> QED BY <4>2, <5>1
      <4> QED BY <2>3, <4>1, <4>2
    <3> QED BY <2>2, <3>1
  <2> QED BY <2>1, <2>2, <2>3 DEF Next
<1>2. Spec => [](Shape /\ Lossless)
  BY LosslessInvariant
<1> QED BY <1>1, <1>2, PTL DEF Spec, BlockSteps
=============================================================================
