------------------------------- MODULE KBest -------------------------------
(***************************************************************************)
(* The K-best measurement scheme of the malloc lab (fcyc.c): samples are   *)
(* taken until the K smallest lie within epsilon of the smallest or there  *)
(* are maxsamples of them; the smallest is the result.  Before a sample    *)
(* the cache may be cleared by reading a buffer of its size.               *)
(*                                                                         *)
(* A sample is any integer: compensation may make it negative (module      *)
(* CycleCounter).  epsilon is a fraction.  Arrays count from 1.  malloc may*)
(* fail, and ends the process; the calloc of values, whose result the code *)
(* does not test, is taken to succeed.                                     *)
(***************************************************************************)
EXTENDS Integers, FiniteSets

CONSTANTS Ks, Limits,        \* values of set_fcyc_k and set_fcyc_maxsamples
          Samples,           \* cycles a run may be measured to take
          EpsNum, EpsDen,    \* epsilon
          CacheSizes, Blocks \* values of set_fcyc_cache_size and _block

KBestAssumption ==
    /\ Ks \subseteq Nat \ {0} /\ Ks # {} /\ Limits \subseteq Nat /\ Limits # {}
    /\ Samples \subseteq Int
    /\ EpsNum \in Nat /\ EpsDen \in Nat \ {0}
    /\ CacheSizes \subseteq Nat /\ CacheSizes # {}
    /\ Blocks \subseteq Nat /\ Blocks # {} /\ \A b \in Blocks : b >= 4

VARIABLES
    kbest, maxsamples, clear_cache, cache_size, cache_block,
    cache_buf,        \* bytes allocated, -1 for NULL
    values, samplecount, pos,
    cptr,             \* of clear, in ints
    pc, result,
    taken             \* history: the samples of this call, by their numbers

params == <<kbest, maxsamples, clear_cache, cache_size, cache_block>>
vars == <<params, cache_buf, values, samplecount, pos, cptr, pc, result, taken>>

Init ==
    /\ kbest \in Ks /\ maxsamples \in Limits /\ clear_cache \in BOOLEAN
    /\ cache_size \in CacheSizes /\ cache_block \in Blocks /\ cache_buf = -1
    /\ values = <<>> /\ samplecount = 0 /\ pos = 1 /\ cptr = 0
    /\ pc = "idle" /\ result = 0 /\ taken = <<>>

(* set_fcyc_cache_size gives up a buffer of another size.                  *)
Buffer(size) == IF size # cache_size THEN -1 ELSE cache_buf

(* set_fcyc_k, _maxsamples, _clear_cache, _cache_size, _cache_block        *)
Configure ==
    /\ pc \in {"idle", "returned"} /\ pc' = "idle"
    /\ kbest' \in Ks /\ maxsamples' \in Limits /\ clear_cache' \in BOOLEAN
    /\ cache_size' \in CacheSizes /\ cache_block' \in Blocks
    /\ cache_buf' = Buffer(cache_size')
    /\ UNCHANGED <<values, samplecount, pos, cptr, result, taken>>

SizeofInt == 4
NextSample == IF clear_cache THEN "clear" ELSE "sample"

(* The entry of fcyc; init_sampler: values is calloc'ed.                   *)
Start ==
    /\ pc \in {"idle", "returned"}
    /\ values' = [i \in 1..kbest |-> 0] /\ samplecount' = 0 /\ taken' = <<>>
    /\ cptr' = 0 /\ pc' = NextSample
    /\ UNCHANGED <<params, cache_buf, pos, result>>

(* clear: allocate the buffer if there is none, read an int of each block. *)
(* Without memory for it the process exits.                                *)
ClearStart ==
    /\ pc = "clear" /\ cptr = 0
    /\ \/ cache_buf' = (IF cache_buf = -1 THEN cache_size ELSE cache_buf) /\ pc' = "read"
       \/ cache_buf = -1 /\ UNCHANGED cache_buf /\ pc' = "exited"
    /\ UNCHANGED <<params, values, samplecount, pos, cptr, result, taken>>

(* A faulty variant of the next definition, for the properties to catch.   *)
Stride_twice == (cache_block \div SizeofInt) \div SizeofInt

Stride == cache_block \div SizeofInt

ClearRead ==
    /\ pc = "read"
    /\ IF cptr < cache_size \div SizeofInt THEN cptr' = cptr + Stride /\ UNCHANGED pc
                            ELSE cptr' = 0 /\ pc' = "sample"
    /\ UNCHANGED <<params, cache_buf, values, samplecount, pos, result, taken>>

(* A faulty variant of the next definition, for the properties to catch.   *)
Place_always(val) ==
    /\ pos' = IF samplecount < kbest THEN samplecount + 1 ELSE kbest
    /\ values' = [values EXCEPT ![pos'] = val]

(* add_sample before its sort: where the new value goes, if anywhere.      *)
Place(val) ==
    \/ /\ samplecount < kbest
       /\ pos' = samplecount + 1
       /\ values' = [values EXCEPT ![samplecount + 1] = val]
    \/ /\ samplecount >= kbest /\ val < values[kbest]
       /\ pos' = kbest
       /\ values' = [values EXCEPT ![kbest] = val]
    \/ /\ samplecount >= kbest /\ val >= values[kbest]
       /\ pos' = 1
       /\ UNCHANGED values

(* The function is run and timed; add_sample.                              *)
Sample(val) ==
    /\ pc = "sample"
    /\ Place(val)
    /\ samplecount' = samplecount + 1
    /\ taken' = [i \in 1..(samplecount + 1) |-> IF i <= samplecount THEN taken[i] ELSE val]
    /\ pc' = "sort"
    /\ UNCHANGED <<params, cache_buf, cptr, result>>

(* One turn of the insertion sort.                                         *)
Swap ==
    /\ pc = "sort" /\ pos > 1 /\ values[pos - 1] > values[pos]
    /\ values' = [values EXCEPT ![pos - 1] = values[pos], ![pos] = values[pos - 1]]
    /\ pos' = pos - 1
    /\ UNCHANGED <<params, cache_buf, samplecount, cptr, pc, result, taken>>

SortEnds ==
    /\ pc = "sort" /\ (pos > 1 => values[pos - 1] <= values[pos])
    /\ pc' = "test"
    /\ UNCHANGED <<params, cache_buf, values, samplecount, pos, cptr, result, taken>>

has_converged ==
    samplecount >= kbest /\ (EpsDen + EpsNum) * values[1] >= EpsDen * values[kbest]

(* The condition of the loop of fcyc.                                      *)
Again ==
    /\ pc = "test" /\ ~has_converged /\ samplecount < maxsamples
    /\ pc' = NextSample
    /\ UNCHANGED <<params, cache_buf, values, samplecount, pos, cptr, result, taken>>

Best == values[1]

Return ==
    /\ pc = "test" /\ (has_converged \/ samplecount >= maxsamples)
    /\ result' = Best
    /\ pc' = "returned"
    /\ UNCHANGED <<params, cache_buf, values, samplecount, pos, cptr, taken>>

Fcyc ==
    \/ ClearStart \/ ClearRead \/ \E val \in Samples : Sample(val)
    \/ Swap \/ SortEnds \/ Again \/ Return

Next == Configure \/ Start \/ Fcyc

Spec == Init /\ [][Next]_vars

(* A call of fcyc runs on; the function it times returns.                  *)
FairSpec == Spec /\ WF_vars(Fcyc)

-----------------------------------------------------------------------------
Filled == IF samplecount < kbest THEN samplecount ELSE kbest

(* The buffer that is read has the size that is read: a size set between   *)
(* two calls never leaves a shorter buffer behind.                         *)
InBuffer ==
    pc = "read" /\ cptr < cache_size \div SizeofInt => SizeofInt * (cptr + 1) <= cache_buf

(* values holds the K smallest samples in order: for any bound as many of  *)
(* them are within it as of all samples, up to K.                          *)
KSmallest ==
    pc = "test" =>
        /\ \A i \in 2..Filled : values[i - 1] <= values[i]
        /\ \A v \in Samples :
              LET below == Cardinality({i \in 1..samplecount : taken[i] <= v})
              IN  Cardinality({i \in 1..Filled : values[i] <= v}) =
                     IF below < kbest THEN below ELSE kbest

(* The result is the smallest sample taken, also when there are fewer than *)
(* K and the rest of values is still zero.                                 *)
BestIsLeast ==
    pc = "returned" =>
        /\ \E i \in 1..samplecount : result = taken[i]
        /\ \A i \in 1..samplecount : result <= taken[i]

(* A call that ends before the limit has K samples within epsilon of the   *)
(* best one; none takes more than the limit.                               *)
StopsRight ==
    pc = "returned" =>
        /\ samplecount = 1 \/ samplecount <= maxsamples
        /\ samplecount < maxsamples =>
              Cardinality({i \in 1..samplecount :
                             EpsDen * taken[i] <= (EpsDen + EpsNum) * result}) >= kbest

(* Every call returns, or ends the process for want of a cache buffer.     *)
CallReturns == pc \notin {"idle", "returned", "exited"} ~> pc \in {"returned", "exited"}

=============================================================================
