---------------------------- MODULE SupportProofs ----------------------------
(***************************************************************************)
(* What the programs stand on and are measured with. There is one          *)
(* inductive invariant for each part, and the theorem of that part at its  *)
(* end.                                                                    *)
(*                                                                         *)
(* Sockets: a descriptor is free, held by the walk, or with the caller     *)
(* (IInv). fcyc: the filled part of values is sorted but for the element   *)
(* that is on its way, and holds the least samples taken (KBestInv). The   *)
(* harness of the proxy lab: a server up to the test under way listens on  *)
(* a port that is its own, and a mark stands for a file that was fetched   *)
(* right (HarnessInv). sio_putl: the characters stored are the remainders  *)
(* of the number, the last one first, and the reversal has exchanged the   *)
(* ends up to i and j (SioInv).                                            *)
(***************************************************************************)
EXTENDS MCSupport, FiniteSetTheorems, WellFoundedInduction, TLAPS

(* The walk starts with nothing held.                                      *)
LEMMA SocketInit == Init => IInv
  BY OpenAssumption DEF Init, IInv, TypeOK, Held, InUse, Found, None, Walking, Passed

(* One step per action: a descriptor moves from free to held, from held to *)
(* in use, and from there to the caller, or back to free.                  *)
LEMMA SocketStep == IInv /\ [Next]_vars => IInv'
<1> SUFFICES ASSUME IInv, [Next]_vars PROVE IInv'
  OBVIOUS
<1> USE OpenAssumption DEF IInv, TypeOK, Held, InUse, Found, Walking, Passed, memory
<1>1. ASSUME NEW k \in {"client", "listen"}, Call(k) PROVE IInv'
  BY <1>1 DEF Call, None
<1>2. CASE Lookup
  <2>1. ASSUME NEW m \in 1..MaxAddresses, list' = m, unfreed' = unfreed + 1, pc' = "socket",
               answer' = answer
        PROVE  IInv'
    <3>1. /\ pc = "lookup" /\ m \in Nat /\ p <= m
          /\ UNCHANGED <<kind, p, fd, open, attached, errors, returned>>
      BY <1>2, <2>1 DEF Lookup
    <3>2. Held = {} /\ Held' = {} /\ InUse = {} /\ InUse' = {} /\ Walking = 0 /\ Walking' = 1
      BY <2>1, <3>1
    <3>3. TypeOK' /\ unfreed' = errors' + 1
      BY <2>1, <3>1, <3>2
    <3> HIDE DEF Held, InUse, Walking, TypeOK
    <3> QED BY <2>1, <3>1, <3>2, <3>3
  <2>2. CASE pc' = "return" /\ answer' = -2 /\ list' = list /\ unfreed' = unfreed
    BY <1>2, <2>2 DEF Lookup
  <2>3. \/ \E m \in 1..MaxAddresses : /\ list' = m /\ unfreed' = unfreed + 1 /\ pc' = "socket"
                                       /\ answer' = answer
        \/ pc' = "return" /\ answer' = -2 /\ list' = list /\ unfreed' = unfreed
    BY <1>2 DEF Lookup
  <2> HIDE DEF IInv, TypeOK, Held, InUse, Found, Walking, Passed
  <2> QED
    BY <2>1, <2>2, <2>3
<1>3. CASE Socket
  <2>1. ASSUME NEW d \in Fds \ open, fd' = d, open' = open \union {d}, pc' = "attach", p' = p
        PROVE  IInv'
    BY <1>3, <2>1 DEF Socket
  <2>2. CASE Advance /\ fd' = fd /\ open' = open
    BY <1>3, <2>2 DEF Socket, Advance
  <2>3. \/ \E d \in Fds \ open :
              fd' = d /\ open' = open \union {d} /\ pc' = "attach" /\ p' = p
        \/ Advance /\ fd' = fd /\ open' = open
    BY <1>3 DEF Socket
  <2> HIDE DEF IInv, TypeOK, Held, InUse, Found, Walking, Passed
  <2> QED
    BY <2>1, <2>2, <2>3
<1>4. CASE Attach
  BY <1>4 DEF Attach
<1>5. CASE CloseUnused
  BY <1>5 DEF CloseUnused, Advance
<1>6. CASE Free
  BY <1>6 DEF Free
<1>7. CASE Listen
  <2>1. CASE answer' = fd /\ open' = open /\ attached' = attached
    BY <1>7, <2>1 DEF Listen, None
  <2>2. CASE answer' = -1 /\ open' = open \ {fd} /\ attached' = attached \ {fd}
    BY <1>7, <2>2 DEF Listen
  <2>3. \/ answer' = fd /\ open' = open /\ attached' = attached
        \/ answer' = -1 /\ open' = open \ {fd} /\ attached' = attached \ {fd}
    BY <1>7 DEF Listen
  <2> HIDE DEF IInv, TypeOK, Held, InUse, Found, Walking, Passed
  <2> QED BY <2>1, <2>2, <2>3
<1>8. ASSUME NEW d \in Fds, Close(d) PROVE IInv'
  BY <1>8 DEF Close
<1>9. CASE Return
  BY <1>9 DEF Return
<1>10. CASE UNCHANGED vars
  BY <1>10 DEF vars
<1> QED
  BY <1>1, <1>2, <1>3, <1>4, <1>5, <1>6, <1>7, <1>8, <1>9, <1>10 DEF Next

(* When open_clientfd or open_listenfd returns, whether it has found a     *)
(* socket or failed, and whatever has failed on the way, the descriptors   *)
(* open are those the caller was given and has not closed and the one it   *)
(* gets now; and there is one list of addresses that nobody will free for  *)
(* each close that has reported an error, and no other.                    *)
THEOREM DescriptorsKept == Spec => []NothingLeaks
<1>1. IInv => NothingLeaks
  BY OpenAssumption DEF IInv, TypeOK, NothingLeaks, Given, Held, InUse, Walking, Passed
<1> QED
  BY SocketInit, SocketStep, <1>1, PTL DEF Spec
-----------------------------------------------------------------------------
Calling == fcyc \in {"clear", "read", "sample", "sort", "test", "exited"}
Sampled == fcyc \in {"sort", "test"}

BestTypes ==
    /\ kbest \in Nat \ {0} /\ cache_size \in Nat /\ cache_block \in Nat /\ cache_buf \in Int
    /\ samplecount \in Nat /\ cptr \in Nat
    /\ Calling => values \in [1..kbest -> Int] /\ taken \in [1..samplecount -> Int]
    /\ fcyc \in {"idle", "returned", "clear", "read", "sample", "sort", "test", "exited"}

(* A buffer that exists has the size that is configured now.               *)
BufferInv ==
    /\ cache_buf \in {-1, cache_size}
    /\ fcyc = "read" => cache_buf = cache_size

(* The filled part of values is in order, but for the element that is being*)
(* inserted, which is below nothing that stands to its left.               *)
SortInv ==
    /\ Sampled => pos \in 1..kbest /\ pos <= samplecount /\ samplecount > 0
    /\ Calling => \A x, y \in 1..K!Filled :
          x < y /\ (fcyc = "sort" => y # pos) => values[x] <= values[y]

(* It holds samples only, among them one that is least.                    *)
LeastInv ==
    /\ Calling => \A x \in 1..K!Filled : \E k \in 1..samplecount : values[x] = taken[k]
    /\ Calling /\ samplecount > 0 =>
          \E x \in 1..K!Filled : \A k \in 1..samplecount : values[x] <= taken[k]

BestInv == BestTypes /\ BufferInv /\ SortInv /\ LeastInv /\ K!BestIsLeast

-----------------------------------------------------------------------------
LEMMA FilledType ==
    ASSUME BestTypes
    PROVE  /\ K!Filled \in Nat /\ K!Filled <= kbest /\ K!Filled <= samplecount
           /\ samplecount > 0 => K!Filled > 0
  BY DEF BestTypes, K!Filled

LEMMA BestInit == ASSUME K!KBestAssumption, K!Init PROVE BestInv
  BY DEF K!KBestAssumption, K!Init, BestInv, BestTypes, BufferInv, SortInv,
        LeastInv, K!BestIsLeast,
         Calling, Sampled

(* Between two calls only the buffer matters.                              *)
LEMMA ConfigureKeeps == ASSUME K!KBestAssumption, BestInv, K!Configure PROVE BestInv'
  BY DEF K!KBestAssumption, K!Configure, K!Buffer, BestInv, BestTypes, BufferInv,
        SortInv, LeastInv,
         K!BestIsLeast, Calling, Sampled

LEMMA StartKeeps == ASSUME BestInv, K!Start PROVE BestInv'
<1>1. K!Filled' = 0 /\ samplecount' = 0 /\ kbest' = kbest /\ fcyc' \in {"clear", "sample"}
  BY DEF K!Start, K!NextSample, K!Filled, BestInv, BestTypes, K!params
<1>2. BestTypes'
  BY <1>1 DEF K!Start, BestInv, BestTypes, K!params
<1>3. BufferInv' /\ K!BestIsLeast'
  BY <1>1 DEF K!Start, BestInv, BufferInv, K!BestIsLeast, K!params
<1>4. SortInv' /\ LeastInv'
  BY <1>1 DEF SortInv, LeastInv, Sampled, Calling
<1> QED BY <1>2, <1>3, <1>4 DEF BestInv

(* Steps that leave the samples and their buffer alone.                    *)
LEMMA QuietKeeps ==
    ASSUME K!KBestAssumption, BestInv, K!ClearStart \/ K!ClearRead \/ K!Again PROVE BestInv'
<1>1. /\ UNCHANGED <<K!params, values, samplecount, pos, least, taken>>
      /\ fcyc \in {"clear", "read", "test"} /\ fcyc' \in {"clear", "read", "sample", "exited"}
      /\ Calling /\ Calling' /\ ~Sampled'
  BY DEF K!ClearStart, K!ClearRead, K!Again, K!NextSample, Calling, Sampled,
        BestInv, BestTypes
<1>2. cptr' \in Nat
  <2>1. K!Stride \in Nat
    BY DEF K!Stride, K!SizeofInt, BestInv, BestTypes
  <2> QED BY <2>1 DEF K!ClearStart, K!ClearRead, K!Again, BestInv, BestTypes
<1>3. BestTypes' /\ BufferInv'
  BY <1>1, <1>2 DEF K!ClearStart, K!ClearRead, K!Again, K!NextSample, BestInv,
        BestTypes, BufferInv,
                    K!params, Calling
<1>4. SortInv' /\ LeastInv' /\ K!BestIsLeast'
  BY <1>1 DEF BestInv, SortInv, LeastInv, K!BestIsLeast, K!Filled, K!params,
        Calling, Sampled
<1> QED BY <1>3, <1>4 DEF BestInv

-----------------------------------------------------------------------------
(* A sample takes the first empty place, the last one when it is less than *)
(* what is there, or none.                                                 *)
LEMMA SampleTypes ==
    ASSUME K!KBestAssumption, BestInv, NEW val \in Samples, K!Sample(val)
    PROVE  /\ BestTypes' /\ BufferInv' /\ K!BestIsLeast'
           /\ Sampled' => pos' \in 1..kbest' /\ pos' <= samplecount' /\ samplecount' > 0
<1>1. /\ UNCHANGED <<K!params, cache_buf, cptr, least>> /\ fcyc = "sample" /\ fcyc' = "sort"
      /\ samplecount' = samplecount + 1 /\ Calling /\ Calling'
  BY DEF K!Sample, Calling
<1>2. val \in Int
  BY DEF K!KBestAssumption
<1>3. values' \in [1..kbest -> Int] /\ pos' \in 1..kbest /\ pos' <= samplecount'
  <2>1. /\ values \in [1..kbest -> Int] /\ kbest \in Nat \ {0} /\ samplecount \in Nat
        /\ samplecount' = samplecount + 1
    BY <1>1 DEF BestInv, BestTypes
  <2>2. CASE samplecount < kbest /\ pos' = samplecount + 1
             /\ values' = [values EXCEPT ![samplecount + 1] = val]
    BY <1>2, <2>1, <2>2
  <2>3. CASE samplecount >= kbest /\ pos' = kbest /\ values' = [values EXCEPT ![kbest] = val]
    BY <1>2, <2>1, <2>3
  <2>4. CASE samplecount >= kbest /\ pos' = 1 /\ values' = values
    BY <2>1, <2>4
  <2> QED BY <2>2, <2>3, <2>4 DEF K!Sample, K!Place
<1>4. taken' \in [1..samplecount' -> Int]
  BY <1>1, <1>2 DEF K!Sample, BestInv, BestTypes
<1>5. BestTypes'
  BY <1>1, <1>3, <1>4 DEF BestInv, BestTypes, K!params
<1>6. BufferInv' /\ K!BestIsLeast'
  BY <1>1 DEF BestInv, BufferInv, K!BestIsLeast, K!params
<1> QED BY <1>1, <1>3, <1>5, <1>6, SMT DEF BestInv, BestTypes, K!params

LEMMA SampleSorted ==
    ASSUME K!KBestAssumption, BestInv, NEW val \in Samples, K!Sample(val)
    PROVE  /\ \A x, y \in 1..K!Filled' : x < y /\ y # pos' => values'[x] <= values'[y]
<1>1. /\ kbest' = kbest /\ fcyc = "sample" /\ samplecount' = samplecount + 1 /\ Calling
      /\ kbest \in Nat \ {0} /\ samplecount \in Nat /\ values \in [1..kbest -> Int]
      /\ val \in Int
  BY DEF K!Sample, Calling, K!params, BestInv, BestTypes, K!KBestAssumption
<1>2. \A x, y \in 1..K!Filled : x < y => values[x] <= values[y]
  BY <1>1 DEF BestInv, SortInv
<1>3. CASE samplecount < kbest /\ pos' = samplecount + 1
           /\ values' = [values EXCEPT ![samplecount + 1] = val]
  BY <1>1, <1>2, <1>3 DEF K!Filled
<1>4. CASE samplecount >= kbest /\ val < values[kbest] /\ pos' = kbest
           /\ values' = [values EXCEPT ![kbest] = val]
  BY <1>1, <1>2, <1>4 DEF K!Filled
<1>5. CASE samplecount >= kbest /\ values' = values
  BY <1>1, <1>2, <1>5 DEF K!Filled
<1> QED BY <1>3, <1>4, <1>5 DEF K!Sample, K!Place

LEMMA SampleLeast ==
    ASSUME K!KBestAssumption, BestInv, NEW val \in Samples, K!Sample(val)
    PROVE  LeastInv'
<1>1. /\ kbest' = kbest /\ fcyc = "sample" /\ samplecount' = samplecount + 1 /\ Calling
      /\ kbest \in Nat \ {0} /\ samplecount \in Nat /\ values \in [1..kbest -> Int]
      /\ taken \in [1..samplecount -> Int] /\ val \in Int
  BY DEF K!Sample, Calling, K!params, BestInv, BestTypes, K!KBestAssumption
<1>2. /\ taken'[samplecount + 1] = val
      /\ \A k \in 1..samplecount : k \in 1..(samplecount + 1) /\ taken'[k] = taken[k]
      /\ samplecount + 1 \in 1..(samplecount + 1)
      /\ \A k \in 1..(samplecount + 1) : k = samplecount + 1 \/ k \in 1..samplecount
  BY <1>1 DEF K!Sample
<1>3. /\ \A x \in 1..K!Filled : \E k \in 1..samplecount : values[x] = taken[k]
      /\ samplecount > 0 => \E x \in 1..K!Filled : \A k \in 1..samplecount : values[x] <= taken[k]
  BY <1>1 DEF BestInv, LeastInv
<1>4. \A x, y \in 1..K!Filled : x < y => values[x] <= values[y]
  BY <1>1 DEF BestInv, SortInv
<1>5. ASSUME \A x \in 1..K!Filled' : values'[x] = val \/ \E h \in 1..K!Filled : values'[x] = values[h],
             NEW l \in 1..K!Filled', values'[l] <= val,
             \A k \in 1..samplecount : values'[l] <= taken[k]
      PROVE  LeastInv'
  <2>1. \A x \in 1..K!Filled' : \E k \in 1..(samplecount + 1) : values'[x] = taken'[k]
    BY <1>2, <1>3, <1>5
  <2>2. \A k \in 1..(samplecount + 1) : values'[l] <= taken'[k]
    BY <1>2, <1>5
  <2> QED BY <1>1, <2>1, <2>2 DEF LeastInv
<1>6. CASE samplecount < kbest /\ values' = [values EXCEPT ![samplecount + 1] = val]
  <2>1. /\ K!Filled = samplecount /\ K!Filled' = samplecount + 1 /\ values'[samplecount + 1] = val
        /\ \A x \in 1..samplecount : values'[x] = values[x] /\ values[x] \in Int
    BY <1>1, <1>6 DEF K!Filled
  <2>2. \A x \in 1..K!Filled' : values'[x] = val \/ \E h \in 1..K!Filled : values'[x] = values[h]
    BY <1>2, <2>1
  <2>3. CASE samplecount = 0
    BY <1>1, <1>2, <1>5, <2>1, <2>2, <2>3
  <2>4. CASE samplecount > 0
    <3>1. PICK x \in 1..K!Filled : \A k \in 1..samplecount : values[x] <= taken[k]
      BY <1>3, <2>4
    <3>2. CASE values[x] <= val
      BY <1>2, <1>5, <2>1, <2>2, <3>1, <3>2
    <3>3. CASE val < values[x]
      <4>1. \A k \in 1..samplecount : val <= taken[k]
        BY <1>1, <2>1, <3>1, <3>3
      <4>2. samplecount + 1 \in 1..K!Filled' /\ values'[samplecount + 1] <= val
        BY <1>1, <2>1
      <4>3. \A k \in 1..samplecount : values'[samplecount + 1] <= taken[k]
        BY <2>1, <4>1
      <4> QED BY <1>5, <2>2, <4>2, <4>3
    <3> QED BY <1>1, <2>1, <3>1, <3>2, <3>3
  <2> QED BY <1>1, <2>3, <2>4
<1>7. CASE samplecount >= kbest /\ val < values[kbest]
           /\ values' = [values EXCEPT ![kbest] = val]
  <2>1. /\ K!Filled = kbest /\ K!Filled' = kbest /\ kbest \in 1..K!Filled /\ values'[kbest] = val
        /\ \A x \in 1..K!Filled : values[x] \in Int /\ (x # kbest => values'[x] = values[x])
    BY <1>1, <1>7 DEF K!Filled
  <2>2. \A x \in 1..K!Filled' : values'[x] = val \/ \E h \in 1..K!Filled : values'[x] = values[h]
    BY <2>1
  <2>3. PICK x \in 1..K!Filled : \A k \in 1..samplecount : values[x] <= taken[k]
    BY <1>1, <1>3, <1>7
  <2>4. CASE x # kbest /\ values[x] <= val
    BY <1>5, <2>1, <2>2, <2>3, <2>4
  <2>5. CASE x = kbest \/ val < values[x]
    <3>1. \A k \in 1..samplecount : val <= taken[k]
      BY <1>1, <1>7, <2>1, <2>3, <2>5
    <3> QED BY <1>1, <1>5, <2>1, <2>2, <3>1
  <2> QED BY <1>1, <2>1, <2>3, <2>4, <2>5
<1>8. CASE samplecount >= kbest /\ val >= values[kbest] /\ values' = values
  <2>1. /\ K!Filled = kbest /\ K!Filled' = kbest /\ kbest \in 1..K!Filled
        /\ \A x \in 1..K!Filled : values[x] \in Int
    BY <1>1, <1>8 DEF K!Filled
  <2>2. PICK x \in 1..K!Filled : \A k \in 1..samplecount : values[x] <= taken[k]
    BY <1>1, <1>3, <1>8
  <2>3. values[x] <= values[kbest]
    BY <1>1, <1>4, <2>1, <2>2
  <2>4. values[x] <= val
    BY <1>1, <1>8, <2>1, <2>2, <2>3
  <2> QED BY <1>5, <1>8, <2>1, <2>2, <2>4
<1> QED BY <1>6, <1>7, <1>8 DEF K!Sample, K!Place

LEMMA SampleKeeps ==
    ASSUME K!KBestAssumption, BestInv, NEW val \in Samples, K!Sample(val) PROVE BestInv'
  BY SampleTypes, SampleSorted, SampleLeast DEF BestInv, SortInv, K!Sample, Sampled

-----------------------------------------------------------------------------
(* A swap moves the new sample one place down.                             *)
LEMMA SwapKeeps == ASSUME BestInv, K!Swap PROVE BestInv'
<1>1. /\ UNCHANGED <<K!params, cache_buf, samplecount, cptr, fcyc, least, taken>>
      /\ fcyc = "sort" /\ Calling /\ Calling' /\ Sampled /\ Sampled' /\ K!Filled' = K!Filled
      /\ pos \in 1..kbest /\ pos > 1 /\ pos <= samplecount /\ pos' = pos - 1
      /\ kbest \in Nat \ {0} /\ samplecount \in Nat /\ samplecount > 0
      /\ values \in [1..kbest -> Int]
  BY DEF K!Swap, Calling, Sampled, K!Filled, K!params, BestInv, BestTypes, SortInv
<1>2. /\ values' = [values EXCEPT ![pos - 1] = values[pos], ![pos] = values[pos - 1]]
      /\ values[pos - 1] > values[pos]
  BY DEF K!Swap
<1>3. K!Filled \in Nat /\ K!Filled <= kbest /\ pos <= K!Filled
  BY <1>1 DEF K!Filled
<1>4. /\ values' \in [1..kbest -> Int]
      /\ values'[pos - 1] = values[pos] /\ values'[pos] = values[pos - 1]
      /\ \A x \in 1..kbest : x # pos /\ x # pos - 1 => values'[x] = values[x]
  BY <1>1, <1>2
<1>5. BestTypes' /\ BufferInv' /\ K!BestIsLeast'
  BY <1>1, <1>4 DEF BestInv, BestTypes, BufferInv, K!BestIsLeast, K!params, Calling
<1>6. SortInv'
  <2>1. \A x, y \in 1..K!Filled : x < y /\ y # pos => values[x] <= values[y]
    BY <1>1 DEF BestInv, SortInv
  <2>2. ASSUME NEW x \in 1..K!Filled, NEW y \in 1..K!Filled, x < y, y # pos - 1
        PROVE  values'[x] <= values'[y]
    BY <1>1, <1>2, <1>3, <1>4, <2>1, <2>2, SMTT(30)
  <2> QED BY <1>1, <2>2 DEF SortInv, K!params
<1>7. LeastInv'
  <2>1. \A x \in 1..K!Filled : \E k \in 1..samplecount : values[x] = taken[k]
    BY <1>1 DEF BestInv, LeastInv
  <2>2. PICK l \in 1..K!Filled : \A k \in 1..samplecount : values[l] <= taken[k]
    BY <1>1 DEF BestInv, LeastInv
  <2>3. \A x \in 1..K!Filled : \E h \in 1..K!Filled : values'[x] = values[h]
    BY <1>1, <1>3, <1>4
  <2>4. \E h \in 1..K!Filled : values'[h] = values[l]
    BY <1>1, <1>3, <1>4
  <2>5. \A x \in 1..K!Filled : \E k \in 1..samplecount : values'[x] = taken[k]
    BY <2>1, <2>3
  <2>6. \E h \in 1..K!Filled : \A k \in 1..samplecount : values'[h] <= taken[k]
    BY <2>2, <2>4
  <2> QED BY <1>1, <2>5, <2>6 DEF LeastInv
<1> QED BY <1>5, <1>6, <1>7 DEF BestInv

(* When the turn of the loop is not taken the whole filled part is sorted. *)
LEMMA SortEndsKeeps == ASSUME BestInv, K!SortEnds PROVE BestInv'
<1>1. /\ UNCHANGED <<K!params, cache_buf, values, samplecount, pos, cptr, least, taken>>
      /\ fcyc = "sort" /\ fcyc' = "test" /\ Calling /\ Calling' /\ Sampled /\ Sampled'
      /\ K!Filled' = K!Filled
  BY DEF K!SortEnds, Calling, Sampled, K!Filled, K!params
<1>2. /\ kbest \in Nat \ {0} /\ values \in [1..kbest -> Int] /\ pos \in 1..kbest
      /\ samplecount \in Nat /\ (pos > 1 => values[pos - 1] <= values[pos])
      /\ \A x, y \in 1..K!Filled : x < y /\ y # pos => values[x] <= values[y]
  BY <1>1 DEF K!SortEnds, BestInv, BestTypes, SortInv
<1>3. K!Filled \in Nat /\ K!Filled <= kbest
  BY <1>2 DEF K!Filled
<1>4. ASSUME NEW x \in 1..K!Filled, NEW y \in 1..K!Filled, x < y
      PROVE  values[x] <= values[y]
  <2>1. CASE y # pos
    BY <1>2, <1>4, <2>1
  <2>2. CASE y = pos /\ x = pos - 1
    BY <1>2, <1>4, <2>2
  <2>3. CASE y = pos /\ x < pos - 1
    <3>1. values[x] <= values[pos - 1] /\ values[pos - 1] <= values[pos]
      BY <1>2, <1>3, <1>4, <2>3
    <3>2. values[x] \in Int /\ values[pos - 1] \in Int /\ values[pos] \in Int
      BY <1>2, <1>3, <1>4, <2>3
    <3> QED BY <2>3, <3>1, <3>2
  <2> QED BY <1>2, <1>3, <1>4, <2>1, <2>2, <2>3
<1>5. SortInv'
  BY <1>1, <1>4 DEF BestInv, SortInv, K!params
<1>6. BestTypes' /\ BufferInv' /\ LeastInv' /\ K!BestIsLeast'
  BY <1>1 DEF BestInv, BestTypes, BufferInv, LeastInv, K!BestIsLeast, K!params, Calling
<1> QED BY <1>5, <1>6 DEF BestInv

(* values[1] is then the least of all samples.                             *)
LEMMA ReturnKeeps == ASSUME BestInv, K!Return PROVE BestInv'
<1>1. /\ UNCHANGED <<K!params, cache_buf, values, samplecount, pos, cptr, taken>>
      /\ fcyc = "test" /\ fcyc' = "returned" /\ least' = values[1]
      /\ Calling /\ Sampled /\ ~Calling' /\ ~Sampled'
  BY DEF K!Return, K!Best, Calling, Sampled
<1>2. /\ kbest \in Nat \ {0} /\ values \in [1..kbest -> Int] /\ samplecount \in Nat
      /\ samplecount > 0 /\ taken \in [1..samplecount -> Int]
      /\ \A x, y \in 1..K!Filled : x < y => values[x] <= values[y]
  BY <1>1 DEF BestInv, BestTypes, SortInv
<1>3. K!Filled \in Nat /\ 1 \in 1..K!Filled /\ K!Filled <= kbest
  BY <1>2 DEF K!Filled
<1>4. \E k \in 1..samplecount : values[1] = taken[k]
  BY <1>1, <1>3 DEF BestInv, LeastInv
<1>5. PICK l \in 1..K!Filled : \A k \in 1..samplecount : values[l] <= taken[k]
  BY <1>1, <1>2 DEF BestInv, LeastInv
<1>6. values[1] <= values[l] /\ values[1] \in Int /\ values[l] \in Int
  BY <1>2, <1>3
<1>7. \A k \in 1..samplecount : values[1] <= taken[k]
  BY <1>2, <1>5, <1>6
<1>8. K!BestIsLeast'
  BY <1>1, <1>4, <1>7 DEF K!BestIsLeast
<1>9. BestTypes' /\ BufferInv' /\ SortInv' /\ LeastInv'
  BY <1>1 DEF BestInv, BestTypes, BufferInv, SortInv, LeastInv, K!params
<1> QED BY <1>8, <1>9 DEF BestInv

-----------------------------------------------------------------------------
LEMMA BestStep == ASSUME K!KBestAssumption PROVE BestInv /\ [K!Next]_(K!vars) => BestInv'
<1> SUFFICES ASSUME BestInv, [K!Next]_(K!vars) PROVE BestInv'
  OBVIOUS
<1>1. CASE K!Configure
  BY <1>1, ConfigureKeeps
<1>2. CASE K!Start
  BY <1>2, StartKeeps
<1>3. CASE K!ClearStart \/ K!ClearRead \/ K!Again
  BY <1>3, QuietKeeps
<1>4. ASSUME NEW val \in Samples, K!Sample(val) PROVE BestInv'
  BY <1>4, SampleKeeps
<1>5. CASE K!Swap
  BY <1>5, SwapKeeps
<1>6. CASE K!SortEnds
  BY <1>6, SortEndsKeeps
<1>7. CASE K!Return
  BY <1>7, ReturnKeeps
<1>8. CASE UNCHANGED K!vars
  BY <1>8 DEF K!vars, K!params, BestInv, BestTypes, BufferInv, SortInv, LeastInv,
        K!BestIsLeast,
              Calling, Sampled, K!Filled
<1> QED BY <1>1, <1>2, <1>3, <1>4, <1>5, <1>6, <1>7, <1>8 DEF K!Next, K!Fcyc

-----------------------------------------------------------------------------
(* How many of the first m elements are within a bound.                    *)
Within(f, m, b) == Cardinality({x \in 1..m : f[x] <= b})

LEMMA CardinalitySame == \A T : K!Cardinality(T) = Cardinality(T)
  BY Zenon DEF K!Cardinality, Cardinality

LEMMA WithinType ==
    ASSUME NEW f, NEW m \in Nat, NEW b
    PROVE  /\ Within(f, m, b) \in Nat /\ Within(f, m, b) <= m
           /\ Within(f, m, b) = m => \A x \in 1..m : f[x] <= b
           /\ (\A x \in 1..m : f[x] <= b) => Within(f, m, b) = m
<1> DEFINE T == {x \in 1..m : f[x] <= b}
<1>1. IsFiniteSet(1..m) /\ Cardinality(1..m) = m
  BY FS_Interval
<1>2. T \in SUBSET (1..m)
  OBVIOUS
<1>3. /\ Cardinality(T) \in Nat /\ Cardinality(T) <= m
      /\ m = Cardinality(T) => 1..m = T
  BY <1>1, <1>2, FS_Subset, FS_CardinalityType
<1>4. (\A x \in 1..m : f[x] <= b) => T = 1..m
  OBVIOUS
<1>5. T = 1..m => \A x \in 1..m : f[x] <= b
  OBVIOUS
<1>6. Within(f, m, b) = Cardinality(T)
  BY DEF Within
<1> HIDE DEF T
<1> QED BY <1>1, <1>3, <1>4, <1>5, <1>6

LEMMA WithinSame ==
    ASSUME NEW f, NEW g, NEW m, NEW b, \A x \in 1..m : (f[x] <= b) <=> (g[x] <= b)
    PROVE  Within(f, m, b) = Within(g, m, b)
<1>1. {x \in 1..m : f[x] <= b} = {x \in 1..m : g[x] <= b}
  OBVIOUS
<1> QED BY <1>1 DEF Within

(* One element comes to be within the bound.                               *)
LEMMA WithinMore ==
    ASSUME NEW f, NEW g, NEW m \in Nat, NEW n2 \in Nat, NEW b, NEW k \in 1..n2,
           m <= n2, k \in 1..m => ~(f[k] <= b), g[k] <= b,
           \A x \in 1..n2 : x # k => ((g[x] <= b) <=> (x <= m /\ f[x] <= b))
    PROVE  Within(g, n2, b) = Within(f, m, b) + 1
<1> DEFINE T == {x \in 1..m : f[x] <= b}
           U == {x \in 1..n2 : g[x] <= b}
<1>1. IsFiniteSet(T)
  <2>1. T \in SUBSET (1..m)
    OBVIOUS
  <2>2. IsFiniteSet(1..m)
    BY FS_Interval
  <2> HIDE DEF T
  <2> QED BY <2>1, <2>2, FS_Subset
<1>2. U = T \union {k} /\ k \notin T
  OBVIOUS
<1>3. Within(f, m, b) = Cardinality(T) /\ Within(g, n2, b) = Cardinality(U)
  BY DEF Within
<1> HIDE DEF T, U
<1> QED BY <1>1, <1>2, <1>3, FS_AddElement

(* Two neighbours change places.                                           *)
LEMMA WithinSwapped ==
    ASSUME NEW f, NEW g, NEW m \in Nat, NEW b, NEW a \in 1..m, NEW c \in 1..m, a # c,
           g[a] = f[c], g[c] = f[a], \A x \in 1..m : x # a /\ x # c => g[x] = f[x]
    PROVE  Within(g, m, b) = Within(f, m, b)
<1> DEFINE T == {x \in 1..m : f[x] <= b}
           U == {x \in 1..m : g[x] <= b}
<1>1. IsFiniteSet(T)
  <2>1. T \in SUBSET (1..m)
    OBVIOUS
  <2>2. IsFiniteSet(1..m)
    BY FS_Interval
  <2> HIDE DEF T
  <2> QED BY <2>1, <2>2, FS_Subset
<1>2. CASE (f[a] <= b) <=> (f[c] <= b)
  BY <1>2, WithinSame
<1>3. CASE f[a] <= b /\ ~(f[c] <= b)
  <2>1. U = (T \ {a}) \union {c} /\ a \in T /\ c \notin T
    BY <1>3
  <2> HIDE DEF T, U
  <2>2. IsFiniteSet(T \ {a}) /\ Cardinality(T \ {a}) = Cardinality(T) - 1
    BY <1>1, <2>1, FS_RemoveElement
  <2>3. Cardinality(U) = Cardinality(T \ {a}) + 1
    BY <2>1, <2>2, FS_AddElement
  <2>4. Cardinality(T) \in Nat
    BY <1>1, FS_CardinalityType
  <2> QED BY <2>2, <2>3, <2>4 DEF Within, T, U
<1>4. CASE f[c] <= b /\ ~(f[a] <= b)
  <2>1. U = (T \ {c}) \union {a} /\ c \in T /\ a \notin T
    BY <1>4
  <2> HIDE DEF T, U
  <2>2. IsFiniteSet(T \ {c}) /\ Cardinality(T \ {c}) = Cardinality(T) - 1
    BY <1>1, <2>1, FS_RemoveElement
  <2>3. Cardinality(U) = Cardinality(T \ {c}) + 1
    BY <2>1, <2>2, FS_AddElement
  <2>4. Cardinality(T) \in Nat
    BY <1>1, FS_CardinalityType
  <2> QED BY <2>2, <2>3, <2>4 DEF Within, T, U
<1> QED BY <1>2, <1>3, <1>4

-----------------------------------------------------------------------------
(* For every bound the filled part of values has as many elements within   *)
(* it as there are samples within it, up to kbest; and no sample is taken  *)
(* beyond maxsamples, but for the first.                                   *)
UpTo(c) == IF c < kbest THEN c ELSE kbest

SmallestInv ==
    Calling => \A b \in Int : Within(values, K!Filled, b) = UpTo(Within(taken, samplecount, b))

LimitInv ==
    /\ fcyc \in {"clear", "read", "sample"} => samplecount = 0 \/ samplecount < maxsamples
    /\ Sampled => samplecount = 1 \/ samplecount <= maxsamples
    /\ maxsamples \in Nat

KBestInv == BestInv /\ SmallestInv /\ LimitInv /\ K!StopsRight

LEMMA SmallestInit == ASSUME K!KBestAssumption, K!Init PROVE SmallestInv /\ LimitInv /\ K!StopsRight
  BY DEF K!KBestAssumption, K!Init, SmallestInv, LimitInv, K!StopsRight, Calling,
        Sampled

(* A sample within the bound counts once more, unless kbest values are     *)
(* within it already.                                                      *)
LEMMA SampleCounts ==
    ASSUME K!KBestAssumption, BestInv, SmallestInv, NEW val \in Samples, K!Sample(val)
    PROVE  SmallestInv'
<1>1. /\ kbest' = kbest /\ fcyc = "sample" /\ samplecount' = samplecount + 1 /\ Calling
      /\ kbest \in Nat \ {0} /\ samplecount \in Nat /\ values \in [1..kbest -> Int]
      /\ taken \in [1..samplecount -> Int] /\ val \in Int
  BY DEF K!Sample, Calling, K!params, BestInv, BestTypes, K!KBestAssumption
<1>2. /\ taken'[samplecount + 1] = val
      /\ \A x \in 1..samplecount : taken'[x] = taken[x]
  BY <1>1 DEF K!Sample
<1>3. \A x, y \in 1..K!Filled : x < y => values[x] <= values[y]
  BY <1>1 DEF BestInv, SortInv
<1> SUFFICES ASSUME NEW b \in Int
             PROVE  Within(values', K!Filled', b) = UpTo(Within(taken', samplecount + 1, b))
  BY <1>1 DEF SmallestInv, UpTo
<1> DEFINE V == Within(values, K!Filled, b)
           T == Within(taken, samplecount, b)
<1>4. V = UpTo(T)
  BY <1>1 DEF SmallestInv
<1>5. T \in Nat /\ T <= samplecount
  BY <1>1, WithinType
<1>6. IF val <= b THEN Within(taken', samplecount + 1, b) = T + 1
                  ELSE Within(taken', samplecount + 1, b) = T
  <2>1. CASE val <= b
    <3> DEFINE g == taken'
               n2 == samplecount + 1
    <3>1. /\ samplecount \in Nat /\ n2 \in Nat /\ n2 \in 1..n2 /\ samplecount <= n2
          /\ ~(n2 \in 1..samplecount) /\ g[n2] <= b
          /\ \A x \in 1..n2 : x # n2 => ((g[x] <= b) <=> (x <= samplecount /\ taken[x] <= b))
      BY <1>1, <1>2, <2>1
    <3> HIDE DEF g, n2
    <3>2. Within(g, n2, b) = Within(taken, samplecount, b) + 1
      BY <3>1, WithinMore
    <3> QED BY <2>1, <3>2 DEF g, n2
  <2>2. CASE ~(val <= b)
    <3>1. {x \in 1..(samplecount + 1) : taken'[x] <= b} = {x \in 1..samplecount : taken[x] <= b}
      BY <1>1, <1>2, <2>2
    <3> QED BY <2>2, <3>1 DEF Within
  <2> QED BY <2>1, <2>2
<1> HIDE DEF V, T
<1>7. CASE samplecount < kbest /\ values' = [values EXCEPT ![samplecount + 1] = val]
  <2>1. K!Filled = samplecount /\ K!Filled' = samplecount + 1
    BY <1>1, <1>7 DEF K!Filled
  <2>2. /\ values'[samplecount + 1] = val
        /\ \A x \in 1..samplecount : values'[x] = values[x]
    BY <1>1, <1>7
  <2>3. V = T /\ T < kbest
    BY <1>1, <1>4, <1>5, <1>7 DEF UpTo
  <2>4. CASE val <= b
    <3>1. Within(values', samplecount + 1, b) = V + 1
      <4> DEFINE g == values'
                 n2 == samplecount + 1
      <4>1. /\ samplecount \in Nat /\ n2 \in Nat /\ n2 \in 1..n2 /\ samplecount <= n2
            /\ ~(n2 \in 1..samplecount) /\ g[n2] <= b
            /\ \A x \in 1..n2 : x # n2 => ((g[x] <= b) <=> (x <= samplecount /\ values[x] <= b))
        BY <1>1, <2>2, <2>4
      <4> HIDE DEF g, n2
      <4>2. Within(g, n2, b) = Within(values, samplecount, b) + 1
        BY <4>1, WithinMore
      <4> QED BY <2>1, <4>2 DEF g, n2, V
    <3> QED BY <1>1, <1>5, <1>6, <2>1, <2>3, <2>4, <3>1 DEF UpTo
  <2>5. CASE ~(val <= b)
    <3>1. {x \in 1..(samplecount + 1) : values'[x] <= b} = {x \in 1..samplecount : values[x] <= b}
      BY <1>1, <2>2, <2>5
    <3>2. Within(values', samplecount + 1, b) = V
      BY <2>1, <3>1 DEF Within, V
    <3> QED BY <1>1, <1>5, <1>6, <2>1, <2>3, <2>5, <3>2 DEF UpTo
  <2> QED BY <2>4, <2>5
<1>8. CASE samplecount >= kbest
  <2>1. K!Filled = kbest /\ K!Filled' = kbest /\ kbest \in 1..kbest
    BY <1>1, <1>8 DEF K!Filled
  <2>2. ASSUME values[kbest] <= b PROVE V = kbest
    <3>1. ASSUME NEW x \in 1..kbest PROVE values[x] <= b
      <4>1. values[x] <= values[kbest] /\ values[x] \in Int /\ values[kbest] \in Int
        BY <1>1, <1>3, <2>1
      <4> QED BY <2>2, <4>1
    <3> QED BY <1>1, <2>1, <3>1, WithinType DEF V
  <2>3. ASSUME ~(values[kbest] <= b) PROVE V < kbest
    <3>1. V \in Nat /\ V <= kbest /\ V # kbest
      BY <1>1, <2>1, <2>3, WithinType DEF V
    <3> QED BY <1>1, <3>1
  <2>4. CASE val < values[kbest] /\ values' = [values EXCEPT ![kbest] = val]
    <3>1. /\ values'[kbest] = val /\ values[kbest] \in Int
          /\ \A x \in 1..kbest : x # kbest => values'[x] = values[x]
      BY <1>1, <2>1, <2>4
    <3>2. CASE val <= b /\ ~(values[kbest] <= b)
      <4>1. Within(values', kbest, b) = V + 1
        <5> DEFINE g == values'
        <5>1. /\ kbest \in Nat /\ kbest <= kbest /\ kbest \in 1..kbest
              /\ kbest \in 1..kbest => ~(values[kbest] <= b)
              /\ g[kbest] <= b
              /\ \A x \in 1..kbest : x # kbest => ((g[x] <= b) <=> (x <= kbest /\ values[x] <= b))
          BY <1>1, <2>1, <3>1, <3>2
        <5> HIDE DEF g
        <5>2. Within(g, kbest, b) = Within(values, kbest, b) + 1
          BY <5>1, WithinMore
        <5> QED BY <2>1, <5>2 DEF g, V
      <4>2. V < kbest
        BY <2>3, <3>2
      <4>3. V = T /\ T < kbest /\ T \in Nat /\ kbest \in Nat
        BY <1>1, <1>4, <1>5, <4>2 DEF UpTo
      <4>4. Within(taken', samplecount + 1, b) = T + 1
        BY <1>6, <3>2
      <4>5. UpTo(T + 1) = T + 1
        BY <4>3 DEF UpTo
      <4> QED BY <2>1, <4>1, <4>3, <4>4, <4>5
    <3>3. CASE (val <= b) <=> (values[kbest] <= b)
      <4>1. Within(values', kbest, b) = V
        <5>1. \A x \in 1..kbest : (values'[x] <= b) <=> (values[x] <= b)
          BY <3>1, <3>3
        <5> QED BY <2>1, <5>1, WithinSame DEF V
      <4>2. CASE val <= b
        BY <1>1, <1>4, <1>5, <1>6, <2>1, <2>2, <3>3, <4>1, <4>2 DEF UpTo
      <4>3. CASE ~(val <= b)
        BY <1>1, <1>4, <1>6, <2>1, <4>1, <4>3
      <4> QED BY <4>2, <4>3
    <3> QED BY <1>1, <2>4, <3>1, <3>2, <3>3
  <2>5. CASE val >= values[kbest] /\ values' = values
    <3>1. values[kbest] \in Int /\ Within(values', kbest, b) = V
      BY <1>1, <2>1, <2>5 DEF V
    <3>2. CASE val <= b
      <4>1. V = kbest
        BY <1>1, <2>2, <2>5, <3>1, <3>2
      <4> QED BY <1>1, <1>4, <1>5, <1>6, <2>1, <3>1, <3>2, <4>1 DEF UpTo
    <3>3. CASE ~(val <= b)
      BY <1>1, <1>4, <1>6, <2>1, <3>1, <3>3
    <3> QED BY <3>2, <3>3
  <2> QED BY <1>1, <1>8, <2>4, <2>5 DEF K!Sample, K!Place
<1> QED BY <1>1, <1>7, <1>8 DEF K!Sample, K!Place

(* The values change places; those within a bound are as many.             *)
LEMMA SwapCounts == ASSUME BestInv, SmallestInv, K!Swap PROVE SmallestInv'
<1>1. /\ UNCHANGED <<K!params, samplecount, taken>> /\ Calling
      /\ pos \in 1..kbest /\ pos > 1 /\ pos <= samplecount
      /\ kbest \in Nat \ {0} /\ samplecount \in Nat /\ values \in [1..kbest -> Int]
      /\ values' = [values EXCEPT ![pos - 1] = values[pos], ![pos] = values[pos - 1]]
  BY DEF K!Swap, Calling, Sampled, BestInv, BestTypes, SortInv
<1>2. /\ K!Filled \in Nat /\ K!Filled <= kbest /\ pos \in 1..K!Filled /\ pos - 1 \in 1..K!Filled
      /\ K!Filled' = K!Filled /\ kbest' = kbest
  BY <1>1 DEF K!Filled, K!params
<1>3. /\ values'[pos - 1] = values[pos] /\ values'[pos] = values[pos - 1]
      /\ \A x \in 1..K!Filled : x # pos - 1 /\ x # pos => values'[x] = values[x]
  BY <1>1, <1>2
<1> HIDE DEF K!Filled
<1>4. ASSUME NEW b \in Int
      PROVE  Within(values', K!Filled, b) = Within(values, K!Filled, b)
  <2>1. pos - 1 # pos
    BY <1>1
  <2> QED BY <1>2, <1>3, <2>1, WithinSwapped
<1> QED BY <1>1, <1>2, <1>4 DEF SmallestInv, UpTo

(* A call that returns before the limit has kbest values, and as many      *)
(* samples, within epsilon of the first.                                   *)
LEMMA ReturnStops == ASSUME K!KBestAssumption, KBestInv, K!Return PROVE K!StopsRight'
<1>1. /\ UNCHANGED <<K!params, samplecount, taken>> /\ fcyc = "test" /\ fcyc' = "returned"
      /\ least' = values[1] /\ Calling /\ Sampled
      /\ K!has_converged \/ samplecount >= maxsamples
  BY DEF K!Return, K!Best, Calling, Sampled
<1>2. /\ kbest \in Nat \ {0} /\ values \in [1..kbest -> Int] /\ samplecount \in Nat
      /\ samplecount > 0 /\ taken \in [1..samplecount -> Int]
      /\ \A x, y \in 1..K!Filled : x < y => values[x] <= values[y]
      /\ EpsNum \in Nat /\ EpsDen \in Nat \ {0}
  BY <1>1 DEF KBestInv, BestInv, BestTypes, SortInv, K!KBestAssumption
<1>3. (samplecount = 1 \/ samplecount <= maxsamples) /\ maxsamples \in Nat
  BY <1>1 DEF KBestInv, LimitInv
<1> DEFINE close == {x \in 1..samplecount : EpsDen * taken[x] <= (EpsDen + EpsNum) * values[1]}
<1>4. ASSUME samplecount < maxsamples PROVE Cardinality(close) >= kbest
  <2>1. samplecount >= kbest /\ (EpsDen + EpsNum) * values[1] >= EpsDen * values[kbest]
    BY <1>1, <1>2, <1>3, <1>4 DEF K!has_converged
  <2>2. K!Filled = kbest /\ kbest \in 1..kbest /\ values[kbest] \in Int /\ 1 \in 1..kbest
    BY <1>2, <2>1 DEF K!Filled
  <2>3. \A x \in 1..kbest : values[x] <= values[kbest]
    BY <1>2, <2>2
  <2>4. Within(values, kbest, values[kbest]) = kbest
    BY <1>2, <2>3, WithinType
  <2>5. kbest = UpTo(Within(taken, samplecount, values[kbest]))
    BY <1>1, <2>2, <2>4 DEF KBestInv, SmallestInv
  <2>6. Within(taken, samplecount, values[kbest]) >= kbest
    BY <1>2, <2>5, WithinType DEF UpTo
  <2> DEFINE T == {x \in 1..samplecount : taken[x] <= values[kbest]}
  <2>7. ASSUME NEW x \in T PROVE x \in close
    <3>1. x \in 1..samplecount /\ taken[x] <= values[kbest] /\ taken[x] \in Int
      BY <1>2
    <3>2. EpsDen * taken[x] <= EpsDen * values[kbest]
      BY <1>2, <2>2, <3>1
    <3>3. EpsDen * taken[x] \in Int /\ EpsDen * values[kbest] \in Int
          /\ (EpsDen + EpsNum) * values[1] \in Int
      BY <1>2, <2>2, <3>1
    <3>4. EpsDen * taken[x] <= (EpsDen + EpsNum) * values[1]
      BY <2>1, <3>2, <3>3
    <3> QED BY <3>1, <3>4
  <2>8. IsFiniteSet(close)
    <3>1. close \in SUBSET (1..samplecount)
      OBVIOUS
    <3>2. IsFiniteSet(1..samplecount)
      BY <1>2, FS_Interval
    <3> HIDE DEF close
    <3> QED BY <3>1, <3>2, FS_Subset
  <2>9. Within(taken, samplecount, values[kbest]) = Cardinality(T)
    BY DEF Within
  <2>10. T \in SUBSET close
    BY <2>7
  <2> HIDE DEF close, T
  <2>11. Cardinality(T) <= Cardinality(close) /\ Cardinality(close) \in Nat
         /\ Cardinality(T) \in Nat
    BY <2>8, <2>10, FS_Subset, FS_CardinalityType
  <2> QED BY <1>2, <2>6, <2>9, <2>11
<1>5. K!Cardinality(close) = Cardinality(close)
  BY CardinalitySame
<1>6. (samplecount < maxsamples) => K!Cardinality(close) >= kbest
  BY <1>4, <1>5
<1> QED BY <1>1, <1>3, <1>6 DEF K!StopsRight, K!params

LEMMA KBestStep ==
    ASSUME K!KBestAssumption, KBestInv, [K!Next]_(K!vars) PROVE KBestInv'
<1>1. BestInv'
  BY BestStep DEF KBestInv
<1>2. CASE K!Configure \/ K!Start
  <2>1. CASE K!Configure
    <3>1. fcyc' = "idle" /\ maxsamples' \in Nat
      BY <2>1 DEF K!Configure, K!KBestAssumption
    <3>2. SmallestInv' /\ LimitInv' /\ K!StopsRight'
      BY <3>1 DEF SmallestInv, LimitInv, K!StopsRight, Calling, Sampled
    <3> QED BY <1>1, <3>2 DEF KBestInv
  <2>2. CASE K!Start
    <3>1. /\ samplecount' = 0 /\ kbest' = kbest /\ maxsamples' = maxsamples
          /\ fcyc' \in {"clear", "sample"} /\ Calling'
      BY <2>2 DEF K!Start, K!NextSample, K!params, Calling
    <3>2. kbest \in Nat \ {0}
      BY DEF KBestInv, BestInv, BestTypes
    <3>3. K!Filled' = 0
      BY <3>1, <3>2 DEF K!Filled
    <3>4. ASSUME NEW f, NEW b PROVE Within(f, 0, b) = 0
      BY WithinType
    <3>5. SmallestInv'
      BY <3>1, <3>2, <3>3, <3>4 DEF SmallestInv, UpTo
    <3>6. LimitInv' /\ K!StopsRight'
      BY <3>1 DEF KBestInv, LimitInv, K!StopsRight, Sampled
    <3> QED BY <1>1, <3>5, <3>6 DEF KBestInv
  <2> QED BY <1>2, <2>1, <2>2
<1>3. CASE K!ClearStart \/ K!ClearRead \/ K!Again \/ K!SortEnds
  <2>1. /\ UNCHANGED <<K!params, values, samplecount, taken>> /\ Calling /\ Calling'
    BY <1>3 DEF K!ClearStart, K!ClearRead, K!Again, K!SortEnds, K!NextSample, Calling
  <2>2. K!Filled' = K!Filled /\ kbest' = kbest /\ maxsamples' = maxsamples
    BY <2>1 DEF K!Filled, K!params
  <2>3. SmallestInv'
    BY <2>1, <2>2 DEF KBestInv, SmallestInv, UpTo
  <2>4. LimitInv'
    BY <1>3, <2>2 DEF K!ClearStart, K!ClearRead, K!Again, K!SortEnds, K!NextSample,
          KBestInv,
                      LimitInv, Sampled
  <2>5. K!StopsRight'
    BY <2>1 DEF K!StopsRight, Calling
  <2> QED BY <1>1, <2>3, <2>4, <2>5 DEF KBestInv
<1>4. ASSUME NEW val \in Samples, K!Sample(val) PROVE KBestInv'
  <2>1. SmallestInv'
    BY <1>4, SampleCounts DEF KBestInv
  <2>2. LimitInv' /\ K!StopsRight'
    BY <1>4 DEF K!Sample, K!params, KBestInv, BestInv, BestTypes, LimitInv,
          K!StopsRight, Sampled
  <2> QED BY <1>1, <2>1, <2>2 DEF KBestInv
<1>5. CASE K!Swap
  <2>1. SmallestInv'
    BY <1>5, SwapCounts DEF KBestInv
  <2>2. LimitInv' /\ K!StopsRight'
    BY <1>5 DEF K!Swap, K!params, KBestInv, LimitInv, K!StopsRight, Sampled
  <2> QED BY <1>1, <2>1, <2>2 DEF KBestInv
<1>6. CASE K!Return
  <2>1. K!StopsRight'
    BY <1>6, ReturnStops
  <2>2. SmallestInv' /\ LimitInv'
    BY <1>6 DEF K!Return, K!params, KBestInv, SmallestInv, LimitInv, Calling, Sampled
  <2> QED BY <1>1, <2>1, <2>2 DEF KBestInv
<1>7. CASE UNCHANGED K!vars
  <2>1. SmallestInv'
    BY <1>7 DEF K!vars, K!params, KBestInv, SmallestInv, Calling, UpTo, K!Filled
  <2>2. LimitInv' /\ K!StopsRight'
    BY <1>7 DEF K!vars, K!params, KBestInv, LimitInv, K!StopsRight, Sampled
  <2> QED BY <1>1, <2>1, <2>2 DEF KBestInv
<1> QED BY <1>2, <1>3, <1>4, <1>5, <1>6, <1>7 DEF K!Next, K!Fcyc

(* When the sort has ended the values are in order.                        *)
LEMMA SmallestHeld == ASSUME K!KBestAssumption, KBestInv PROVE K!KSmallest
<1> SUFFICES ASSUME fcyc = "test" PROVE K!KSmallest
  BY DEF K!KSmallest
<1>1. Calling
  BY DEF Calling
<1>2. kbest \in Nat \ {0} /\ samplecount \in Nat
  BY DEF KBestInv, BestInv, BestTypes
<1>3. \A x, y \in 1..K!Filled : x < y => values[x] <= values[y]
  BY <1>1 DEF KBestInv, BestInv, SortInv
<1>4. K!Filled \in Nat
  BY <1>2 DEF K!Filled
<1>5. \A x \in 2..K!Filled : values[x - 1] <= values[x]
  <2> HIDE DEF K!Filled
  <2> SUFFICES ASSUME NEW x \in 2..K!Filled PROVE values[x - 1] <= values[x]
    OBVIOUS
  <2>1. x - 1 \in 1..K!Filled /\ x \in 1..K!Filled /\ x - 1 < x
    BY <1>4
  <2> QED BY <1>3, <2>1
<1>6. ASSUME NEW b \in Samples
      PROVE  K!Cardinality({x \in 1..K!Filled : values[x] <= b}) =
                IF K!Cardinality({x \in 1..samplecount : taken[x] <= b}) < kbest
                THEN K!Cardinality({x \in 1..samplecount : taken[x] <= b}) ELSE kbest
  <2>1. b \in Int
    BY DEF K!KBestAssumption
  <2>2. Within(values, K!Filled, b) = UpTo(Within(taken, samplecount, b))
    BY <1>1, <2>1 DEF KBestInv, SmallestInv
  <2>3. Cardinality({x \in 1..K!Filled : values[x] <= b}) =
           UpTo(Cardinality({x \in 1..samplecount : taken[x] <= b}))
    BY <2>2 DEF Within
  <2>4. K!Cardinality({x \in 1..K!Filled : values[x] <= b}) =
           UpTo(K!Cardinality({x \in 1..samplecount : taken[x] <= b}))
    BY <2>3, CardinalitySame
  <2> QED BY <2>4 DEF UpTo
<1> QED BY <1>5, <1>6 DEF K!KSmallest

(* fcyc.c:60-176: the value that fcyc returns is a sample of this call and *)
(* none is less; values holds the K smallest samples in order; a call that *)
(* ends before maxsamples has K samples within epsilon of the result; and  *)
(* every int that clear() reads lies in the buffer, also after             *)
(* set_fcyc_cache_size.                                                    *)
THEOREM BestIsSound == SupportSpec => []BestSound
<1> DEFINE Inv == part = "fcyc" => KBestInv
<1>0. K!KBestAssumption
  BY Assumptions
<1>1. AnyInit => Inv
  <2>1. K!Init => KBestInv
    BY <1>0, BestInit, SmallestInit DEF KBestInv
  <2> QED BY <2>1 DEF AnyInit
<1>2. Inv /\ [SupportNext]_supportvars => Inv'
  <2> SUFFICES ASSUME Inv, [SupportNext]_supportvars, part' = "fcyc" PROVE KBestInv'
    OBVIOUS
  <2>1. part = "fcyc" /\ [K!Next]_(K!vars)
    <3>1. CASE SocketsNext
      BY <3>1 DEF SocketsNext
    <3>2. CASE WrappersNext
      BY <3>2 DEF WrappersNext
    <3>3. CASE OutputNext
      BY <3>3 DEF OutputNext
    <3>4. CASE FcycNext
      BY <3>4 DEF FcycNext
    <3>5. CASE HarnessNext
      BY <3>5 DEF HarnessNext
    <3>6. CASE UNCHANGED supportvars
      BY <3>6 DEF supportvars, kbestvars, K!vars, K!params
    <3> QED BY <3>1, <3>2, <3>3, <3>4, <3>5, <3>6 DEF SupportNext
  <2> QED BY <1>0, <2>1, KBestStep
<1>3. Inv => BestSound
  <2> SUFFICES ASSUME KBestInv PROVE K!InBuffer /\ K!KSmallest /\ K!BestIsLeast /\ K!StopsRight
    BY DEF BestSound
  <2>1. K!InBuffer
    BY DEF KBestInv, BestInv, BestTypes, BufferInv, K!InBuffer, K!SizeofInt
  <2>2. K!KSmallest
    BY <1>0, SmallestHeld
  <2>3. K!BestIsLeast /\ K!StopsRight
    BY DEF KBestInv, BestInv
  <2> QED BY <2>1, <2>2, <2>3
<1> QED BY <1>1, <1>2, <1>3, PTL DEF SupportSpec

-----------------------------------------------------------------------------
Commands == {"port", "start", "wait", "clear", "fetch", "direct", "compare", "kill_tiny",
             "refetch", "kill", "exit", "killed"}
Preparing == script \in {"port", "start", "wait"}
Working == script \in {"clear", "fetch", "direct", "compare", "kill_tiny", "refetch"}

(* The servers in the order in which they are started, and how many of     *)
(* them a section needs.                                                   *)
Rank == [x \in H!Servers |-> CASE x = "tiny" -> 1 [] x = "proxy" -> 2 [] OTHER -> 3]
Needed == IF test = 2 THEN 3 ELSE 2

HarnessTypes ==
    /\ test \in 1..3 /\ server \in 1..Needed /\ n \in Nat \ {0} /\ succeeded \in Nat
    /\ mishaps \in Nat /\ script \in Commands /\ blocked \in BOOLEAN
    /\ port \in [H!Servers -> Int]
    /\ proc \in [H!Servers -> {"none", "started", "up", "dead"}]
    /\ owner \in [H!Ports -> {"free", "stranger"} \union H!Servers]
    /\ got \in [{"proxy", "noproxy"} -> [H!Files -> {"good", "bad", "none"}]]
    /\ score \in [{"basic", "concurrency", "cache"} -> Int]

LoopInv ==
    /\ test = 1 /\ Working => n \in DOMAIN BasicList
    /\ test = 3 /\ script \in {"clear", "fetch"} => n \in DOMAIN CacheList
    /\ script \in {"kill_tiny", "refetch"} => test = 3
    /\ script = "direct" => test # 3
    /\ script = "exit" => test = 3

(* A server listens on its own port, and only servers that are up do.      *)
OwnerInv ==
    /\ \A x \in H!Servers : proc[x] = "up" => port[x] \in H!Ports /\ owner[port[x]] = x
    /\ \A q \in H!Ports : owner[q] \in H!Servers => proc[owner[q]] = "up" /\ port[owner[q]] = q

(* Where no stranger has been, none is.                                    *)
StrangerInv ==
    /\ intruded \in BOOLEAN /\ (mishaps = 0 => ~intruded)
    /\ ~intruded => \A q \in H!Ports : owner[q] # "stranger"

(* The servers that may run.                                               *)
Begun(x) ==
    CASE script \in {"port", "start"} -> Rank[x] < server
      [] script = "wait" -> Rank[x] <= server
      [] script = "refetch" -> x = "proxy"
      [] script = "exit" -> FALSE
      [] script = "killed" -> TRUE
      [] OTHER -> Rank[x] <= Needed

(* While nobody interferes: those that do, each on a port that was free.   *)
Ready ==
    /\ \A q \in H!Ports : owner[q] # "stranger"
    /\ Preparing => \A x \in H!Servers : Rank[x] < server => proc[x] = "up"
    /\ script \in {"start", "wait"} =>
          \A x, y \in H!Servers : Rank[x] < server /\ Rank[y] = server => port[x] # port[y]
    /\ script \in {"clear", "fetch", "direct", "kill_tiny"} \/ (script = "compare" /\ test # 3) =>
          \A x \in H!Servers : Rank[x] <= Needed => proc[x] = "up"
    /\ script = "refetch" => proc["proxy"] = "up"

ServerInv ==
    /\ \A x \in H!Servers : ~Begun(x) => proc[x] = "none"
    /\ mishaps = 0 => Ready

-----------------------------------------------------------------------------
(* No marks for the cache of a proxy without one, but from a stranger.     *)
CacheInv ==
    /\ test # 1 /\ Working => succeeded = 0
    /\ test = 3 /\ script \in {"fetch", "kill_tiny", "refetch"} => got["noproxy"][FETCH_FILE] = "none"
    /\ cached # {} => "caching" \in able
    /\ ~intruded =>
          /\ test = 3 /\ script = "compare" /\ got["noproxy"][FETCH_FILE] = "good" =>
                "caching" \in able
          /\ score["cache"] > 0 => "caching" \in able

(* Undisturbed, a binary file that does not come through costs a mark.     *)
BasicInv ==
    /\ test = 1 /\ Working => succeeded <= n - 1
    /\ mishaps = 0 /\ "binary" \notin able =>
          /\ test = 1 /\ Working /\ (\E k \in 1..(n - 1) : BasicList[k] \in Binaries) =>
                succeeded < n - 1
          /\ test = 1 /\ script \in {"direct", "compare"} /\ BasicList[n] \in Binaries =>
                got["proxy"][BasicList[n]] # "good"
          /\ test = 1 /\ script = "compare" => got["noproxy"][BasicList[n]] = "good"
          /\ score["basic"] < H!Marks["basic"]

Good(d, f) == got[d][f] = "good"

(* Undisturbed, a proxy that can do everything fails nowhere.              *)
Full == {"concurrent", "caching", "binary"} \subseteq able

AllSo ==
    /\ test = 1 /\ Working => succeeded = n - 1
    /\ test = 1 /\ script \in {"direct", "compare"} => Good("proxy", BasicList[n])
    /\ test = 1 /\ script = "compare" => Good("noproxy", BasicList[n])
    /\ test = 2 /\ script \in {"fetch", "compare"} => Good("noproxy", FETCH_FILE)
    /\ test = 2 /\ script = "compare" => Good("proxy", FETCH_FILE)
    /\ test = 3 /\ script \in {"clear", "fetch"} => \A k \in 1..(n - 1) : CacheList[k] \in cached
    /\ script \in {"kill_tiny", "refetch"} => FETCH_FILE \in cached
    /\ test = 3 /\ script = "compare" => Good("noproxy", FETCH_FILE)
    /\ test > 1 \/ script = "kill" => score["basic"] = 40
    /\ test > 2 \/ (test = 2 /\ script = "kill") => score["concurrency"] = 15
    /\ test = 3 /\ script \in {"kill", "exit"} => score["cache"] = 15

FullInv ==
    /\ "concurrent" \in able => ~blocked
    /\ mishaps = 0 /\ Full => AllSo

HarnessInv ==
    /\ HarnessTypes /\ LoopInv /\ OwnerInv /\ StrangerInv /\ ServerInv
    /\ CacheInv /\ BasicInv /\ FullInv

-----------------------------------------------------------------------------
LEMMA Ranks ==
    /\ Rank["tiny"] = 1 /\ Rank["proxy"] = 2 /\ Rank["nop"] = 3
    /\ H!Servers = {"tiny", "proxy", "nop"}
    /\ \A x \in H!Servers : Rank[x] \in 1..3
BY DEF Rank, H!Servers

LEMMA Sections ==
    ASSUME test \in 1..3
    PROVE  /\ test = 1 => H!Section = "basic"
           /\ test = 2 => H!Section = "concurrency"
           /\ test = 3 => H!Section = "cache"
BY DEF H!Section, H!Tests

LEMMA SectionStarts ==
    ASSUME test \in 1..3
    PROVE  /\ Len(H!Started(H!Section)) = Needed
           /\ server \in 1..Needed => H!Server \in H!Servers /\ Rank[H!Server] = server
           /\ H!Killed = {x \in H!Servers : Rank[x] <= Needed}
<1>1. test # 2 => H!Started(H!Section) = <<"tiny", "proxy">>
  BY Sections DEF H!Started
<1>2. test = 2 => H!Started(H!Section) = <<"tiny", "proxy", "nop">>
  BY Sections DEF H!Started
<1>3. CASE test # 2
  BY <1>1, <1>3, Ranks DEF Needed, H!Server, H!Killed
<1>4. CASE test = 2
  BY <1>2, <1>4, Ranks DEF Needed, H!Server, H!Killed
<1> QED BY <1>3, <1>4

LEMMA RankOne ==
    ASSUME NEW x \in H!Servers, NEW y \in H!Servers, Rank[x] = Rank[y] PROVE x = y
BY Ranks

(* The lists of files.                                                     *)
LEMMA ListOf ==
    ASSUME NEW T, NEW L \in Seq(T) PROVE Len(L) \in Nat /\ DOMAIN L = 1..Len(L)
OBVIOUS

LEMMA Lists ==
    ASSUME H!HarnessAssumption
    PROVE  /\ Len(BasicList) \in Nat /\ DOMAIN BasicList = 1..Len(BasicList)
           /\ Len(CacheList) \in Nat /\ DOMAIN CacheList = 1..Len(CacheList)
           /\ PORT_MAX \in Nat
<1>1. BasicList \in Seq(STRING) /\ CacheList \in Seq(STRING)
  BY Zenon DEF H!HarnessAssumption
<1>2. PORT_MAX \in Nat
  BY DEF H!HarnessAssumption
<1> QED BY <1>1, <1>2, ListOf, Zenon

LEMMA LeastExists ==
    ASSUME NEW T, T \subseteq Nat, T # {}
    PROVE  \E x \in T : \A y \in T : x <= y
<1> DEFINE R == OpToRel(<, Nat)
<1>1. IsWellFoundedOn(R, Nat)
  BY NatLessThanWellFounded
<1>2. \A x, y \in Nat : x < y => <<x, y>> \in R
  BY DEF OpToRel
<1> HIDE DEF R
<1>3. \E x \in T : \A y \in T : ~ (<<y, x>> \in R)
  BY <1>1, WFMin
<1>4. \E x \in T : \A y \in T : ~ (y < x)
  BY <1>2, <1>3
<1> QED BY <1>4

-----------------------------------------------------------------------------
LEMMA HarnessInit == ASSUME H!HarnessAssumption, H!Init PROVE HarnessInv
<1> USE Ranks, Lists DEF H!Init
<1>1. HarnessTypes
  <2>1. H!Nothing \in [H!Files -> {"good", "bad", "none"}]
    BY DEF H!Nothing
  <2>2. got \in [{"proxy", "noproxy"} -> [H!Files -> {"good", "bad", "none"}]]
    BY <2>1, got = [d \in {"proxy", "noproxy"} |-> H!Nothing], Zenon
  <2>3. score \in [{"basic", "concurrency", "cache"} -> Int]
    BY 0 \in Int
  <2>4. /\ port \in [H!Servers -> Int]
        /\ proc \in [H!Servers -> {"none", "started", "up", "dead"}]
    OBVIOUS
  <2>5. owner \in [H!Ports -> {"free", "stranger"} \union H!Servers]
    OBVIOUS
  <2>6. /\ test \in 1..3 /\ server \in 1..Needed /\ n \in Nat \ {0} /\ succeeded \in Nat
        /\ mishaps \in Nat /\ script \in Commands
    BY DEF Needed, Commands
  <2>7. blocked \in BOOLEAN
    OBVIOUS
  <2> QED BY <2>2, <2>3, <2>4, <2>5, <2>6, <2>7, Zenon DEF HarnessTypes
<1>2. LoopInv /\ OwnerInv /\ StrangerInv
  BY DEF LoopInv, OwnerInv, StrangerInv, Working
<1>3. ServerInv
  BY DEF ServerInv, Ready, Preparing, Begun
<1>4. CacheInv /\ FullInv
  BY DEF CacheInv, FullInv, AllSo, Working
<1>5. BasicInv
  BY DEF BasicInv, Working, H!Marks
<1> QED BY <1>1, <1>2, <1>3, <1>4, <1>5 DEF HarnessInv

(* What no server, no stranger and no background fetch touches.            *)
Script == <<able, test, script, server, n, tries, got, succeeded, score, cached>>

LEMMA OthersLeave ==
    ASSUME H!Next, ~H!Script
    PROVE  UNCHANGED Script
<1>1. ASSUME NEW x \in H!Servers, H!Binds(x) \/ H!Crash(x) PROVE UNCHANGED Script
  BY <1>1 DEF H!Binds, H!Crash, H!harness, H!results, H!proxy, Script
<1>2. ASSUME NEW q \in H!Ports, H!StrangerBinds(q) \/ H!StrangerLeaves(q)
      PROVE  UNCHANGED Script
  BY <1>2 DEF H!StrangerBinds, H!StrangerLeaves, H!harness, H!results, H!proxy, Script
<1>3. CASE H!NopArrives \/ H!NopOver
  BY <1>3 DEF H!NopArrives, H!NopOver, H!harness, H!results, Script
<1> QED BY <1>1, <1>2, <1>3, Zenon DEF H!Next

(* Types.                                                                  *)
LEMMA GotType ==
    ASSUME got \in [{"proxy", "noproxy"} -> [H!Files -> {"good", "bad", "none"}]],
           NEW d \in {"proxy", "noproxy"}, NEW f \in H!Files, NEW k \in {"good", "bad", "none"}
    PROVE  [got EXCEPT ![d][f] = k]
              \in [{"proxy", "noproxy"} -> [H!Files -> {"good", "bad", "none"}]]
OBVIOUS

LEMMA ListsAreFiles ==
    /\ \A k \in DOMAIN BasicList : BasicList[k] \in H!Files
    /\ \A k \in DOMAIN CacheList : CacheList[k] \in H!Files
    /\ FETCH_FILE \in H!Files
BY DEF H!Files

LEMMA FileIs ==
    ASSUME HarnessTypes, LoopInv, script \in {"fetch", "direct", "refetch", "compare"}
    PROVE  /\ H!File \in H!Files
           /\ test = 1 => H!File = BasicList[n]
           /\ test = 3 /\ script = "fetch" => H!File = CacheList[n]
           /\ test = 2 \/ (test = 3 /\ script # "fetch") => H!File = FETCH_FILE
<1> USE ListsAreFiles, Sections DEF HarnessTypes, LoopInv, Working
<1>1. CASE test = 1
  BY <1>1 DEF H!File
<1>2. CASE test = 2
  BY <1>2 DEF H!File
<1>3. CASE test = 3
  BY <1>3 DEF H!File
<1> QED BY <1>1, <1>2, <1>3

LEMMA KindsOf ==
    ASSUME NEW f
    PROVE  /\ H!FromTiny \subseteq {"good", "bad", "none"}
           /\ H!ThroughProxy(f) \subseteq {"good", "bad", "none"}
<1>1. H!Relayed(f) \in {"good", "bad"}
  BY DEF H!Relayed
<1>2. H!FromTiny \subseteq {"good", "bad", "none"}
  BY DEF H!FromTiny, H!Kinds
<1>3. H!Upstream(f) \subseteq {"good", "bad", "none"}
  <2>1. H!Stale \subseteq {"bad"}
    BY DEF H!Stale
  <2>2. H!Upstream(f) \in {{H!Relayed(f)}, {H!Relayed(f)} \union H!Stale,
                          {H!Relayed(f), "bad", "none"}, {"bad", "none"}}
    BY DEF H!Upstream
  <2> QED BY <1>1, <2>1, <2>2
<1>4. H!ThroughProxy(f) \in {{"none"}, H!Upstream(f), H!Kinds, {"bad", "none"}}
  BY DEF H!ThroughProxy
<1> QED BY <1>2, <1>3, <1>4 DEF H!Kinds

(* A file of a kind arrives in a directory, or comes too late.             *)
LEMMA ArrivesType ==
    ASSUME HarnessTypes, LoopInv, script \in {"fetch", "direct", "refetch"},
           NEW d \in {"proxy", "noproxy"}, NEW k \in {"good", "bad", "none"}, H!Arrives(d, k)
    PROVE  /\ got' \in [{"proxy", "noproxy"} -> [H!Files -> {"good", "bad", "none"}]]
           /\ mishaps' \in Nat /\ mishaps' >= mishaps
           /\ \/ got' = got /\ mishaps' # 0
              \/ /\ got'[d][H!File] = k /\ UNCHANGED mishaps
                 /\ \A c \in {"proxy", "noproxy"} : c # d => got'[c] = got[c]
<1>1. H!File \in H!Files
  BY FileIs
<1>2. CASE got' = [got EXCEPT ![d][H!File] = k] /\ UNCHANGED mishaps
  BY <1>1, <1>2, GotType DEF HarnessTypes
<1>3. CASE k # "none" /\ mishaps < MaxMishaps /\ mishaps' = mishaps + 1 /\ UNCHANGED got
  BY <1>3 DEF HarnessTypes
<1> QED BY <1>2, <1>3 DEF H!Arrives

LEMMA NothingType == H!Nothing \in [H!Files -> {"good", "bad", "none"}]
BY DEF H!Nothing

LEMMA KillType ==
    ASSUME HarnessTypes, NEW T, H!Kill(T)
    PROVE  /\ proc' \in [H!Servers -> {"none", "started", "up", "dead"}]
           /\ owner' \in [H!Ports -> {"free", "stranger"} \union H!Servers]
BY DEF HarnessTypes, H!Kill

(* free_port.                                                              *)
LEMMA FreePortIs ==
    ASSUME H!HarnessAssumption, HarnessTypes, H!FreePort
    PROVE  \E q \in Int : /\ port' = [port EXCEPT ![H!Server] = q]
                          /\ q \in H!Ports => owner[q] = "free"
<1>1. PICK start \in H!Ports :
          LET free == {r \in start..PORT_MAX : owner[r] = "free"}
          IN  port' = [port EXCEPT ![H!Server] =
                    IF free = {} THEN -1 ELSE CHOOSE r \in free : \A q \in free : r <= q]
  BY DEF H!FreePort
<1> DEFINE free == {r \in start..PORT_MAX : owner[r] = "free"}
           first == CHOOSE r \in free : \A q \in free : r <= q
<1>2. port' = [port EXCEPT ![H!Server] = IF free = {} THEN -1 ELSE first]
  BY <1>1
<1>3. free \subseteq Nat /\ \A r \in free : owner[r] = "free"
  BY Lists DEF H!Ports
<1>4. CASE free = {}
  <2>1. port' = [port EXCEPT ![H!Server] = -1] /\ -1 \in Int /\ ~(-1 \in H!Ports)
    BY <1>2, <1>4 DEF H!Ports
  <2> QED BY <2>1
<1>5. CASE free # {}
  <2>1. \E r \in free : \A q \in free : r <= q
    BY <1>3, <1>5, LeastExists
  <2>2. first \in free
    BY <2>1
  <2>3. port' = [port EXCEPT ![H!Server] = first]
    BY <1>2, <1>5
  <2> HIDE DEF free, first
  <2>4. first \in Nat /\ owner[first] = "free"
    BY <1>3, <2>2
  <2>5. first \in Int
    BY <2>4
  <2> QED BY <2>3, <2>4, <2>5, Zenon
<1> QED BY <1>4, <1>5

LEMMA TypesKept ==
    ASSUME H!HarnessAssumption, HarnessInv, [H!Next]_(H!vars) PROVE HarnessTypes' /\ LoopInv'
<1>0. HarnessTypes /\ LoopInv
  BY DEF HarnessInv
<1>9. /\ Needed \in Nat /\ server \in Nat /\ test \in Nat
      /\ Len(BasicList) \in Nat /\ DOMAIN BasicList = 1..Len(BasicList)
      /\ Len(CacheList) \in Nat /\ DOMAIN CacheList = 1..Len(CacheList)
      /\ Len(BasicList) > 0 /\ Len(CacheList) > 0
  <2>1. DOMAIN BasicList # {} /\ DOMAIN CacheList # {}
    BY Zenon DEF H!HarnessAssumption
  <2> QED BY <1>0, <2>1, Lists DEF HarnessTypes, Needed
<1>1. CASE H!FreePort
  <2>1. H!Server \in H!Servers
    BY <1>0, SectionStarts DEF HarnessTypes
  <2>2. PICK q \in Int : port' = [port EXCEPT ![H!Server] = q]
    BY <1>0, <1>1, FreePortIs
  <2>3. port' \in [H!Servers -> Int]
    BY <1>0, <2>1, <2>2 DEF HarnessTypes
  <2> QED BY <1>0, <1>1, <2>3, Lists
          DEF H!FreePort, HarnessTypes, LoopInv, Commands, Working, Needed, H!results, H!proxy
<1>2. CASE H!StartServer
  <2>1. proc' \in [H!Servers -> {"none", "started", "up", "dead"}]
    BY <1>0, <1>2, SectionStarts DEF H!StartServer, HarnessTypes
  <2> QED BY <1>0, <1>2, <2>1
          DEF H!StartServer, HarnessTypes, LoopInv, Commands, Working, Needed, H!results, H!proxy
<1>3. CASE H!PortUsed
  <2>1. server' \in 1..Needed /\ script' \in {"port", "clear"}
    BY <1>0, <1>3, <1>9, SectionStarts DEF H!PortUsed, HarnessTypes
  <2> QED BY <1>0, <1>3, <1>9, <2>1
          DEF H!PortUsed, HarnessTypes, LoopInv, Commands, Working, Needed, H!machine, H!proxy
<1>4. CASE H!PortUnused
  BY <1>0, <1>4
     DEF H!PortUnused, HarnessTypes, LoopInv, Commands, Working, Needed, H!machine, H!results, H!proxy
<1>5. CASE H!Clear
  <2>1. got' \in [{"proxy", "noproxy"} -> [H!Files -> {"good", "bad", "none"}]]
    BY <1>5, NothingType DEF H!Clear, H!ClearDirs
  <2>2. /\ script = "clear" /\ script' = (IF test = 2 THEN "direct" ELSE "fetch")
        /\ UNCHANGED <<test, server, n, port, proc, owner, succeeded, score, mishaps, blocked>>
    BY <1>0, <1>5, Sections DEF H!Clear, H!machine, HarnessTypes
  <2> QED BY <1>0, <2>1, <2>2 DEF HarnessTypes, LoopInv, Commands, Working, Needed
<1>6. CASE H!Fetch
  <2>1. PICK k \in {"good", "bad", "none"} : H!Arrives("proxy", k)
    BY <1>6, KindsOf DEF H!Fetch
  <2>2. /\ got' \in [{"proxy", "noproxy"} -> [H!Files -> {"good", "bad", "none"}]]
        /\ mishaps' \in Nat
    BY <1>0, <1>6, <2>1, ArrivesType DEF H!Fetch
  <2>3. /\ script = "fetch"
        /\ IF test = 3 /\ n < Len(CacheList) THEN n' = n + 1 /\ script' = script
           ELSE /\ script' = (IF test = 1 THEN "direct" ELSE IF test = 2 THEN "compare" ELSE "kill_tiny")
                /\ n' = n
        /\ UNCHANGED <<test, server, port, proc, owner, succeeded, score, blocked>>
    BY <1>0, <1>6, Sections DEF H!Fetch, H!machine, HarnessTypes
  <2> QED BY <1>0, <1>9, <2>2, <2>3 DEF HarnessTypes, LoopInv, Commands, Working, Needed
<1>7. CASE H!Direct
  <2>1. PICK k \in {"good", "bad", "none"} : H!Arrives("noproxy", k)
    BY <1>7, KindsOf DEF H!Direct
  <2>2. /\ got' \in [{"proxy", "noproxy"} -> [H!Files -> {"good", "bad", "none"}]]
        /\ mishaps' \in Nat
    BY <1>0, <1>7, <2>1, ArrivesType DEF H!Direct
  <2>3. /\ script = "direct" /\ script' = (IF test = 1 THEN "compare" ELSE "fetch")
        /\ UNCHANGED <<test, server, n, port, proc, owner, succeeded, score, blocked>>
    BY <1>0, <1>7, Sections DEF H!Direct, H!machine, H!proxy, HarnessTypes
  <2>4. test # 3
    BY <1>0, <2>3 DEF LoopInv
  <2> QED BY <1>0, <2>2, <2>3, <2>4 DEF HarnessTypes, LoopInv, Commands, Working, Needed
<1>10. CASE H!KillTiny
  BY <1>0, <1>10, KillType
     DEF H!KillTiny, HarnessTypes, LoopInv, Commands, Working, Needed, H!results, H!proxy
<1>11. CASE H!Refetch
  <2>1. PICK k \in {"good", "bad", "none"} : H!Arrives("noproxy", k)
    BY <1>11, KindsOf DEF H!Refetch
  <2>2. /\ got' \in [{"proxy", "noproxy"} -> [H!Files -> {"good", "bad", "none"}]]
        /\ mishaps' \in Nat
    BY <1>0, <1>11, <2>1, ArrivesType DEF H!Refetch
  <2> QED BY <1>0, <1>11, <2>2
          DEF H!Refetch, HarnessTypes, LoopInv, Commands, Working, Needed, H!machine, H!proxy
<1>12. CASE H!Compare
  <2>1. /\ script = "compare" /\ succeeded' \in Nat
        /\ IF test = 1 /\ n < Len(BasicList) THEN n' = n + 1 /\ script' = "clear" /\ score' = score
           ELSE /\ \E x \in Int : score' = [score EXCEPT ![H!Section] = x]
                /\ script' = "kill" /\ n' = n
        /\ UNCHANGED <<test, server, port, proc, owner, got, blocked, mishaps>>
    <3>1. succeeded' \in Nat
      BY <1>0, <1>12 DEF H!Compare, HarnessTypes
    <3>2. UNCHANGED <<test, server, port, proc, owner, got, blocked, mishaps>>
      BY <1>12 DEF H!Compare, H!machine, H!proxy
    <3>3. /\ script = "compare"
          /\ IF H!Section = "basic" /\ n < Len(BasicList)
             THEN n' = n + 1 /\ script' = "clear" /\ UNCHANGED score
             ELSE /\ score' = [score EXCEPT ![H!Section] =
                       (H!Marks[H!Section] * succeeded') \div (IF H!Section = "basic" THEN n ELSE 1)]
                  /\ script' = "kill" /\ UNCHANGED n
      BY <1>12 DEF H!Compare
    <3>4. (H!Section = "basic") <=> test = 1
      BY <1>0, Sections DEF HarnessTypes
    <3>5. H!Marks[H!Section] \in {40, 15}
      BY <1>0, Sections DEF HarnessTypes, H!Marks
    <3>6. (H!Marks[H!Section] * succeeded') \div (IF H!Section = "basic" THEN n ELSE 1) \in Int
      BY <1>0, <3>1, <3>5 DEF HarnessTypes
    <3> QED BY <3>1, <3>2, <3>3, <3>4, <3>6
  <2>2. score' \in [{"basic", "concurrency", "cache"} -> Int]
    BY <1>0, <2>1, Sections DEF HarnessTypes
  <2> QED BY <1>0, <1>9, <2>1, <2>2 DEF HarnessTypes, LoopInv, Commands, Working, Needed
<1>13. CASE H!KillAll
  <2>1. /\ test' \in 1..3 /\ script' \in {"port", "exit"} /\ server' = 1
        /\ script' = "exit" => test' = 3
        /\ UNCHANGED <<n, port, got, succeeded, score, mishaps>> /\ blocked' = FALSE
    BY <1>0, <1>13 DEF H!KillAll, H!Tests, HarnessTypes, H!results
  <2>2. H!Kill(H!Killed)
    BY <1>13 DEF H!KillAll
  <2>3. /\ proc' \in [H!Servers -> {"none", "started", "up", "dead"}]
        /\ owner' \in [H!Ports -> {"free", "stranger"} \union H!Servers]
    BY <1>0, <2>2, KillType
  <2>4. LoopInv'
    BY <2>1 DEF LoopInv, Working
  <2>5. server' \in 1..Needed' /\ script' \in Commands
    BY <2>1 DEF Needed, Commands
  <2> QED BY <1>0, <2>1, <2>3, <2>4, <2>5 DEF HarnessTypes
<1>14. CASE H!Next /\ ~H!Script
  <2>1. UNCHANGED <<test, script, server, n, got, succeeded, score>>
    BY <1>14, OthersLeave DEF Script
  <2>2. LoopInv'
    BY <1>0, <2>1 DEF LoopInv, Working
  <2>3. /\ blocked' \in BOOLEAN /\ mishaps' \in Nat /\ port' = port
        /\ proc' \in [H!Servers -> {"none", "started", "up", "dead"}]
        /\ owner' \in [H!Ports -> {"free", "stranger"} \union H!Servers]
    <3>1. ASSUME NEW x \in H!Servers, H!Binds(x) \/ H!Crash(x) PROVE <2>3!:
      BY <1>0, <3>1 DEF H!Binds, H!Crash, H!proxy, HarnessTypes
    <3>2. ASSUME NEW q \in H!Ports, H!StrangerBinds(q) \/ H!StrangerLeaves(q) PROVE <2>3!:
      BY <1>0, <3>2 DEF H!StrangerBinds, H!StrangerLeaves, H!proxy, HarnessTypes
    <3>3. CASE H!NopArrives \/ H!NopOver
      BY <1>0, <3>3 DEF H!NopArrives, H!NopOver, H!machine, HarnessTypes
    <3> QED BY <1>14, <3>1, <3>2, <3>3 DEF H!Next
  <2> QED BY <1>0, <2>1, <2>2, <2>3 DEF HarnessTypes, Needed
<1>15. CASE UNCHANGED H!vars
  BY <1>0, <1>15
     DEF H!vars, H!harness, H!machine, H!results, H!proxy, HarnessTypes, LoopInv, Working, Needed
<1> QED BY <1>1, <1>2, <1>3, <1>4, <1>5, <1>6, <1>7, <1>10, <1>11, <1>12, <1>13,
      <1>14, <1>15
        DEF H!Next, H!Script

-----------------------------------------------------------------------------
(* Who listens where.                                                      *)
LEMMA KillOwners ==
    ASSUME HarnessTypes, OwnerInv, NEW T, T \subseteq H!Servers, H!Kill(T), port' = port
    PROVE  OwnerInv'
<1>1. \A x \in H!Servers : proc'[x] = (IF x \in T THEN "none" ELSE proc[x])
  BY DEF H!Kill
<1>2. \A q \in H!Ports : owner'[q] = (IF owner[q] \in T THEN "free" ELSE owner[q])
  BY DEF H!Kill
<1>3. ~("free" \in H!Servers)
  BY Ranks
<1> QED BY <1>1, <1>2, <1>3 DEF OwnerInv

LEMMA OwnersKept ==
    ASSUME H!HarnessAssumption, HarnessInv, [H!Next]_(H!vars) PROVE OwnerInv'
<1>0. HarnessTypes /\ OwnerInv /\ ServerInv
  BY DEF HarnessInv
<1>1. CASE UNCHANGED <<port, proc, owner>>
  BY <1>0, <1>1 DEF OwnerInv
<1>2. CASE H!FreePort
  <2>1. PICK q \in Int : port' = [port EXCEPT ![H!Server] = q]
    BY <1>0, <1>2, FreePortIs
  <2>2. H!Server \in H!Servers /\ Rank[H!Server] = server /\ server \in Int
    BY <1>0, SectionStarts DEF HarnessTypes
  <2>3. proc[H!Server] = "none"
    <3>1. script = "port"
      BY <1>2 DEF H!FreePort
    <3>2. ~Begun(H!Server)
      BY <2>2, <3>1 DEF Begun
    <3> QED BY <1>0, <2>2, <3>2 DEF ServerInv
  <2>4. \A x \in H!Servers : x # H!Server => port'[x] = port[x]
    BY <1>0, <2>1, <2>2 DEF HarnessTypes
  <2>5. UNCHANGED <<proc, owner>>
    BY <1>2 DEF H!FreePort
  <2> QED BY <1>0, <2>2, <2>3, <2>4, <2>5 DEF OwnerInv
<1>3. CASE H!StartServer
  <2>1. H!Server \in H!Servers /\ Rank[H!Server] = server /\ server \in Int
    BY <1>0, SectionStarts DEF HarnessTypes
  <2>2. proc[H!Server] = "none"
    <3>1. ~Begun(H!Server)
      BY <1>3, <2>1 DEF Begun, H!StartServer
    <3> QED BY <1>0, <2>1, <3>1 DEF ServerInv
  <2>3. proc' = [proc EXCEPT ![H!Server] = "started"] /\ UNCHANGED <<port, owner>>
    BY <1>3 DEF H!StartServer
  <2> QED BY <1>0, <2>1, <2>2, <2>3 DEF OwnerInv, HarnessTypes
<1>4. CASE H!KillTiny
  BY <1>0, <1>4, KillOwners, Ranks DEF H!KillTiny
<1>5. CASE H!KillAll
  <2>1. H!Killed \subseteq H!Servers
    BY <1>0, SectionStarts DEF HarnessTypes
  <2> QED BY <1>0, <1>5, <2>1, KillOwners DEF H!KillAll
<1>6. ASSUME NEW x \in H!Servers, H!Binds(x) PROVE OwnerInv'
  <2>1. CASE port[x] \in H!Ports /\ owner[port[x]] = "free"
    <3>1. /\ proc' = [proc EXCEPT ![x] = "up"] /\ owner' = [owner EXCEPT ![port[x]] = x]
          /\ port' = port /\ proc[x] = "started"
      BY <1>6, <2>1 DEF H!Binds
    <3>2. ~("free" \in H!Servers)
      BY Ranks
    <3> QED BY <1>0, <2>1, <3>1, <3>2 DEF OwnerInv, HarnessTypes
  <2>2. CASE ~(port[x] \in H!Ports /\ owner[port[x]] = "free")
    <3>1. /\ proc' = [proc EXCEPT ![x] = "dead"] /\ owner' = owner
          /\ port' = port /\ proc[x] = "started"
      BY <1>6, <2>2 DEF H!Binds
    <3> QED BY <1>0, <3>1 DEF OwnerInv, HarnessTypes
  <2> QED BY <2>1, <2>2
<1>7. ASSUME NEW x \in H!Servers, H!Crash(x) PROVE OwnerInv'
  BY <1>0, <1>7 DEF H!Crash, OwnerInv, HarnessTypes
<1>8. ASSUME NEW q \in H!Ports, H!StrangerBinds(q) \/ H!StrangerLeaves(q) PROVE OwnerInv'
  <2>1. ~("free" \in H!Servers) /\ ~("stranger" \in H!Servers)
    BY Ranks
  <2>2. /\ owner[q] \in {"free", "stranger"} /\ UNCHANGED <<port, proc>>
        /\ owner' \in {[owner EXCEPT ![q] = "free"], [owner EXCEPT ![q] = "stranger"]}
    BY <1>8 DEF H!StrangerBinds, H!StrangerLeaves
  <2>3. owner'[q] \in {"free", "stranger"} /\ \A r \in H!Ports : r # q => owner'[r] = owner[r]
    BY <1>0, <2>2 DEF HarnessTypes
  <2> QED BY <1>0, <2>1, <2>2, <2>3 DEF OwnerInv
<1>9. CASE \/ H!PortUsed \/ H!PortUnused \/ H!Clear \/ H!Fetch \/ H!Direct \/ H!Refetch \/ H!Compare
           \/ H!NopArrives \/ H!NopOver \/ UNCHANGED H!vars
  BY <1>1, <1>9
     DEF H!PortUsed, H!PortUnused, H!Clear, H!Fetch, H!Direct, H!Refetch, H!Compare, H!NopArrives,
         H!NopOver, H!vars, H!machine
<1> QED BY <1>2, <1>3, <1>4, <1>5, <1>6, <1>7, <1>8, <1>9 DEF H!Next, H!Script

(* Only what was started runs, and undisturbed what was waited for is up.  *)
LEMMA NobodyElse ==
    ASSUME HarnessTypes, mishaps' = 0, [H!Next]_(H!vars) PROVE mishaps = 0
<1>1. mishaps' = mishaps \/ mishaps' = mishaps + 1
  <2>1. ASSUME NEW d, NEW k, H!Arrives(d, k) PROVE <1>1!:
    BY <2>1 DEF H!Arrives
  <2>2. CASE H!Fetch \/ H!Direct \/ H!Refetch
    BY <2>1, <2>2 DEF H!Fetch, H!Direct, H!Refetch
  <2>3. ASSUME NEW x \in H!Servers, H!Binds(x) \/ H!Crash(x) PROVE <1>1!:
    BY <2>3 DEF H!Binds, H!Crash
  <2>4. ASSUME NEW q \in H!Ports, H!StrangerBinds(q) \/ H!StrangerLeaves(q) PROVE <1>1!:
    BY <2>4 DEF H!StrangerBinds, H!StrangerLeaves
  <2>5. CASE \/ H!FreePort \/ H!StartServer \/ H!PortUsed \/ H!PortUnused \/ H!Clear \/ H!KillTiny
             \/ H!Compare \/ H!KillAll \/ H!NopArrives \/ H!NopOver \/ UNCHANGED H!vars
    BY <2>5
       DEF H!FreePort, H!StartServer, H!PortUsed, H!PortUnused, H!Clear, H!KillTiny, H!Compare,
           H!KillAll, H!NopArrives, H!NopOver, H!vars
  <2> QED BY <2>2, <2>3, <2>4, <2>5 DEF H!Next, H!Script
<1> QED BY <1>1 DEF HarnessTypes

(* Only a stranger who takes a port makes the difference.                  *)
LEMMA IntrudedIs ==
    ASSUME [H!Next]_(H!vars)
    PROVE  intruded' = intruded \/ \E q \in H!Ports : H!StrangerBinds(q)
<1>1. ASSUME NEW x \in H!Servers, H!Binds(x) \/ H!Crash(x) PROVE intruded' = intruded
  BY <1>1 DEF H!Binds, H!Crash
<1>2. ASSUME NEW q \in H!Ports, H!StrangerLeaves(q) PROVE intruded' = intruded
  BY <1>2 DEF H!StrangerLeaves
<1>3. CASE H!Script
  BY <1>3 DEF H!Script, H!FreePort, H!StartServer, H!PortUsed, H!PortUnused,
        H!Clear, H!Fetch,
              H!Direct, H!KillTiny, H!Refetch, H!Compare, H!KillAll
<1>4. CASE H!NopArrives \/ H!NopOver \/ UNCHANGED H!vars
  BY <1>4 DEF H!NopArrives, H!NopOver, H!vars
<1> QED BY <1>1, <1>2, <1>3, <1>4, Zenon DEF H!Next

LEMMA NoStrangerBefore == ASSUME [H!Next]_(H!vars), ~intruded' PROVE ~intruded
<1>1. ASSUME NEW q \in H!Ports, H!StrangerBinds(q) PROVE FALSE
  BY <1>1 DEF H!StrangerBinds
<1> QED BY <1>1, IntrudedIs

LEMMA StrangersKept ==
    ASSUME H!HarnessAssumption, HarnessInv, [H!Next]_(H!vars) PROVE StrangerInv'
<1>0. HarnessTypes /\ StrangerInv
  BY DEF HarnessInv
<1>1. ASSUME NEW q \in H!Ports, H!StrangerBinds(q) PROVE StrangerInv'
  BY <1>0, <1>1 DEF H!StrangerBinds, StrangerInv, HarnessTypes
<1>2. CASE intruded' = intruded
  <2>1. intruded' \in BOOLEAN /\ (mishaps' = 0 => ~intruded')
    BY <1>0, <1>2, NobodyElse DEF StrangerInv
  <2>2. ASSUME ~intruded', NEW q \in H!Ports PROVE owner'[q] # "stranger"
    <3>1. owner[q] # "stranger" /\ \A r \in H!Ports : owner[r] # "stranger"
      BY <1>0, <1>2, <2>2 DEF StrangerInv
    <3>2. ASSUME NEW x \in H!Servers, H!Binds(x) \/ H!Crash(x) PROVE owner'[q] # "stranger"
      <4>1. x # "stranger" /\ owner'[q] \in {x, owner[q]}
        BY <1>0, <3>2, Ranks DEF H!Binds, H!Crash, HarnessTypes
      <4> QED BY <3>1, <4>1
    <3>3. CASE H!KillTiny \/ H!KillAll
      <4>1. owner'[q] \in {"free", owner[q]}
        BY <3>3 DEF H!KillTiny, H!KillAll, H!Kill
      <4> QED BY <3>1, <4>1
    <3>4. ASSUME NEW r \in H!Ports, H!StrangerBinds(r) \/ H!StrangerLeaves(r) PROVE FALSE
      BY <2>2, <3>1, <3>4 DEF H!StrangerBinds, H!StrangerLeaves
    <3>5. CASE \/ H!FreePort \/ H!StartServer \/ H!PortUsed \/ H!PortUnused \/ H!Clear \/ H!Fetch
               \/ H!Direct \/ H!Refetch \/ H!Compare
               \/ H!NopArrives \/ H!NopOver \/ UNCHANGED H!vars
      <4>1. owner' = owner
        BY <3>5
           DEF H!FreePort, H!StartServer, H!PortUsed, H!PortUnused, H!Clear, H!Fetch, H!Direct,
               H!Refetch, H!Compare, H!NopArrives, H!NopOver, H!vars, H!machine
      <4> QED BY <3>1, <4>1
    <3> QED BY <3>2, <3>3, <3>4, <3>5, Zenon DEF H!Next, H!Script
  <2> QED BY <2>1, <2>2 DEF StrangerInv
<1> QED BY <1>1, <1>2, IntrudedIs

LEMMA ServersKept ==
    ASSUME H!HarnessAssumption, HarnessInv, [H!Next]_(H!vars), HarnessTypes'
    PROVE  \A x \in H!Servers : ~Begun(x)' => proc'[x] = "none"
<1>0. HarnessTypes /\ ServerInv /\ LoopInv
  BY DEF HarnessInv
<1>1. \A x \in H!Servers : ~Begun(x) => proc[x] = "none"
  BY <1>0 DEF ServerInv
<1>2. /\ H!Server \in H!Servers /\ Rank[H!Server] = server /\ server \in 1..Needed
      /\ H!Killed = {x \in H!Servers : Rank[x] <= Needed}
      /\ Len(H!Started(H!Section)) = Needed
      /\ \A x, y \in H!Servers : Rank[x] = Rank[y] => x = y
      /\ \A x \in H!Servers : Rank[x] \in 1..3
  BY <1>0, SectionStarts, Ranks, RankOne DEF HarnessTypes
<1>3. CASE H!FreePort
  BY <1>0, <1>1, <1>3 DEF H!FreePort, Begun
<1>4. CASE H!StartServer
  <2>1. /\ proc' = [proc EXCEPT ![H!Server] = "started"] /\ UNCHANGED <<server, test>>
        /\ script = "start" /\ script' = "wait"
    BY <1>4 DEF H!StartServer
  <2>2. ASSUME NEW x \in H!Servers, ~Begun(x)' PROVE proc'[x] = "none"
    <3>1. Rank[x] > server
      BY <1>2, <2>1, <2>2 DEF Begun
    <3>2. x # H!Server /\ ~Begun(x)
      BY <1>2, <2>1, <3>1 DEF Begun
    <3> QED BY <1>0, <1>1, <2>1, <3>2 DEF HarnessTypes
  <2> QED BY <2>2
<1>5. CASE H!PortUsed
  <2>1. /\ script = "wait" /\ UNCHANGED <<proc, test>>
        /\ IF server < Needed THEN server' = server + 1 /\ script' = "port"
                              ELSE server' = server /\ script' = "clear"
    BY <1>2, <1>5 DEF H!PortUsed, H!machine
  <2>2. \A x \in H!Servers : ~Begun(x)' => ~Begun(x)
    BY <1>2, <2>1 DEF Begun, Needed
  <2> QED BY <1>1, <2>1, <2>2
<1>6. CASE H!PortUnused
  BY <1>1, <1>6 DEF H!PortUnused, H!machine, Begun
<1>7. CASE H!KillTiny
  <2>1. /\ \A x \in H!Servers : proc'[x] = (IF x = "tiny" THEN "none" ELSE proc[x])
        /\ script = "kill_tiny" /\ script' = "refetch" /\ test' = test
    BY <1>7 DEF H!KillTiny, H!Kill
  <2>2. test = 3
    BY <1>0, <2>1 DEF LoopInv
  <2>3. Rank["nop"] > Needed /\ ~Begun("nop")
    BY <2>1, <2>2, Ranks DEF Needed, Begun
  <2>4. \A x \in H!Servers : ~Begun(x)' => x = "tiny" \/ x = "nop"
    BY <2>1, Ranks DEF Begun
  <2> QED BY <1>1, <2>1, <2>3, <2>4, Ranks
<1>8. CASE H!KillAll
  <2>1. /\ \A x \in H!Servers : proc'[x] = (IF Rank[x] <= Needed THEN "none" ELSE proc[x])
        /\ script = "kill"
    BY <1>2, <1>8 DEF H!KillAll, H!Kill
  <2>2. \A x \in H!Servers : Rank[x] > Needed => ~Begun(x)
    BY <1>2, <2>1 DEF Begun, Needed
  <2>3. Needed \in Int
    BY DEF Needed
  <2> QED BY <1>1, <1>2, <2>1, <2>2, <2>3
<1>9. ASSUME NEW x \in H!Servers, H!Binds(x) \/ H!Crash(x)
      PROVE  \A y \in H!Servers : ~Begun(y)' => proc'[y] = "none"
  <2>1. UNCHANGED <<test, script, server>>
    BY <1>9 DEF H!Binds, H!Crash, H!harness
  <2>2. proc[x] = "started" /\ \A y \in H!Servers : y # x => proc'[y] = proc[y]
    BY <1>0, <1>9 DEF H!Binds, H!Crash, HarnessTypes
  <2>3. \A y \in H!Servers : ~Begun(y)' => ~Begun(y)
    BY <2>1 DEF Begun, Needed
  <2> QED BY <1>1, <2>2, <2>3
<1>10. CASE H!Clear \/ H!Fetch \/ H!Direct \/ H!Refetch \/ H!Compare
  <2>1. UNCHANGED <<proc, test>>
    BY <1>10 DEF H!Clear, H!Fetch, H!Direct, H!Refetch, H!Compare, H!machine
  <2>2. /\ script \in {"clear", "fetch", "direct", "compare", "refetch"}
        /\ script' \in {"clear", "fetch", "direct", "compare", "kill_tiny", "kill"}
        /\ script = "refetch" => test = 3
    BY <1>0, <1>10, Sections
       DEF H!Clear, H!Fetch, H!Direct, H!Refetch, H!Compare, LoopInv, HarnessTypes
  <2>3. \A x \in H!Servers : ~Begun(x)' => ~Begun(x)
    BY <2>1, <2>2, Ranks DEF Begun, Needed
  <2> QED BY <1>1, <2>1, <2>3
<1>11. CASE \/ H!NopArrives \/ H!NopOver \/ UNCHANGED H!vars
            \/ \E q \in H!Ports : H!StrangerBinds(q) \/ H!StrangerLeaves(q)
  <2>1. UNCHANGED <<test, script, server, proc>>
    BY <1>11 DEF H!NopArrives, H!NopOver, H!StrangerBinds, H!StrangerLeaves,
          H!vars, H!harness,
                 H!machine
  <2> QED BY <1>1, <2>1 DEF Begun, Needed
<1> QED BY <1>3, <1>4, <1>5, <1>6, <1>7, <1>8, <1>9, <1>10, <1>11, Zenon
      DEF H!Next, H!Script

(* The port in use is the server's own: the others have other ports.       *)
LEMMA SeenIsUp ==
    ASSUME HarnessTypes, OwnerInv, ServerInv, Ready, script = "wait", H!Seen
    PROVE  proc[H!Server] = "up"
<1>1. H!Server \in H!Servers /\ Rank[H!Server] = server /\ server \in Nat
  BY SectionStarts DEF HarnessTypes, Needed
<1>2. port[H!Server] \in H!Ports /\ owner[port[H!Server]] # "free"
  BY DEF H!Seen, H!Listener
<1>3. PICK x \in H!Servers : owner[port[H!Server]] = x
  BY <1>2 DEF Ready, HarnessTypes
<1>4. proc[x] = "up" /\ port[x] = port[H!Server]
  BY <1>2, <1>3 DEF OwnerInv
<1>5. Begun(x)
  BY <1>4 DEF ServerInv
<1>6. Rank[x] <= server /\ Rank[x] \in Nat
  BY <1>5, Ranks DEF Begun
<1>7. CASE Rank[x] < server
  BY <1>1, <1>4, <1>7 DEF Ready
<1>8. CASE Rank[x] = server
  BY <1>1, <1>4, <1>8, RankOne
<1> QED BY <1>1, <1>6, <1>7, <1>8

LEMMA ReadyKept ==
    ASSUME H!HarnessAssumption, HarnessInv, [H!Next]_(H!vars), Ready, mishaps' = 0, HarnessTypes'
    PROVE  Ready'
<1>0. HarnessTypes /\ OwnerInv /\ ServerInv /\ LoopInv
  BY DEF HarnessInv
<1>2. /\ H!Server \in H!Servers /\ Rank[H!Server] = server /\ server \in 1..Needed
      /\ H!Killed = {x \in H!Servers : Rank[x] <= Needed}
      /\ Len(H!Started(H!Section)) = Needed /\ Needed \in Nat
      /\ \A x, y \in H!Servers : Rank[x] = Rank[y] => x = y
      /\ \A x \in H!Servers : Rank[x] \in 1..3
      /\ server \in Nat
  BY <1>0, SectionStarts, Ranks, RankOne DEF HarnessTypes, Needed
<1>9. \A q \in H!Ports : owner[q] # "stranger"
  BY DEF Ready
<1>3. CASE H!FreePort
  <2>1. PICK q \in Int : /\ port' = [port EXCEPT ![H!Server] = q]
                         /\ q \in H!Ports => owner[q] = "free"
    BY <1>0, <1>3, FreePortIs
  <2>2. script = "port" /\ script' = "start" /\ UNCHANGED <<server, proc, owner>>
    BY <1>3 DEF H!FreePort
  <2>3. ASSUME NEW x \in H!Servers, Rank[x] < server PROVE port'[x] # q /\ port'[x] = port[x]
    <3>1. x # H!Server
      BY <1>2, <2>3
    <3>2. port'[x] = port[x]
      BY <1>0, <1>2, <2>1, <3>1 DEF HarnessTypes
    <3>3. proc[x] = "up"
      BY <2>2, <2>3 DEF Ready, Preparing
    <3>4. port[x] \in H!Ports /\ owner[port[x]] = x
      BY <1>0, <3>3 DEF OwnerInv
    <3>5. x # "free"
      BY Ranks
    <3> QED BY <2>1, <3>2, <3>4, <3>5
  <2>4. port'[H!Server] = q
    BY <1>0, <1>2, <2>1 DEF HarnessTypes
  <2>5. ASSUME NEW x \in H!Servers, NEW y \in H!Servers, Rank[x] < server, Rank[y] = server
        PROVE  port'[x] # port'[y]
    BY <1>2, <2>3, <2>4, <2>5
  <2>6. \A x \in H!Servers : Rank[x] < server => proc[x] = "up"
    BY <2>2 DEF Ready, Preparing
  <2> QED BY <1>9, <2>2, <2>5, <2>6 DEF Ready, Preparing
<1>4. CASE H!StartServer
  <2>1. /\ script = "start" /\ script' = "wait" /\ UNCHANGED <<server, port, owner>>
        /\ proc' = [proc EXCEPT ![H!Server] = "started"]
    BY <1>4 DEF H!StartServer
  <2>2. \A x \in H!Servers : Rank[x] < server => proc'[x] = "up"
    BY <1>0, <1>2, <2>1 DEF Ready, Preparing, HarnessTypes
  <2>3. \A x, y \in H!Servers : Rank[x] < server /\ Rank[y] = server => port[x] # port[y]
    BY <2>1 DEF Ready
  <2> QED BY <1>9, <2>1, <2>2, <2>3 DEF Ready, Preparing
<1>5. CASE H!PortUsed
  <2>1. /\ script = "wait" /\ H!Seen /\ UNCHANGED <<proc, port, owner, test>>
        /\ IF server < Needed THEN server' = server + 1 /\ script' = "port"
                              ELSE server' = server /\ script' = "clear"
    BY <1>2, <1>5 DEF H!PortUsed, H!machine
  <2>2. proc[H!Server] = "up"
    BY <1>0, <2>1, SeenIsUp
  <2>3. \A x \in H!Servers : Rank[x] <= server => proc[x] = "up"
    <3>1. \A x \in H!Servers : Rank[x] < server => proc[x] = "up"
      BY <2>1 DEF Ready, Preparing
    <3> QED BY <1>2, <2>2, <3>1
  <2> QED BY <1>2, <1>9, <2>1, <2>3 DEF Ready, Preparing, Needed
<1>6. CASE H!PortUnused
  <2>1. /\ script = "wait" /\ script' \in {"wait", "killed"}
        /\ UNCHANGED <<proc, port, owner, server, test>>
    BY <1>6 DEF H!PortUnused, H!machine
  <2> QED BY <2>1 DEF Ready, Preparing
<1>7. CASE H!KillTiny
  <2>1. /\ \A x \in H!Servers : proc'[x] = (IF x = "tiny" THEN "none" ELSE proc[x])
        /\ \A q \in H!Ports : owner'[q] \in {"free", owner[q]}
        /\ script = "kill_tiny" /\ script' = "refetch"
    BY <1>7 DEF H!KillTiny, H!Kill
  <2>2. proc["proxy"] = "up"
    BY <2>1, Ranks DEF Ready, Needed
  <2> QED BY <1>9, <2>1, <2>2, Ranks DEF Ready, Preparing
<1>8. CASE H!KillAll
  <2>1. /\ \A q \in H!Ports : owner'[q] \in {"free", owner[q]}
        /\ script' \in {"port", "exit"} /\ server' = 1
    BY <1>8 DEF H!KillAll, H!Kill
  <2>2. \A x \in H!Servers : ~(Rank[x] < server')
    BY <1>2, <2>1
  <2> QED BY <1>9, <2>1, <2>2 DEF Ready, Preparing
<1>10. CASE H!Clear \/ H!Fetch \/ H!Direct \/ H!Refetch \/ H!Compare
  <2>1. UNCHANGED <<proc, test, owner>>
    BY <1>10 DEF H!Clear, H!Fetch, H!Direct, H!Refetch, H!Compare, H!machine
  <2>2. /\ script \in {"clear", "fetch", "direct", "compare", "refetch"}
        /\ script' \in {"clear", "fetch", "direct", "compare", "kill_tiny", "kill"}
        /\ script = "refetch" => test = 3 /\ script' = "compare"
        /\ script = "compare" /\ test # 1 => script' = "kill"
    BY <1>0, <1>10, Sections, SMTT(30)
       DEF H!Clear, H!Fetch, H!Direct, H!Refetch, H!Compare, LoopInv, HarnessTypes
  <2> QED BY <1>9, <2>1, <2>2 DEF Ready, Preparing, Needed
<1>11. ASSUME NEW x \in H!Servers, H!Binds(x) \/ H!Crash(x) PROVE Ready'
  <2>1. UNCHANGED <<test, script, server, port>>
    BY <1>11 DEF H!Binds, H!Crash, H!harness
  <2>2. proc[x] = "started" /\ \A y \in H!Servers : y # x => proc'[y] = proc[y]
    BY <1>0, <1>11 DEF H!Binds, H!Crash, HarnessTypes
  <2>3. \A q \in H!Ports : owner'[q] \in {x, owner[q]}
    BY <1>0, <1>11 DEF H!Binds, H!Crash, HarnessTypes
  <2>4. \A y \in H!Servers : proc[y] = "up" => proc'[y] = "up"
    BY <2>2
  <2>5. x # "stranger"
    BY Ranks
  <2> QED BY <2>1, <2>3, <2>4, <2>5, Ranks DEF Ready, Preparing, Needed
<1>12. ASSUME NEW q \in H!Ports, H!StrangerBinds(q) PROVE FALSE
  BY <1>0, <1>12 DEF H!StrangerBinds, HarnessTypes
<1>13. ASSUME NEW q \in H!Ports, H!StrangerLeaves(q) PROVE FALSE
  BY <1>9, <1>13 DEF H!StrangerLeaves
<1>14. CASE H!NopArrives \/ H!NopOver \/ UNCHANGED H!vars
  <2>1. UNCHANGED <<test, script, server, proc, port, owner>>
    BY <1>14 DEF H!NopArrives, H!NopOver, H!vars, H!harness, H!machine
  <2> QED BY <2>1 DEF Ready, Preparing, Needed
<1> QED BY <1>3, <1>4, <1>5, <1>6, <1>7, <1>8, <1>10, <1>11, <1>12, <1>13, <1>14, Zenon
        DEF H!Next, H!Script

-----------------------------------------------------------------------------
(* What the fetches bring.                                                 *)
LEMMA UpListens ==
    ASSUME OwnerInv, NEW x \in H!Servers, proc[x] = "up" PROVE H!Listener(x) = x
BY DEF OwnerInv, H!Listener

LEMMA DownListensNot ==
    ASSUME OwnerInv, NEW x \in H!Servers, proc[x] # "up" PROVE H!Listener(x) # x
BY Ranks DEF OwnerInv, H!Listener

(* Where no stranger has been, what comes through the proxy is what it     *)
(* relays of Tiny's file, wrong or none.                                   *)
LEMMA NoStranger ==
    ASSUME StrangerInv, ~intruded, NEW f
    PROVE  /\ H!ThroughProxy(f) \subseteq {H!Relayed(f), "bad", "none"}
           /\ ~H!Reaches("tiny", "tiny") /\ f \notin cached =>
                 H!ThroughProxy(f) \subseteq {"bad", "none"}
           /\ \A x : H!Listener(x) # "stranger"
<1>1. \A x : H!Listener(x) # "stranger"
  BY DEF StrangerInv, H!Listener
<1>2. H!Stale = {}
  BY DEF H!Stale
<1>3. H!Upstream(f) \subseteq {H!Relayed(f), "bad", "none"}
  <2>1. H!Upstream(f) \in {{H!Relayed(f)}, {H!Relayed(f)} \union H!Stale,
                          {H!Relayed(f), "bad", "none"}, {"bad", "none"}}
    BY DEF H!Upstream
  <2> QED BY <1>2, <2>1
<1>4. ASSUME ~H!Reaches("tiny", "tiny"), f \notin cached
      PROVE  H!Upstream(f) = {"bad", "none"}
  <2>1. ~H!Reaches("tiny", "stranger")
    BY <1>1 DEF H!Reaches
  <2> QED BY <1>4, <2>1 DEF H!Upstream
<1>5. H!ThroughProxy(f) \in {{"none"}, H!Upstream(f), {"bad", "none"}}
  <2>1. H!Listener("proxy") # "stranger"
    BY <1>1
  <2> QED BY <2>1 DEF H!ThroughProxy
<1> QED BY <1>1, <1>3, <1>4, <1>5

LEMMA BinaryBad ==
    ASSUME StrangerInv, ~intruded, NEW f \in Binaries, "binary" \notin able
    PROVE  "good" \notin H!ThroughProxy(f)
<1>1. H!Relayed(f) = "bad"
  BY DEF H!Relayed
<1> QED BY <1>1, NoStranger

LEMMA OnlyFromCache ==
    ASSUME StrangerInv, ~intruded, NEW f, ~H!Reaches("tiny", "tiny"), "good" \in H!ThroughProxy(f)
    PROVE  f \in cached
BY NoStranger

LEMMA FullGood ==
    ASSUME OwnerInv, proc["proxy"] = "up", ~blocked, "binary" \in able, ~intruded,
           NEW f, f \in cached \/ proc["tiny"] = "up"
    PROVE  H!ThroughProxy(f) = {"good"}
<1>1. H!Listener("proxy") = "proxy" /\ (f \in cached \/ H!Reaches("tiny", "tiny"))
  BY UpListens, Ranks DEF H!Reaches
<1>2. H!Relayed(f) = "good" /\ H!Stale = {}
  BY DEF H!Relayed, H!Stale
<1>3. H!Upstream(f) = {"good"}
  <2>1. CASE f \in cached
    <3>1. H!Upstream(f) = {H!Relayed(f)}
      BY <2>1 DEF H!Upstream
    <3> QED BY <1>2, <3>1
  <2>2. CASE f \notin cached
    <3>1. H!Upstream(f) = {H!Relayed(f)} \union H!Stale
      BY <1>1, <2>2 DEF H!Upstream, H!Reaches
    <3> QED BY <1>2, <3>1
  <2> QED BY <2>1, <2>2
<1> QED BY <1>1, <1>3 DEF H!ThroughProxy

LEMMA TinyGood == ASSUME OwnerInv, proc["tiny"] = "up" PROVE H!FromTiny = {"good"}
<1>1. H!Listener("tiny") = "tiny"
  BY UpListens, Ranks
<1> QED BY <1>1 DEF H!FromTiny

(* What the section's command compares, and what it does with the result.  *)
LEMMA SameIs ==
    ASSUME HarnessTypes, NEW f \in H!Files, NEW same \in H!Same(f)
    PROVE  /\ same \in BOOLEAN
           /\ test = 3 => (same <=> got["noproxy"][f] = "good")
           /\ test # 3 /\ got["proxy"][f] = "good" => (same <=> got["noproxy"][f] = "good")
           /\ test # 3 /\ got["proxy"][f] # got["noproxy"][f] => ~same
<1>1. (H!Section = "cache") <=> test = 3
  BY Sections DEF HarnessTypes
<1> DEFINE a == IF test = 3 THEN "good" ELSE got["proxy"][f]
           b == got["noproxy"][f]
<1>2. H!Same(f) = IF a # b \/ a = "none" THEN {FALSE} ELSE IF a = "good" THEN {TRUE} ELSE BOOLEAN
  BY <1>1, Zenon DEF H!Same
<1>3. a # b \/ a = "none" => ~same
  BY <1>2
<1>4. ASSUME a = b, a = "good" PROVE same
  <2>1. ~(a # b \/ a = "none")
    BY <1>4
  <2>2. H!Same(f) = {TRUE}
    BY <1>2, <1>4, <2>1, Zenon
  <2> QED BY <2>2
<1>5. same \in BOOLEAN
  BY <1>2
<1> QED BY <1>3, <1>4, <1>5

LEMMA CompareIs ==
    ASSUME HarnessTypes, LoopInv, H!Compare
    PROVE  /\ script = "compare" /\ UNCHANGED <<able, test, got, cached, blocked, mishaps>>
           /\ \E same \in H!Same(H!File) : succeeded' = succeeded + (IF same THEN 1 ELSE 0)
           /\ IF test = 1 /\ n < Len(BasicList) THEN n' = n + 1 /\ script' = "clear" /\ score' = score
              ELSE n' = n /\ script' = "kill"
           /\ test = 1 /\ ~(n < Len(BasicList)) =>
                 /\ score'["basic"] = (40 * succeeded') \div n
                 /\ score'["cache"] = score["cache"]
                 /\ score'["concurrency"] = score["concurrency"]
           /\ test = 2 => /\ score'["concurrency"] = 15 * succeeded'
                          /\ score'["basic"] = score["basic"] /\ score'["cache"] = score["cache"]
           /\ test = 3 => /\ score'["cache"] = 15 * succeeded'
                          /\ score'["basic"] = score["basic"]
                          /\ score'["concurrency"] = score["concurrency"]
<1>1. script = "compare" /\ UNCHANGED <<able, test, got, cached, blocked, mishaps>>
  BY DEF H!Compare, H!proxy
<1>2. PICK same \in H!Same(H!File) : succeeded' = succeeded + (IF same THEN 1 ELSE 0)
  BY DEF H!Compare
<1>3. succeeded' \in Nat
  BY <1>2 DEF HarnessTypes
<1>4. IF H!Section = "basic" /\ n < Len(BasicList)
      THEN n' = n + 1 /\ script' = "clear" /\ score' = score
      ELSE /\ score' = [score EXCEPT ![H!Section] =
                (H!Marks[H!Section] * succeeded') \div (IF H!Section = "basic" THEN n ELSE 1)]
           /\ script' = "kill" /\ n' = n
  BY DEF H!Compare
<1>5. CASE test = 1
  <2>1. H!Section = "basic" /\ H!Marks[H!Section] = 40
    BY <1>5, Sections DEF H!Marks
  <2> QED BY <1>1, <1>2, <1>4, <1>5, <2>1 DEF HarnessTypes
<1>6. CASE test = 2
  <2>1. H!Section = "concurrency" /\ H!Marks[H!Section] = 15
    BY <1>6, Sections DEF H!Marks
  <2>2. (15 * succeeded') \div 1 = 15 * succeeded'
    BY <1>3
  <2> QED BY <1>1, <1>2, <1>4, <1>6, <2>1, <2>2 DEF HarnessTypes
<1>7. CASE test = 3
  <2>1. H!Section = "cache" /\ H!Marks[H!Section] = 15
    BY <1>7, Sections DEF H!Marks
  <2>2. (15 * succeeded') \div 1 = 15 * succeeded'
    BY <1>3
  <2> QED BY <1>1, <1>2, <1>4, <1>7, <2>1, <2>2 DEF HarnessTypes
<1> QED BY <1>5, <1>6, <1>7 DEF HarnessTypes

(* Steps that begin a section, or do not work on it.                       *)
LEMMA Idles ==
    ASSUME HarnessTypes,
           \/ H!FreePort \/ H!StartServer \/ H!PortUnused
    PROVE  /\ script \in {"port", "start", "wait"} /\ script' \in {"start", "wait", "killed"}
           /\ UNCHANGED <<able, test, got, succeeded, score, cached, blocked, mishaps>>
BY DEF H!FreePort, H!StartServer, H!PortUnused, H!results, H!proxy

LEMMA PortUsedIs ==
    ASSUME HarnessTypes, H!PortUsed
    PROVE  /\ script = "wait" /\ script' \in {"port", "clear"} /\ n' = 1 /\ succeeded' = 0
           /\ UNCHANGED <<able, test, got, score, cached, blocked, mishaps>>
BY DEF H!PortUsed, H!proxy

LEMMA ClearIs ==
    ASSUME HarnessTypes, H!Clear
    PROVE  /\ script = "clear" /\ script' = (IF test = 2 THEN "direct" ELSE "fetch")
           /\ got'["noproxy"][FETCH_FILE] = "none"
           /\ UNCHANGED <<able, test, n, succeeded, score, cached, blocked, mishaps>>
<1>1. got'["noproxy"][FETCH_FILE] = "none"
  BY ListsAreFiles DEF H!Clear, H!ClearDirs, H!Nothing
<1>2. script = "clear" /\ script' = (IF test = 2 THEN "direct" ELSE "fetch")
  BY Sections DEF H!Clear, HarnessTypes
<1> QED BY <1>1, <1>2 DEF H!Clear

LEMMA FetchIs ==
    ASSUME HarnessTypes, LoopInv, H!Fetch
    PROVE  /\ script = "fetch" /\ UNCHANGED <<able, test, succeeded, score, blocked>>
           /\ IF test = 3 /\ n < Len(CacheList) THEN n' = n + 1 /\ script' = "fetch"
              ELSE /\ n' = n
                   /\ script' = (IF test = 1 THEN "direct" ELSE IF test = 2 THEN "compare"
                                 ELSE "kill_tiny")
           /\ got'["noproxy"] = got["noproxy"]
           /\ mishaps' = 0 => got'["proxy"][H!File] \in H!ThroughProxy(H!File)
           /\ cached' # {} => "caching" \in able \/ cached # {}
<1>1. PICK k \in H!ThroughProxy(H!File) :
          /\ H!Arrives("proxy", k)
          /\ cached' = IF H!Keeps(k) THEN cached \union {H!File} ELSE cached
  BY DEF H!Fetch
<1>2. k \in {"good", "bad", "none"} /\ script = "fetch"
  BY <1>1, KindsOf DEF H!Fetch
<1>3. /\ \/ got' = got /\ mishaps' # 0
         \/ /\ got'["proxy"][H!File] = k /\ UNCHANGED mishaps
            /\ \A c \in {"proxy", "noproxy"} : c # "proxy" => got'[c] = got[c]
  BY <1>1, <1>2, ArrivesType
<1>4. IF test = 3 /\ n < Len(CacheList) THEN n' = n + 1 /\ script' = script
      ELSE /\ script' = (IF test = 1 THEN "direct" ELSE IF test = 2 THEN "compare" ELSE "kill_tiny")
           /\ n' = n
  BY Sections DEF H!Fetch, HarnessTypes
<1>5. UNCHANGED <<able, test, succeeded, score, blocked>>
  BY DEF H!Fetch
<1>6. cached' # {} => "caching" \in able \/ cached # {}
  BY <1>1 DEF H!Keeps
<1> QED BY <1>1, <1>2, <1>3, <1>4, <1>5, <1>6

LEMMA DirectIs ==
    ASSUME HarnessTypes, LoopInv, H!Direct
    PROVE  /\ script = "direct" /\ test # 3 /\ script' = (IF test = 1 THEN "compare" ELSE "fetch")
           /\ UNCHANGED <<able, test, n, succeeded, score, cached, blocked>>
           /\ got'["proxy"] = got["proxy"]
           /\ mishaps' = 0 => got'["noproxy"][H!File] \in H!FromTiny
<1>1. PICK k \in H!FromTiny : H!Arrives("noproxy", k)
  BY DEF H!Direct
<1>2. k \in {"good", "bad", "none"} /\ script = "direct"
  BY <1>1, KindsOf DEF H!Direct
<1>3. /\ \/ got' = got /\ mishaps' # 0
         \/ /\ got'["noproxy"][H!File] = k /\ UNCHANGED mishaps
            /\ \A c \in {"proxy", "noproxy"} : c # "noproxy" => got'[c] = got[c]
  BY <1>1, <1>2, ArrivesType
<1>4. /\ UNCHANGED <<able, test, n, succeeded, score, cached, blocked>>
      /\ script' = (IF test = 1 THEN "compare" ELSE "fetch")
  BY Sections DEF H!Direct, HarnessTypes, H!proxy
<1> QED BY <1>1, <1>2, <1>3, <1>4 DEF LoopInv

LEMMA RefetchIs ==
    ASSUME HarnessTypes, LoopInv, H!Refetch
    PROVE  /\ script = "refetch" /\ test = 3 /\ script' = "compare" /\ H!File = FETCH_FILE
           /\ UNCHANGED <<able, test, n, succeeded, score, cached, blocked>>
           /\ \/ got' = got /\ mishaps' # 0
              \/ got'["noproxy"][FETCH_FILE] \in H!ThroughProxy(FETCH_FILE)
<1>1. PICK k \in H!ThroughProxy(H!File) : H!Arrives("noproxy", k)
  BY DEF H!Refetch
<1>2. k \in {"good", "bad", "none"} /\ script = "refetch"
  BY <1>1, KindsOf DEF H!Refetch
<1>3. test = 3 /\ H!File = FETCH_FILE
  BY <1>2, FileIs DEF LoopInv
<1>4. \/ got' = got /\ mishaps' # 0
      \/ got'["noproxy"][H!File] = k /\ UNCHANGED mishaps
  BY <1>1, <1>2, ArrivesType
<1>5. /\ UNCHANGED <<able, test, n, succeeded, score, cached, blocked>>
      /\ script' = "compare"
  BY DEF H!Refetch, H!proxy
<1> QED BY <1>1, <1>2, <1>3, <1>4, <1>5

LEMMA KillTinyIs ==
    ASSUME HarnessTypes, LoopInv, H!KillTiny
    PROVE  /\ script = "kill_tiny" /\ test = 3 /\ script' = "refetch"
           /\ UNCHANGED <<able, test, n, got, succeeded, score, cached, blocked, mishaps>>
BY DEF H!KillTiny, LoopInv, H!results, H!proxy

LEMMA KillAllIs ==
    ASSUME HarnessTypes, H!KillAll
    PROVE  /\ script = "kill"
           /\ IF test < 3 THEN test' = test + 1 /\ script' = "port" ELSE test' = 3 /\ script' = "exit"
           /\ blocked' = FALSE /\ cached' = {}
           /\ UNCHANGED <<able, n, got, succeeded, score, mishaps>>
BY DEF H!KillAll, H!results, H!Tests, HarnessTypes

-----------------------------------------------------------------------------
(* The marks of a proxy that caches nothing.                               *)
LEMMA CacheKept ==
    ASSUME H!HarnessAssumption, HarnessInv, [H!Next]_(H!vars), HarnessTypes' PROVE CacheInv'
<1>0. /\ HarnessTypes /\ LoopInv /\ OwnerInv /\ StrangerInv /\ ServerInv /\ CacheInv
      /\ ~intruded' => ~intruded
  BY NoStrangerBefore DEF HarnessInv
<1>1. CASE H!FreePort \/ H!StartServer \/ H!PortUnused
  BY <1>0, <1>1, Idles DEF CacheInv, Working
<1>2. CASE H!PortUsed
  BY <1>0, <1>2, PortUsedIs DEF CacheInv, Working
<1>3. CASE H!Clear
  BY <1>0, <1>3, ClearIs DEF CacheInv, Working
<1>4. CASE H!Fetch
  BY <1>0, <1>4, FetchIs DEF CacheInv, Working
<1>5. CASE H!Direct
  BY <1>0, <1>5, DirectIs DEF CacheInv, Working
<1>6. CASE H!KillTiny
  BY <1>0, <1>6, KillTinyIs DEF CacheInv, Working
<1>7. CASE H!Refetch
  <2>1. /\ script = "refetch" /\ test = 3 /\ script' = "compare"
        /\ UNCHANGED <<able, test, n, succeeded, score, cached, blocked>>
        /\ \/ got' = got
           \/ got'["noproxy"][FETCH_FILE] \in H!ThroughProxy(FETCH_FILE)
    BY <1>0, <1>7, RefetchIs
  <2>2. proc["tiny"] = "none"
    BY <1>0, <2>1, Ranks DEF ServerInv, Begun
  <2>3. ~H!Reaches("tiny", "tiny")
    BY <1>0, <2>2, DownListensNot, Ranks DEF H!Reaches
  <2>4. ~intruded' /\ got'["noproxy"][FETCH_FILE] = "good" => FETCH_FILE \in cached
    BY <1>0, <2>1, <2>3, OnlyFromCache DEF CacheInv
  <2> QED BY <1>0, <2>1, <2>4 DEF CacheInv, Working
<1>8. CASE H!Compare
  <2>1. /\ script = "compare" /\ UNCHANGED <<able, test, got, cached, blocked, mishaps>>
        /\ script' \in {"clear", "kill"} /\ (test # 1 => script' = "kill")
        /\ test # 3 => score'["cache"] = score["cache"]
        /\ test = 3 => score'["cache"] = 15 * succeeded'
    BY <1>0, <1>8, CompareIs DEF HarnessTypes
  <2>2. PICK same \in H!Same(H!File) : succeeded' = succeeded + (IF same THEN 1 ELSE 0)
    BY <1>0, <1>8, CompareIs
  <2>3. ASSUME test = 3, score'["cache"] > 0, ~intruded PROVE "caching" \in able
    <3>1. succeeded = 0 /\ H!File = FETCH_FILE /\ FETCH_FILE \in H!Files
      BY <1>0, <2>1, <2>3, FileIs DEF CacheInv, Working
    <3>2. same
      BY <2>1, <2>2, <2>3, <3>1
    <3>3. got["noproxy"][FETCH_FILE] = "good"
      BY <1>0, <2>3, <3>1, <3>2, SameIs
    <3> QED BY <1>0, <2>1, <2>3, <3>3 DEF CacheInv
  <2> QED BY <1>0, <2>1, <2>3 DEF CacheInv, Working, HarnessTypes
<1>9. CASE H!KillAll
  BY <1>0, <1>9, KillAllIs DEF CacheInv, Working
<1>10. CASE H!Next /\ ~H!Script
  BY <1>0, <1>10, OthersLeave DEF CacheInv, Working, Script
<1>11. CASE UNCHANGED H!vars
  BY <1>0, <1>11 DEF CacheInv, Working, H!vars, H!harness, H!results, H!proxy
<1> QED BY <1>1, <1>2, <1>3, <1>4, <1>5, <1>6, <1>7, <1>8, <1>9, <1>10, <1>11, Zenon
        DEF H!Next, H!Script

LEMMA Below ==
    ASSUME NEW k \in Nat, NEW m \in Nat \ {0}, k < m PROVE (40 * k) \div m < 40
<1>1. (40 * k) \div m \in Int
  OBVIOUS
<1>2. m * ((40 * k) \div m) <= 40 * k
  OBVIOUS
<1>3. ASSUME (40 * k) \div m >= 40 PROVE FALSE
  <2>1. m * ((40 * k) \div m) >= m * 40
    BY <1>1, <1>3
  <2> QED BY <1>2, <2>1
<1> QED BY <1>1, <1>3

LEMMA All == ASSUME NEW m \in Nat \ {0} PROVE (40 * m) \div m = 40
OBVIOUS

LEMMA LastOne ==
    ASSUME NEW m \in Nat, NEW k \in 1..m, ~(k < m) PROVE k = m /\ k # 0
OBVIOUS

LEMMA BasicKept ==
    ASSUME H!HarnessAssumption, HarnessInv, [H!Next]_(H!vars), HarnessTypes' PROVE BasicInv'
<1>0. /\ HarnessTypes /\ LoopInv /\ OwnerInv /\ StrangerInv /\ ServerInv /\ BasicInv
      /\ n \in Nat /\ succeeded \in Nat
  BY DEF HarnessInv, HarnessTypes
<1>1. CASE H!FreePort \/ H!StartServer \/ H!PortUnused
  BY <1>0, <1>1, Idles DEF BasicInv, Working
<1>2. CASE H!PortUsed
  BY <1>0, <1>2, PortUsedIs DEF BasicInv, Working
<1>3. CASE H!Clear
  BY <1>0, <1>3, ClearIs DEF BasicInv, Working
<1>4. CASE H!Fetch
  <2>1. test = 1 => H!File = BasicList[n]
    BY <1>0, <1>4, FileIs DEF H!Fetch
  <2>2. ASSUME mishaps' = 0, "binary" \notin able, test = 1, BasicList[n] \in Binaries
        PROVE  got'["proxy"][BasicList[n]] # "good"
    <3>1. ~intruded
      BY <1>0, <2>2, NobodyElse DEF StrangerInv
    <3> QED BY <1>0, <1>4, <2>1, <2>2, <3>1, FetchIs, BinaryBad
  <2>3. mishaps' = 0 => mishaps = 0
    BY <1>0, NobodyElse
  <2> QED BY <1>0, <1>4, <2>2, <2>3, FetchIs DEF BasicInv, Working
<1>5. CASE H!Direct
  <2>1. test = 1 => H!File = BasicList[n]
    BY <1>0, <1>5, FileIs DEF H!Direct
  <2>2. ASSUME mishaps' = 0, test = 1
        PROVE  got'["noproxy"][BasicList[n]] = "good"
    <3>1. Ready
      BY <1>0, <2>2, NobodyElse DEF ServerInv
    <3>2. proc["tiny"] = "up"
      BY <1>0, <1>5, <3>1, DirectIs, Ranks DEF Ready, Needed
    <3> QED BY <1>0, <1>5, <2>1, <2>2, <3>2, DirectIs, TinyGood
  <2>3. mishaps' = 0 => mishaps = 0
    BY <1>0, NobodyElse
  <2> QED BY <1>0, <1>5, <2>2, <2>3, DirectIs DEF BasicInv, Working
<1>6. CASE H!KillTiny
  BY <1>0, <1>6, KillTinyIs DEF BasicInv, Working
<1>7. CASE H!Refetch
  <2>1. mishaps' = 0 => mishaps = 0
    BY <1>0, NobodyElse
  <2> QED BY <1>0, <1>7, <2>1, RefetchIs DEF BasicInv, Working
<1>8. CASE H!Compare
  <2>1. /\ script = "compare" /\ UNCHANGED <<able, test, got, mishaps>>
        /\ IF test = 1 /\ n < Len(BasicList) THEN n' = n + 1 /\ script' = "clear" /\ score' = score
           ELSE n' = n /\ script' = "kill"
        /\ test = 1 /\ ~(n < Len(BasicList)) => score'["basic"] = (40 * succeeded') \div n
        /\ test # 1 => score'["basic"] = score["basic"]
    BY <1>0, <1>8, CompareIs DEF HarnessTypes
  <2>2. PICK same \in H!Same(H!File) : succeeded' = succeeded + (IF same THEN 1 ELSE 0)
    BY <1>0, <1>8, CompareIs
  <2>3. test = 1 => H!File = BasicList[n] /\ H!File \in H!Files
    BY <1>0, <2>1, FileIs
  <2>4. test = 1 => succeeded' <= n
    BY <1>0, <2>1, <2>2 DEF BasicInv, Working
  <2>5. ASSUME mishaps = 0, "binary" \notin able, test = 1,
               \E k \in 1..n : BasicList[k] \in Binaries
        PROVE  succeeded' < n
    <3>1. CASE \E k \in 1..(n - 1) : BasicList[k] \in Binaries
      <4>1. succeeded < n - 1
        BY <1>0, <2>1, <2>5, <3>1 DEF BasicInv, Working
      <4> QED BY <1>0, <2>2, <4>1
    <3>2. CASE BasicList[n] \in Binaries
      <4>1. got["proxy"][BasicList[n]] # "good" /\ got["noproxy"][BasicList[n]] = "good"
        BY <1>0, <2>1, <2>5, <3>2 DEF BasicInv
      <4>2. ~same
        BY <1>0, <2>3, <2>5, <4>1, SameIs
      <4> QED BY <1>0, <2>1, <2>2, <2>5, <4>2 DEF BasicInv, Working
    <3> QED BY <1>0, <2>5, <3>1, <3>2
  <2>6. CASE test = 1 /\ n < Len(BasicList)
    <3>1. n' = n + 1 /\ script' = "clear" /\ score' = score
      BY <2>1, <2>6
    <3>2. n' - 1 = n
      BY <1>0, <3>1
    <3> QED BY <1>0, <2>1, <2>4, <2>5, <2>6, <3>1, <3>2 DEF BasicInv, Working
  <2>7. CASE test = 1 /\ ~(n < Len(BasicList))
    <3>1. n' = n /\ script' = "kill" /\ score'["basic"] = (40 * succeeded') \div n
      BY <2>1, <2>7
    <3>2. n = Len(BasicList) /\ n # 0
      <4>1. n \in DOMAIN BasicList
        BY <1>0, <2>1, <2>7 DEF LoopInv, Working
      <4>2. Len(BasicList) \in Nat /\ DOMAIN BasicList = 1..Len(BasicList)
        BY Lists, Zenon
      <4>3. n \in 1..Len(BasicList)
        BY <4>1, <4>2, Zenon
      <4> QED BY <2>7, <4>2, <4>3, LastOne, Zenon
    <3>3. \E k \in 1..n : BasicList[k] \in Binaries
      BY <3>2, Lists, Zenon DEF H!HarnessAssumption
    <3>4. succeeded' \in Nat
      BY DEF HarnessTypes
    <3>5. mishaps = 0 /\ "binary" \notin able => score'["basic"] < 40
      BY <1>0, <2>5, <2>7, <3>1, <3>2, <3>3, <3>4, Below
    <3> QED BY <2>1, <3>1, <3>5 DEF BasicInv, Working, H!Marks
  <2>8. CASE test # 1
    BY <1>0, <2>1, <2>8 DEF BasicInv, Working
  <2> QED BY <2>6, <2>7, <2>8
<1>9. CASE H!KillAll
  BY <1>0, <1>9, KillAllIs DEF BasicInv, Working
<1>10. CASE H!Next /\ ~H!Script
  <2>1. mishaps' = 0 => mishaps = 0
    BY <1>0, NobodyElse
  <2> QED BY <1>0, <1>10, <2>1, OthersLeave DEF BasicInv, Working, Script
<1>11. CASE UNCHANGED H!vars
  BY <1>0, <1>11 DEF BasicInv, Working, H!vars, H!harness, H!results, H!proxy
<1> QED BY <1>1, <1>2, <1>3, <1>4, <1>5, <1>6, <1>7, <1>8, <1>9, <1>10, <1>11, Zenon
        DEF H!Next, H!Script

-----------------------------------------------------------------------------
(* The marks of a proxy that can do everything.                            *)
LEMMA AbleKept == ASSUME [H!Next]_(H!vars) PROVE able' = able
<1>1. ASSUME NEW x \in H!Servers, H!Binds(x) \/ H!Crash(x) PROVE able' = able
  BY <1>1 DEF H!Binds, H!Crash
<1>2. ASSUME NEW q \in H!Ports, H!StrangerBinds(q) \/ H!StrangerLeaves(q) PROVE able' = able
  BY <1>2 DEF H!StrangerBinds, H!StrangerLeaves
<1>3. CASE H!Script
  BY <1>3 DEF H!Script, H!FreePort, H!StartServer, H!PortUsed, H!PortUnused,
        H!Clear, H!Fetch,
              H!Direct, H!KillTiny, H!Refetch, H!Compare, H!KillAll
<1>4. CASE H!NopArrives \/ H!NopOver \/ UNCHANGED H!vars
  BY <1>4 DEF H!NopArrives, H!NopOver, H!vars
<1> QED BY <1>1, <1>2, <1>3, <1>4, Zenon DEF H!Next

LEMMA NeverBlocked ==
    ASSUME HarnessInv, [H!Next]_(H!vars) PROVE "concurrent" \in able' => ~blocked'
<1>0. HarnessTypes /\ LoopInv /\ ("concurrent" \in able => ~blocked) /\ able' = able
  BY AbleKept DEF HarnessInv, FullInv
<1>1. CASE H!FreePort \/ H!StartServer \/ H!PortUnused
  BY <1>0, <1>1, Idles
<1>2. CASE H!PortUsed \/ H!Clear \/ H!Fetch \/ H!Direct
  BY <1>0, <1>2, PortUsedIs, ClearIs, FetchIs, DirectIs
<1>3. CASE H!KillTiny \/ H!Refetch \/ H!Compare \/ H!KillAll
  BY <1>0, <1>3, KillTinyIs, RefetchIs, CompareIs, KillAllIs
<1>4. CASE H!NopArrives
  BY <1>0, <1>4 DEF H!NopArrives
<1>5. CASE H!NopOver \/ UNCHANGED H!vars
  BY <1>0, <1>5 DEF H!NopOver, H!vars, H!proxy
<1>6. ASSUME NEW x \in H!Servers, H!Binds(x) \/ H!Crash(x) PROVE blocked' = blocked
  BY <1>6 DEF H!Binds, H!Crash, H!proxy
<1>7. ASSUME NEW q \in H!Ports, H!StrangerBinds(q) \/ H!StrangerLeaves(q) PROVE blocked' = blocked
  BY <1>7 DEF H!StrangerBinds, H!StrangerLeaves, H!proxy
<1> QED BY <1>0, <1>1, <1>2, <1>3, <1>4, <1>5, <1>6, <1>7, Zenon DEF H!Next, H!Script

(* While both servers are up, every file comes through and is kept.        *)
LEMMA FullFetch ==
    ASSUME HarnessTypes, LoopInv, OwnerInv, Ready, Full, ~blocked, ~intruded, H!Fetch,
           mishaps' = 0
    PROVE  got'["proxy"][H!File] = "good" /\ cached' = cached \union {H!File}
<1>1. proc["proxy"] = "up" /\ proc["tiny"] = "up"
  <2>1. script = "fetch"
    BY DEF H!Fetch
  <2> QED BY <2>1, Ranks DEF Ready, Needed
<1>2. H!ThroughProxy(H!File) = {"good"}
  BY <1>1, FullGood DEF Full
<1>3. H!Reaches("proxy", "proxy") /\ H!Reaches("tiny", "tiny") /\ "caching" \in able
  BY <1>1, UpListens, Ranks DEF H!Reaches, Full
<1>4. PICK k \in H!ThroughProxy(H!File) :
          cached' = IF H!Keeps(k) THEN cached \union {H!File} ELSE cached
  BY DEF H!Fetch
<1>5. k = H!Relayed(H!File)
  BY <1>2 DEF H!Relayed, Full
<1>6. H!Keeps(k)
  BY <1>3, <1>5 DEF H!Keeps
<1> QED BY <1>2, <1>4, <1>6, FetchIs

LEMMA FullFetched ==
    ASSUME H!HarnessAssumption, HarnessTypes, HarnessTypes', LoopInv, OwnerInv, Ready, Full,
           ~blocked, ~intruded, H!Fetch, mishaps' = 0, AllSo
    PROVE  AllSo'
<1>1. /\ script = "fetch" /\ UNCHANGED <<test, succeeded, score>>
      /\ IF test = 3 /\ n < Len(CacheList) THEN n' = n + 1 /\ script' = "fetch"
         ELSE /\ n' = n
              /\ script' = (IF test = 1 THEN "direct" ELSE IF test = 2 THEN "compare"
                            ELSE "kill_tiny")
      /\ got'["noproxy"] = got["noproxy"]
  BY FetchIs
<1>2. got'["proxy"][H!File] = "good" /\ cached' = cached \union {H!File}
  BY FullFetch
<1>3. /\ test = 1 => H!File = BasicList[n]
      /\ test = 2 => H!File = FETCH_FILE
      /\ test = 3 => H!File = CacheList[n]
  BY <1>1, FileIs
<1>4. n \in Nat \ {0} /\ test \in 1..3
  BY DEF HarnessTypes
<1>5. CASE test = 1
  BY <1>1, <1>2, <1>3, <1>5 DEF AllSo, Working, Good
<1>6. CASE test = 2
  BY <1>1, <1>2, <1>3, <1>6 DEF AllSo, Working, Good
<1>7. CASE test = 3
  <2>1. \A k \in 1..n : CacheList[k] \in cached'
    <3>1. \A k \in 1..(n - 1) : CacheList[k] \in cached'
      BY <1>1, <1>2, <1>7 DEF AllSo
    <3>2. CacheList[n] \in cached'
      BY <1>2, <1>3, <1>7
    <3> QED BY <1>4, <3>1, <3>2
  <2>2. CASE n < Len(CacheList)
    <3>1. n' - 1 = n /\ script' = "fetch"
      BY <1>1, <1>4, <1>7, <2>2
    <3> QED BY <1>1, <1>7, <2>1, <3>1 DEF AllSo
  <2>3. CASE ~(n < Len(CacheList))
    <3>1. PICK k \in DOMAIN CacheList : CacheList[k] = FETCH_FILE
      BY DEF H!HarnessAssumption
    <3>2. Len(CacheList) \in Nat /\ DOMAIN CacheList = 1..Len(CacheList)
      BY Lists, Zenon
    <3>3. k \in 1..Len(CacheList)
      BY <3>1, <3>2, Zenon
    <3>4. k \in 1..n
      BY <1>4, <2>3, <3>2, <3>3
    <3>5. FETCH_FILE \in cached'
      BY <2>1, <3>1, <3>4
    <3>6. n' = n /\ script' = "kill_tiny"
      BY <1>1, <1>7, <2>3
    <3> QED BY <1>1, <1>7, <3>5, <3>6 DEF AllSo
  <2> QED BY <2>2, <2>3
<1> QED BY <1>4, <1>5, <1>6, <1>7

LEMMA FullCompared ==
    ASSUME HarnessTypes, HarnessTypes', LoopInv, CacheInv, H!Compare, AllSo
    PROVE  AllSo'
<1>0. n \in Nat \ {0} /\ test \in 1..3 /\ n \in Nat
  BY DEF HarnessTypes
<1>1. script = "compare" /\ UNCHANGED <<test, got, cached>>
  BY CompareIs
<1>2. PICK same \in H!Same(H!File) : succeeded' = succeeded + (IF same THEN 1 ELSE 0)
  BY CompareIs
<1>3. /\ H!File \in H!Files
      /\ test = 1 => H!File = BasicList[n]
      /\ test # 1 => H!File = FETCH_FILE
  BY <1>1, FileIs DEF HarnessTypes
<1>4. same
  <2>1. /\ got["noproxy"][H!File] = "good"
        /\ test # 3 => got["proxy"][H!File] = "good"
    BY <1>0, <1>1, <1>3 DEF AllSo, Good
  <2> QED BY <1>0, <1>3, <2>1, SameIs
<1>5. succeeded' = succeeded + 1
  BY <1>2, <1>4
<1>6. CASE test = 1
  <2>1. succeeded = n - 1
    BY <1>1, <1>6 DEF AllSo, Working
  <2>2. succeeded' = n
    BY <1>0, <1>5, <2>1
  <2>3. CASE n < Len(BasicList)
    <3>1. n' = n + 1 /\ script' = "clear"
      BY <1>6, <2>3, CompareIs
    <3>2. succeeded' = n' - 1
      BY <1>0, <2>2, <3>1
    <3> QED BY <1>1, <1>6, <3>1, <3>2 DEF AllSo
  <2>4. CASE ~(n < Len(BasicList))
    <3>1. script' = "kill" /\ score'["basic"] = (40 * succeeded') \div n
      BY <1>6, <2>4, CompareIs
    <3>2. score'["basic"] = 40
      BY <1>0, <2>2, <3>1, All
    <3> QED BY <1>1, <1>6, <3>1, <3>2 DEF AllSo, Working
  <2> QED BY <2>3, <2>4
<1>7. CASE test \in {2, 3}
  <2>1. succeeded = 0
    BY <1>1, <1>7 DEF CacheInv, Working
  <2>2. 15 * succeeded' = 15
    BY <1>5, <2>1
  <2>3. script' = "kill" /\ score'["basic"] = score["basic"]
    BY <1>7, CompareIs
  <2>4. /\ test = 2 => score'["concurrency"] = 15
        /\ test = 3 => score'["cache"] = 15 /\ score'["concurrency"] = score["concurrency"]
    BY <1>7, <2>2, CompareIs
  <2> QED BY <1>1, <1>7, <2>3, <2>4 DEF AllSo, Working
<1> QED BY <1>0, <1>6, <1>7

LEMMA FullKept ==
    ASSUME H!HarnessAssumption, HarnessInv, [H!Next]_(H!vars), HarnessTypes' PROVE FullInv'
<1>0. /\ HarnessTypes /\ LoopInv /\ OwnerInv /\ StrangerInv /\ ServerInv /\ CacheInv /\ FullInv
      /\ n \in Nat /\ succeeded \in Nat /\ test \in 1..3
  BY DEF HarnessInv, HarnessTypes
<1>1. SUFFICES ASSUME mishaps' = 0, Full PROVE AllSo'
  BY NeverBlocked, AbleKept DEF FullInv, Full
<1>2. Ready /\ AllSo /\ ~blocked /\ ~intruded
  BY <1>0, <1>1, NobodyElse DEF ServerInv, StrangerInv, FullInv, Full
<1>3. CASE H!FreePort \/ H!StartServer \/ H!PortUnused
  BY <1>0, <1>2, <1>3, Idles DEF AllSo, Working
<1>4. CASE H!PortUsed
  BY <1>0, <1>2, <1>4, PortUsedIs DEF AllSo, Working
<1>5. CASE H!Clear
  BY <1>0, <1>2, <1>5, ClearIs DEF AllSo, Working
<1>6. CASE H!Fetch
  BY <1>0, <1>1, <1>2, <1>6, FullFetched
<1>7. CASE H!Direct
  <2>1. /\ script = "direct" /\ test # 3 /\ script' = (IF test = 1 THEN "compare" ELSE "fetch")
        /\ UNCHANGED <<test, n, succeeded, score, cached>> /\ got'["proxy"] = got["proxy"]
    BY <1>0, <1>7, DirectIs
  <2>2. proc["tiny"] = "up"
    BY <1>2, <2>1, Ranks DEF Ready, Needed
  <2>3. got'["noproxy"][H!File] = "good"
    BY <1>0, <1>1, <1>7, <2>2, DirectIs, TinyGood
  <2>4. H!File = IF test = 1 THEN BasicList[n] ELSE FETCH_FILE
    BY <1>0, <2>1, FileIs
  <2> QED BY <1>0, <1>2, <2>1, <2>3, <2>4 DEF AllSo, Working, Good
<1>8. CASE H!KillTiny
  BY <1>0, <1>2, <1>8, KillTinyIs DEF AllSo, Working
<1>9. CASE H!Refetch
  <2>1. /\ script = "refetch" /\ test = 3 /\ script' = "compare"
        /\ UNCHANGED <<test, n, succeeded, score, cached>>
        /\ got'["noproxy"][FETCH_FILE] \in H!ThroughProxy(FETCH_FILE)
    BY <1>0, <1>1, <1>9, RefetchIs
  <2>2. FETCH_FILE \in cached /\ proc["proxy"] = "up"
    BY <1>2, <2>1 DEF AllSo, Ready
  <2>3. H!ThroughProxy(FETCH_FILE) = {"good"}
    BY <1>0, <1>1, <1>2, <2>2, FullGood DEF Full
  <2> QED BY <1>0, <1>2, <2>1, <2>3 DEF AllSo, Working, Good
<1>10. CASE H!Compare
  BY <1>0, <1>2, <1>10, FullCompared
<1>11. CASE H!KillAll
  <2>1. /\ script = "kill" /\ UNCHANGED <<n, got, succeeded, score>>
        /\ IF test < 3 THEN test' = test + 1 /\ script' = "port" ELSE test' = 3 /\ script' = "exit"
    BY <1>0, <1>11, KillAllIs
  <2> QED BY <1>0, <1>2, <2>1 DEF AllSo, Working
<1>12. CASE H!Next /\ ~H!Script
  <2>1. UNCHANGED <<test, script, n, succeeded, score, got, cached>>
    BY <1>12, OthersLeave DEF Script
  <2> QED BY <1>2, <2>1 DEF AllSo, Working, Good
<1>13. CASE UNCHANGED H!vars
  BY <1>2, <1>13 DEF AllSo, Working, Good, H!vars, H!harness, H!results, H!proxy
<1> QED BY <1>3, <1>4, <1>5, <1>6, <1>7, <1>8, <1>9, <1>10, <1>11, <1>12, <1>13, Zenon
        DEF H!Next, H!Script

-----------------------------------------------------------------------------
LEMMA HarnessStep ==
    ASSUME H!HarnessAssumption, HarnessInv, [H!Next]_(H!vars) PROVE HarnessInv'
<1>1. HarnessTypes' /\ LoopInv'
  BY TypesKept
<1>2. OwnerInv' /\ StrangerInv' /\ CacheInv' /\ BasicInv' /\ FullInv'
  BY <1>1, OwnersKept, StrangersKept, CacheKept, BasicKept, FullKept
<1>3. \A x \in H!Servers : ~Begun(x)' => proc'[x] = "none"
  BY <1>1, ServersKept
<1>4. mishaps' = 0 => Ready'
  BY <1>1, ReadyKept, NobodyElse DEF HarnessInv, ServerInv
<1> QED BY <1>1, <1>2, <1>3, <1>4 DEF HarnessInv, ServerInv

LEMMA HarnessIs ==
    ASSUME HarnessInv
    PROVE  H!ServersReady /\ H!MarksEarned /\ H!FullMarks /\ H!LeavesNothing
<1>0. /\ HarnessTypes /\ LoopInv /\ OwnerInv /\ ServerInv /\ CacheInv /\ BasicInv /\ FullInv
      /\ test \in 1..3
  BY DEF HarnessInv, HarnessTypes
<1>1. H!ServersReady
  <2>1. SUFFICES ASSUME H!Testing, mishaps = 0, NEW x \in H!Killed
                 PROVE  proc[x] = "up" /\ owner[port[x]] = x
    BY DEF H!ServersReady
  <2>2. x \in H!Servers /\ Rank[x] <= Needed
    BY <1>0, SectionStarts
  <2>3. proc[x] = "up"
    BY <1>0, <2>1, <2>2 DEF ServerInv, Ready, H!Testing
  <2> QED BY <1>0, <2>2, <2>3 DEF OwnerInv
<1>2. H!MarksEarned
  <2>1. score["basic"] = H!Marks["basic"] /\ mishaps = 0 => "binary" \in able
    <3>1. H!Marks["basic"] = 40 /\ score["basic"] \in Int
      BY <1>0 DEF H!Marks, HarnessTypes
    <3>2. mishaps = 0 /\ "binary" \notin able => score["basic"] < H!Marks["basic"]
      BY <1>0 DEF BasicInv
    <3> QED BY <3>1, <3>2
  <2> QED BY <1>0, <2>1 DEF H!MarksEarned, CacheInv
<1>3. H!FullMarks
  <2>1. SUFFICES ASSUME script = "exit", mishaps = 0, Full PROVE score = H!Marks
    BY DEF H!FullMarks, Full
  <2>2. AllSo
    BY <1>0, <2>1 DEF FullInv
  <2>3. test = 3
    BY <1>0, <2>1 DEF LoopInv
  <2>4. score["basic"] = 40 /\ score["concurrency"] = 15 /\ score["cache"] = 15
    BY <2>1, <2>2, <2>3 DEF AllSo
  <2> QED BY <1>0, <2>4 DEF HarnessTypes, H!Marks
<1>4. H!LeavesNothing
  BY <1>0 DEF H!LeavesNothing, ServerInv, Begun
<1> QED BY <1>1, <1>2, <1>3, <1>4

(* driver.sh:205-408, for any ports, tries, lists of files and proxies:    *)
(* undisturbed, a test begins only when each server it needs is up and     *)
(* listens on the port reserved for it, a proxy that relays no binary files*)
(* misses marks of the basic test, and one that can do everything gets all *)
(* marks; as long as no stranger takes a port, marks for the cache go to   *)
(* proxies that cache only; and a script that reaches its last line leaves *)
(* no server behind, as every server ends when it is killed.  Where        *)
(* strangers take ports nothing is said of the marks, and nothing of the   *)
(* servers of a script that the ALRM handler ends.                         *)
THEOREM HarnessIsSound == SupportSpec => []HarnessSound
<1> DEFINE Inv == part = "harness" => HarnessInv
<1>0. H!HarnessAssumption
  BY Assumptions
<1>1. AnyInit => Inv
  BY <1>0, HarnessInit DEF AnyInit
<1>2. Inv /\ [SupportNext]_supportvars => Inv'
  <2> SUFFICES ASSUME Inv, [SupportNext]_supportvars, part' = "harness" PROVE HarnessInv'
    OBVIOUS
  <2>1. part = "harness" /\ [H!Next]_(H!vars)
    <3>1. CASE SocketsNext
      BY <3>1 DEF SocketsNext
    <3>2. CASE WrappersNext
      BY <3>2 DEF WrappersNext
    <3>3. CASE OutputNext
      BY <3>3 DEF OutputNext
    <3>4. CASE FcycNext
      BY <3>4 DEF FcycNext
    <3>5. CASE HarnessNext
      BY <3>5 DEF HarnessNext
    <3>6. CASE UNCHANGED supportvars
      BY <3>6 DEF supportvars, harnessvars, H!vars, H!harness, H!machine,
            H!results, H!proxy
    <3> QED BY <3>1, <3>2, <3>3, <3>4, <3>5, <3>6 DEF SupportNext
  <2> QED BY <1>0, <2>1, HarnessStep
<1>3. Inv => HarnessSound
  BY HarnessIs DEF HarnessSound
<1> QED BY <1>1, <1>2, <1>3, PTL DEF SupportSpec
-----------------------------------------------------------------------------
(* The inductive invariant of sio_putl.  Acts are the activations, Abs the *)
(* number without its sign.  g[k] is what is left of it after k digits:    *)
(* the digits are the remainders of g, the last one first.                 *)
Acts == S!Activations
Abs(a) == IF asked[a] < 0 THEN -asked[a] ELSE asked[a]

Tenths(m, g) == \A k \in 0..(m - 1) : g[k + 1] = g[k] \div 10
Quotients(a, m, g) ==
    /\ g \in [0..m -> Nat] /\ g[0] = Abs(a)
    /\ Tenths(m, g)

(* All m digits of the number, of which the first is no 0 if there are more*)
Spelt(a, m, g) ==
    /\ m \in 1..W /\ Quotients(a, m, g) /\ g[m] = 0
    /\ m = 1 \/ g[m - 1] > 0

Figure(m, g, k) == IF k < m THEN 48 + (g[k] % 10) ELSE 45
Size2(a, m) == IF asked[a] < 0 THEN m + 1 ELSE m

SioShape ==
    /\ putl = [a \in Acts |-> putl[a]] /\ asked = [a \in Acts |-> asked[a]]
    /\ v = [a \in Acts |-> v[a]] /\ neg = [a \in Acts |-> neg[a]]
    /\ i = [a \in Acts |-> i[a]] /\ j = [a \in Acts |-> j[a]]
    /\ s = [a \in Acts |-> s[a]] /\ written = [a \in Acts |-> written[a]]

SioTypes(a) ==
    /\ putl[a] \in {"idle", "digits", "sign", "end", "reverse", "swap", "done"}
    /\ asked[a] \in Int /\ v[a] \in Nat /\ i[a] \in Int /\ j[a] \in Int
    /\ neg[a] = (asked[a] < 0) /\ s[a] \in [0..(Size - 1) -> Int]
    /\ Abs(a) < S!TwoTo[W - 1]

DigitsInv(a) == \E g :
    /\ Quotients(a, i[a], g) /\ g[i[a]] = v[a]
    /\ i[a] \in 0..(W - 1) /\ v[a] < S!TwoTo[W - 1 - i[a]]
    /\ i[a] = 0 \/ v[a] > 0
    /\ \A k \in 0..(i[a] - 1) : s[a][k] = 48 + (g[k] % 10)

SignInv(a) == \E g :
    /\ Spelt(a, i[a], g)
    /\ \A k \in 0..(i[a] - 1) : s[a][k] = Figure(i[a], g, k)

EndInv(a) == \E m, g :
    /\ Spelt(a, m, g) /\ i[a] = Size2(a, m)
    /\ \A k \in 0..(i[a] - 1) : s[a][k] = Figure(m, g, k)
    /\ putl[a] = "reverse" => s[a][i[a]] = 0

(* The ends have been exchanged, what is between i and j has not.          *)
SwapInv(a) == \E m, g :
    /\ Spelt(a, m, g) /\ i[a] >= 0 /\ i[a] <= j[a] + 1 /\ i[a] + j[a] = Size2(a, m) - 1
    /\ \A k \in 0..(Size2(a, m) - 1) :
          s[a][k] = Figure(m, g, IF k < i[a] \/ k > j[a] THEN Size2(a, m) - 1 - k ELSE k)
    /\ s[a][Size2(a, m)] = 0

DoneInv(a) == \E m, g :
    /\ Spelt(a, m, g)
    /\ written[a] = [k \in 1..Size2(a, m) |-> Figure(m, g, Size2(a, m) - k)]

Exact(a) ==
    /\ SioTypes(a)
    /\ putl[a] = "digits" => DigitsInv(a)
    /\ putl[a] = "sign" => SignInv(a)
    /\ putl[a] \in {"end", "reverse"} => EndInv(a)
    /\ putl[a] = "swap" => SwapInv(a)
    /\ putl[a] = "done" => DoneInv(a)

(* The most negative number is not put as it is (csapp.c:244).             *)
Spoilt(a) == asked[a] = S!LONG_MIN /\ putl[a] # "idle"

SioInv == SioShape /\ \A a \in Acts : Exact(a) \/ Spoilt(a)

-----------------------------------------------------------------------------
(* Induction up to a bound, for sets, and the powers of two.               *)
LEMMA UpToBound ==
    ASSUME NEW m \in Nat, NEW T, 0 \in T, \A k \in 0..(m - 1) : k \in T => k + 1 \in T
    PROVE  \A k \in 0..m : k \in T
<1> DEFINE B == {k \in 0..m : k \notin T}
<1>1. B \subseteq Nat /\ \A k \in B : k \in 0..m /\ k \notin T
  OBVIOUS
<1>2. \A k \in 0..m : k \notin T => k \in B
  OBVIOUS
<1> HIDE DEF B
<1>3. SUFFICES ASSUME B # {} PROVE FALSE
  BY <1>2
<1>4. PICK k \in B : \A q \in B : k <= q
  BY <1>1, <1>3, LeastExists
<1>5. k \in 0..m /\ k \notin T /\ k # 0
  BY <1>1
<1>6. PICK q \in 0..(m - 1) : q + 1 = k
  <2>1. k - 1 \in 0..(m - 1) /\ (k - 1) + 1 = k
    BY <1>5
  <2> QED BY <2>1
<1>7. q \notin T /\ q \in 0..m /\ q < k
  BY <1>5, <1>6
<1>8. q \in B
  BY <1>2, <1>7
<1> QED BY <1>4, <1>5, <1>7, <1>8

IsTwoTo(f, m) == f = [k \in 0..m |-> IF k = 0 THEN 1 ELSE 2 * f[k - 1]]

LEMMA TwoToMore ==
    ASSUME NEW m \in Nat, NEW f, IsTwoTo(f, m) PROVE \E h : IsTwoTo(h, m + 1)
<1> DEFINE h == [k \in 0..(m + 1) |-> IF k = m + 1 THEN 2 * f[m] ELSE f[k]]
<1>1. \A k \in 0..m : f[k] = IF k = 0 THEN 1 ELSE 2 * f[k - 1]
  BY DEF IsTwoTo
<1>2. h[m + 1] = 2 * f[m] /\ \A k \in 0..m : h[k] = f[k]
  OBVIOUS
<1>3. h = [k \in 0..(m + 1) |-> h[k]]
  OBVIOUS
<1> HIDE DEF h
<1>4. ASSUME NEW k \in 0..(m + 1) PROVE h[k] = IF k = 0 THEN 1 ELSE 2 * h[k - 1]
  <2>1. CASE k = m + 1
    <3>1. k # 0 /\ k - 1 = m /\ m \in 0..m
      BY <2>1
    <3> QED BY <1>2, <2>1, <3>1
  <2>2. CASE k # m + 1
    <3>1. k \in 0..m /\ (k # 0 => k - 1 \in 0..m)
      BY <2>2
    <3> QED BY <1>1, <1>2, <3>1
  <2> QED BY <2>1, <2>2
<1>5. h = [k \in 0..(m + 1) |-> IF k = 0 THEN 1 ELSE 2 * h[k - 1]]
  BY <1>3, <1>4
<1> QED BY <1>5 DEF IsTwoTo

LEMMA TwoToIs ==
    ASSUME W \in Nat
    PROVE  /\ S!TwoTo[0] = 1 /\ \A k \in 1..W : S!TwoTo[k] = 2 * S!TwoTo[k - 1]
           /\ \A k \in 0..W : S!TwoTo[k] \in Nat \ {0}
<1> DEFINE T == {k \in Nat : \E f : IsTwoTo(f, k)}
<1>1. 0 \in T
  <2>1. IsTwoTo([k \in {0} |-> 1], 0)
    BY DEF IsTwoTo
  <2> QED BY <2>1
<1>2. \A k \in 0..(W - 1) : k \in T => k + 1 \in T
  BY TwoToMore
<1>3. W \in T
  <2> HIDE DEF T
  <2>1. W \in 0..W
    OBVIOUS
  <2> QED BY <1>1, <1>2, <2>1, UpToBound
<1>4. \E f : f = [k \in 0..W |-> IF k = 0 THEN 1 ELSE 2 * f[k - 1]]
  BY <1>3 DEF IsTwoTo
<1>5. S!TwoTo = CHOOSE f : f = [k \in 0..W |-> IF k = 0 THEN 1 ELSE 2 * f[k - 1]]
  BY Zenon DEF S!TwoTo
<1>6. S!TwoTo = [k \in 0..W |-> IF k = 0 THEN 1 ELSE 2 * S!TwoTo[k - 1]]
  BY <1>4, <1>5, Zenon
<1>7. \A k \in 0..W : S!TwoTo[k] = IF k = 0 THEN 1 ELSE 2 * S!TwoTo[k - 1]
  BY <1>6, Zenon
<1>8. S!TwoTo[0] = 1 /\ \A k \in 1..W : S!TwoTo[k] = 2 * S!TwoTo[k - 1]
  BY <1>7
<1>9. \A k \in 0..W : S!TwoTo[k] \in Nat \ {0}
  <2> DEFINE P == {k \in 0..W : S!TwoTo[k] \in Nat \ {0}}
  <2>1. 0 \in P
    BY <1>8
  <2>2. ASSUME NEW k \in 0..(W - 1), k \in P PROVE k + 1 \in P
    <3>1. k + 1 \in 1..W /\ (k + 1) - 1 = k
      OBVIOUS
    <3> QED BY <1>8, <2>2, <3>1
  <2>3. \A k \in 0..W : k \in P
    <3> HIDE DEF P
    <3> QED BY <2>1, <2>2, UpToBound
  <2> QED BY <2>3
<1> QED BY <1>8, <1>9

-----------------------------------------------------------------------------
(* What the remainders of g, the last one first, denote.                   *)
Remainders(m, g, d) == \A k \in 1..m : d[k] = 48 + (g[m - k] % 10)
Spells(m, g, d) == m \in Nat /\ g \in [0..m -> Nat] /\ Tenths(m, g) /\ Remainders(m, g, d)
Value(m, d, f) == f = [k \in 0..m |-> IF k = 0 THEN 0 ELSE 10 * f[k - 1] + (d[k] - 48)]
Decimal(m, g, d) ==
    \A k \in 1..m : d[k] \in 48..57 /\ g[m - k] = 10 * g[m - (k - 1)] + (d[k] - 48)

LEMMA TenthIs ==
    ASSUME NEW m, NEW g, NEW d, Spells(m, g, d)
    PROVE  Decimal(m, g, d)
<1> SUFFICES ASSUME NEW k \in 1..m
             PROVE  d[k] \in 48..57 /\ g[m - k] = 10 * g[m - (k - 1)] + (d[k] - 48)
  BY DEF Decimal
<1>0. m \in Nat /\ g \in [0..m -> Nat] /\ Tenths(m, g) /\ Remainders(m, g, d)
  BY DEF Spells
<1>1. PICK q \in 0..(m - 1) : q = m - k
  BY <1>0
<1>2. PICK x \in Nat : x = g[q]
  BY <1>0
<1>3. d[k] = 48 + (x % 10)
  BY <1>0, <1>1, <1>2 DEF Remainders
<1>4. g[q + 1] = x \div 10
  BY <1>0, <1>2 DEF Tenths
<1>5. PICK y \in 0..9, z \in Nat : y = x % 10 /\ z = x \div 10 /\ x = 10 * z + y
  <2>1. x = 10 * (x \div 10) + (x % 10) /\ x % 10 \in 0..9 /\ x \div 10 \in Nat
    OBVIOUS
  <2> QED BY <2>1
<1>6. m - (k - 1) = q + 1
  BY <1>0, <1>1
<1>7. d[k] = 48 + y
  BY <1>3, <1>5
<1>8. d[k] \in 48..57 /\ d[k] - 48 = y
  <2> HIDE <1>3, <1>4
  <2> QED BY <1>7
<1>9. g[m - k] = x /\ g[m - (k - 1)] = z
  <2>1. g[q + 1] = z
    BY <1>4, <1>5
  <2> QED BY <1>1, <1>2, <1>6, <2>1, Zenon
<1>10. g[m - k] = 10 * g[m - (k - 1)] + (d[k] - 48)
  BY ONLY <1>5, <1>8, <1>9
<1> QED BY <1>8, <1>10

LEMMA ValueIs ==
    ASSUME NEW m, NEW g, NEW d, Spells(m, g, d), g[m] = 0, NEW f, Value(m, d, f)
    PROVE  f[m] = g[0]
<1>0. m \in Nat /\ g \in [0..m -> Nat]
  BY DEF Spells
<1>9. \A k \in 1..m : d[k] \in 48..57 /\ g[m - k] = 10 * g[m - (k - 1)] + (d[k] - 48)
  BY TenthIs DEF Decimal
<1>1. f[0] = 0 /\ \A k \in 1..m : f[k] = 10 * f[k - 1] + (d[k] - 48)
  <2>1. \A k \in 0..m : f[k] = IF k = 0 THEN 0 ELSE 10 * f[k - 1] + (d[k] - 48)
    BY Zenon DEF Value
  <2> QED BY <1>0, <2>1
<1> DEFINE T == {k \in 0..m : f[k] = g[m - k]}
<1>2. 0 \in T
  BY <1>0, <1>1
<1>3. ASSUME NEW k \in 0..(m - 1), k \in T PROVE k + 1 \in T
  <2>1. PICK q \in 1..m : q = k + 1 /\ q - 1 = k
    BY <1>0
  <2>2. f[q] = 10 * f[k] + (d[q] - 48)
    BY <1>1, <2>1
  <2>3. g[m - q] = 10 * g[m - (q - 1)] + (d[q] - 48)
    BY <1>9
  <2>4. f[k] = g[m - k]
    BY <1>3
  <2>5. m - (q - 1) = m - k /\ k + 1 = q /\ q \in 0..m
    BY <2>1
  <2>6. f[q] = g[m - q]
    BY ONLY <2>2, <2>3, <2>4, <2>5
  <2> QED BY <2>5, <2>6
<1>4. \A k \in 0..m : k \in T
  <2> HIDE DEF T
  <2> QED BY <1>0, <1>2, <1>3, UpToBound
<1>5. f[m] = g[m - m]
  BY <1>0, <1>4
<1> QED BY <1>0, <1>5

LEMMA ValueExists ==
    ASSUME NEW m, NEW g, NEW d, Spells(m, g, d), g[m] = 0
    PROVE  \E f : Value(m, d, f)
<1>0. m \in Nat /\ g \in [0..m -> Nat]
  BY DEF Spells
<1>9. \A k \in 1..m : d[k] \in 48..57 /\ g[m - k] = 10 * g[m - (k - 1)] + (d[k] - 48)
  BY TenthIs DEF Decimal
<1> DEFINE f == [k \in 0..m |-> g[m - k]]
<1>1. f[0] = 0
  BY <1>0
<1>2. ASSUME NEW k \in 1..m PROVE f[k] = 10 * f[k - 1] + (d[k] - 48)
  <2>1. f[k] = g[m - k]
    OBVIOUS
  <2>2. f[k - 1] = g[m - (k - 1)]
    <3>1. PICK q \in 0..m : q = k - 1
      BY <1>0
    <3>2. f[q] = g[m - q]
      OBVIOUS
    <3> QED BY <3>1, <3>2, Zenon
  <2> HIDE DEF f
  <2>3. g[m - k] = 10 * g[m - (k - 1)] + (d[k] - 48)
    BY <1>9
  <2> QED BY ONLY <2>1, <2>2, <2>3
<1>3. f = [k \in 0..m |-> f[k]]
  OBVIOUS
<1> HIDE DEF f
<1>4. \A k \in 0..m : f[k] = IF k = 0 THEN 0 ELSE 10 * f[k - 1] + (d[k] - 48)
  BY <1>1, <1>2
<1>5. f = [k \in 0..m |-> IF k = 0 THEN 0 ELSE 10 * f[k - 1] + (d[k] - 48)]
  <2> DEFINE h == [k \in 0..m |-> IF k = 0 THEN 0 ELSE 10 * f[k - 1] + (d[k] - 48)]
  <2>1. h = [k \in 0..m |-> h[k]] /\ \A k \in 0..m : h[k] = f[k]
    BY <1>4
  <2> HIDE DEF h
  <2>2. h = f
    BY <1>3, <2>1
  <2> QED BY <2>2 DEF h
<1> QED BY <1>5 DEF Value

LEMMA NumberIs ==
    ASSUME NEW m \in Nat \ {0}, NEW g, NEW d, Spells(m, g, d), g[m] = 0, Len(d) = m
    PROVE  S!IsNumber(d) /\ S!Unsigned(d) = g[0]
<1>1. S!IsNumber(d)
  <2>1. \A k \in 1..m : d[k] \in 48..57
    BY TenthIs, ZenonT(40) DEF Decimal
  <2> QED BY <2>1 DEF S!IsNumber
<1>2. S!Unsigned(d) = (CHOOSE f : f = [k \in 0..Len(d) |->
                          IF k = 0 THEN 0 ELSE 10 * f[k - 1] + (d[k] - S!Zero)])[Len(d)]
  BY Zenon DEF S!Unsigned
<1>3. S!Unsigned(d) = (CHOOSE f : Value(m, d, f))[m]
  BY <1>2 DEF Value, S!Zero
<1>4. Value(m, d, CHOOSE f : Value(m, d, f))
  BY ValueExists, Zenon
<1> QED BY <1>1, <1>3, <1>4, ValueIs
-----------------------------------------------------------------------------
LEMMA SioInitial == ASSUME S!SioAssumption, S!Init PROVE SioInv
<1>1. W \in Nat \ {0} /\ Size \in Nat
  BY DEF S!SioAssumption
<1>2. SioShape
  BY DEF SioShape, S!Init, Acts
<1>3. ASSUME NEW a \in Acts PROVE Exact(a)
  <2>1. /\ putl[a] = "idle" /\ asked[a] = 0 /\ v[a] = 0 /\ i[a] = 0 /\ j[a] = 0
        /\ neg[a] = FALSE /\ s[a] = [k \in 0..(Size - 1) |-> 48]
    BY DEF S!Init, Acts, S!Zero
  <2>2. Abs(a) < S!TwoTo[W - 1]
    <3>1. W \in Nat /\ W - 1 \in 0..W
      BY <1>1
    <3>2. S!TwoTo[W - 1] \in Nat \ {0}
      BY <3>1, TwoToIs
    <3> QED BY <2>1, <3>2 DEF Abs
  <2>3. s[a] \in [0..(Size - 1) -> Int]
    BY <2>1
  <2>4. v[a] \in Nat /\ i[a] \in Int /\ j[a] \in Int /\ asked[a] \in Int
    BY <2>1
  <2>5. putl[a] = "idle"
    BY <2>1
  <2>6. neg[a] = (asked[a] < 0)
    <3>1. ~(asked[a] < 0)
      BY <2>1
    <3>2. (asked[a] < 0) = FALSE
      BY <3>1
    <3> QED BY <2>1, <3>2, Zenon
  <2>7. SioTypes(a)
    BY <2>2, <2>3, <2>4, <2>5, <2>6, Zenon DEF SioTypes
  <2> QED BY <2>5, <2>7 DEF Exact
<1> QED BY <1>2, <1>3 DEF SioInv

(* What one activation does leaves the other one alone.                    *)
Same(a) ==
    /\ putl'[a] = putl[a] /\ asked'[a] = asked[a] /\ v'[a] = v[a] /\ neg'[a] = neg[a]
    /\ i'[a] = i[a] /\ j'[a] = j[a] /\ s'[a] = s[a] /\ written'[a] = written[a]

LEMMA SameExact ==
    ASSUME NEW a \in Acts, Exact(a), Same(a) PROVE Exact(a)'
<1> USE DEF Same
<1>1. Abs(a)' = Abs(a) /\ \A m : Size2(a, m)' = Size2(a, m)
  BY DEF Abs, Size2
<1>2. \A m, g : Quotients(a, m, g)' <=> Quotients(a, m, g)
  BY <1>1 DEF Quotients, Tenths
<1>3. \A m, g : Spelt(a, m, g)' <=> Spelt(a, m, g)
  BY <1>2 DEF Spelt
<1>4. SioTypes(a)'
  BY <1>1 DEF Exact, SioTypes
<1>5. DigitsInv(a) => DigitsInv(a)'
  BY <1>2 DEF DigitsInv
<1>6. SignInv(a) => SignInv(a)'
  BY <1>3 DEF SignInv, Figure
<1>7. EndInv(a) => EndInv(a)'
  BY <1>1, <1>3 DEF EndInv, Figure
<1>8. SwapInv(a) => SwapInv(a)'
  BY <1>1, <1>3 DEF SwapInv, Figure
<1>9. DoneInv(a) => DoneInv(a)'
  BY <1>1, <1>3 DEF DoneInv, Figure
<1> QED BY <1>4, <1>5, <1>6, <1>7, <1>8, <1>9 DEF Exact

LEMMA StepShape ==
    ASSUME SioShape, NEW a \in Acts, S!Step(a)
    PROVE  SioShape' /\ \A b \in Acts : b # a => Same(b)
<1> USE DEF SioShape, Same, Acts, S!Buffer
<1>1. ASSUME NEW x \in Values, S!Call(a, x) PROVE SioShape' /\ \A b \in Acts : b # a => Same(b)
  BY <1>1 DEF S!Call, S!GoTo
<1>2. CASE S!Digit(a)
  BY <1>2 DEF S!Digit, S!GoTo, S!Put, S!frame
<1>3. CASE S!Sign(a)
  BY <1>3 DEF S!Sign, S!GoTo, S!Put, S!frame
<1>4. CASE S!End(a)
  BY <1>4 DEF S!End, S!GoTo, S!Put, S!frame
<1>5. CASE S!ReverseStarts(a)
  BY <1>5 DEF S!ReverseStarts, S!GoTo, S!frame
<1>6. CASE S!Swap(a)
  BY <1>6 DEF S!Swap, S!frame
<1>7. CASE S!Write(a)
  BY <1>7 DEF S!Write, S!GoTo
<1> QED BY <1>1, <1>2, <1>3, <1>4, <1>5, <1>6, <1>7 DEF S!Step

Room ==
    /\ W \in Nat \ {0} /\ Size \in Nat /\ Size >= W + 2
    /\ \A k \in 0..W : S!TwoTo[k] \in Nat \ {0}
    /\ S!TwoTo[0] = 1 /\ \A k \in 1..W : S!TwoTo[k] = 2 * S!TwoTo[k - 1]

LEMMA RoomIs == ASSUME S!SioAssumption PROVE Room
<1>1. W \in Nat \ {0} /\ Size \in Nat /\ Size >= W + 2
  BY DEF S!SioAssumption
<1> QED BY <1>1, TwoToIs DEF Room

LEMMA NumberFits ==
    ASSUME S!SioAssumption, NEW x \in Values, x # S!LONG_MIN
    PROVE  /\ x \in Int /\ x < S!TwoTo[W - 1] /\ -x < S!TwoTo[W - 1]
<1>1. PICK t \in Nat : t = S!TwoTo[W - 1]
  <2>1. W - 1 \in 0..W
    BY DEF S!SioAssumption
  <2> QED BY <2>1, RoomIs DEF Room
<1>2. S!LONG_MIN = -t
  BY <1>1 DEF S!LONG_MIN
<1>3. x \in (-t)..(t - 1)
  <2>1. -(-t) = t
    OBVIOUS
  <2>2. Values \subseteq (-t)..(-(-t) - 1)
    BY <1>2 DEF S!SioAssumption
  <2> QED BY <2>1, <2>2
<1> QED BY <1>1, <1>2, <1>3

LEMMA CallExact ==
    ASSUME S!SioAssumption, SioShape, NEW a \in Acts, Exact(a) \/ Spoilt(a),
           NEW x \in Values, S!Call(a, x), x # S!LONG_MIN
    PROVE  Exact(a)'
<1>1. PICK y \in Nat : y = IF x < 0 THEN -x ELSE x
  BY NumberFits
<1>2. y < S!TwoTo[W - 1] /\ x \in Int
  BY <1>1, NumberFits
<1>3. /\ putl[a] = "idle" /\ putl'[a] = "digits" /\ asked'[a] = x /\ neg'[a] = (x < 0)
      /\ v'[a] = y /\ i'[a] = 0 /\ j'[a] = j[a] /\ s'[a] = s[a]
  BY <1>1, <1>2 DEF S!Call, S!At, S!GoTo, SioShape, Acts
<1>4. j[a] \in Int /\ s[a] \in [0..(Size - 1) -> Int]
  BY <1>3 DEF Exact, Spoilt, SioTypes
<1>5. Abs(a)' = y
  BY <1>1, <1>3 DEF Abs
<1>6. SioTypes(a)'
  BY <1>2, <1>3, <1>4, <1>5 DEF SioTypes
<1>7. DigitsInv(a)'
  <2> DEFINE g == [k \in 0..0 |-> y]
  <2>1. g \in [0..0 -> Nat] /\ g[0] = y
    OBVIOUS
  <2>2. Quotients(a, 0, g)'
    BY <1>5, <2>1 DEF Quotients, Tenths
  <2>3. 0 \in 0..(W - 1) /\ W - 1 - 0 = W - 1
    BY RoomIs DEF Room
  <2> HIDE DEF g
  <2> QED BY <1>2, <1>3, <2>1, <2>2, <2>3 DEF DigitsInv
<1> QED BY <1>3, <1>6, <1>7 DEF Exact

(* One more tenth.                                                         *)
Lengthens(a, m, g, x, h) ==
    Quotients(a, m + 1, h) /\ h[m + 1] = x \div 10 /\ \A k \in 0..m : h[k] = g[k]

LEMMA MoreTenths ==
    ASSUME NEW a \in Acts, NEW m \in Nat, NEW g, Quotients(a, m, g),
           NEW x \in Nat, g[m] = x
    PROVE  \E h : Lengthens(a, m, g, x, h)
<1> DEFINE h == [k \in 0..(m + 1) |-> IF k = m + 1 THEN x \div 10 ELSE g[k]]
<1>1. g \in [0..m -> Nat] /\ g[0] = Abs(a) /\ Tenths(m, g)
  BY DEF Quotients
<1>2. PICK z \in Nat : z = x \div 10
  OBVIOUS
<1>3. h[m + 1] = z /\ \A k \in 0..m : h[k] = g[k]
  BY <1>2
<1>4. h \in [0..(m + 1) -> Nat]
  BY <1>1, <1>2
<1> HIDE DEF h
<1>5. ASSUME NEW k \in 0..m PROVE h[k + 1] = h[k] \div 10
  <2>1. CASE k = m
    BY <1>2, <1>3, <2>1
  <2>2. CASE k # m
    <3>1. k \in 0..(m - 1) /\ k + 1 \in 0..m
      BY <2>2
    <3> QED BY <1>1, <1>3, <3>1 DEF Tenths
  <2> QED BY <2>1, <2>2
<1>6. Tenths(m + 1, h)
  <2>1. (m + 1) - 1 = m
    OBVIOUS
  <2> QED BY <1>5, <2>1 DEF Tenths
<1>7. h[0] = Abs(a)
  BY <1>1, <1>3
<1>8. Quotients(a, m + 1, h)
  BY <1>4, <1>6, <1>7 DEF Quotients
<1> QED BY <1>2, <1>3, <1>8 DEF Lengthens

LEMMA DigitExact ==
    ASSUME S!SioAssumption, SioShape, NEW a \in Acts, Exact(a), S!Digit(a)
    PROVE  Exact(a)'
<1>1. PICK m, x \in Nat : m = i[a] /\ x = v[a] /\ m \in 0..(W - 1)
  BY DEF Exact, SioTypes, DigitsInv, S!Digit, S!At
<1>2. PICK g : /\ Quotients(a, m, g) /\ g[m] = x /\ x < S!TwoTo[W - 1 - m]
               /\ m = 0 \/ x > 0
               /\ \A k \in 0..(m - 1) : s[a][k] = 48 + (g[k] % 10)
  BY <1>1 DEF Exact, DigitsInv, S!Digit, S!At
<1>3. PICK y \in 0..9, z \in Nat : y = x % 10 /\ z = x \div 10 /\ x = 10 * z + y
  <2>1. x = 10 * (x \div 10) + (x % 10) /\ x % 10 \in 0..9 /\ x \div 10 \in Nat
    OBVIOUS
  <2> QED BY <2>1
<1>4. S!Quotient(x, 10) = z
  BY <1>3 DEF S!Quotient
<1>5. S!Character(S!Remainder(x, 10)) = 48 + y /\ S!More(x, 10) = (z > 0)
  <2>1. S!Remainder(x, 10) = y
    <3>1. x - 10 * z = y
      BY ONLY <1>3
    <3> QED BY <1>4, <3>1 DEF S!Remainder
  <2>2. S!Character(y) = 48 + y
    <3>1. S!Character(y) = IF y < 10 THEN y + 48 ELSE y - 10 + 97
      BY Zenon DEF S!Character, S!Zero
    <3> HIDE <1>3
    <3> QED BY <3>1
  <2>3. S!More(x, 10) = (z > 0)
    BY <1>4, Zenon DEF S!More
  <2> QED BY <2>1, <2>2, <2>3
<1>6. /\ putl'[a] = IF z > 0 THEN "digits" ELSE "sign"
      /\ asked'[a] = asked[a] /\ neg'[a] = neg[a] /\ j'[a] = j[a]
      /\ v'[a] = z /\ i'[a] = m + 1 /\ s'[a] = [s[a] EXCEPT ![m] = 48 + y]
  BY <1>1, <1>4, <1>5 DEF S!Digit, S!GoTo, S!Put, S!frame, S!Buffer, SioShape, Acts
<1>7. PICK h : Quotients(a, m + 1, h) /\ h[m + 1] = z /\ \A k \in 0..m : h[k] = g[k]
  <2>1. PICK h : Lengthens(a, m, g, x, h)
    BY <1>1, <1>2, MoreTenths, Zenon
  <2>2. h[m + 1] = z
    BY <1>3, <2>1, Zenon DEF Lengthens
  <2> QED BY <2>1, <2>2, Zenon DEF Lengthens
<1>8. Quotients(a, m + 1, h)' /\ Abs(a)' = Abs(a)
  BY <1>6, <1>7 DEF Quotients, Abs, Tenths
<1>9. SioTypes(a) /\ Room
  BY RoomIs DEF Exact
<1>10. m \in 0..(Size - 1) /\ m + 1 \in 1..W
  BY <1>1, <1>9 DEF Room
<1>11. SioTypes(a)'
  <2>1. s[a] \in [0..(Size - 1) -> Int] /\ 48 + y \in Int
    BY <1>9, SMTT(30) DEF SioTypes
  <2>2. s'[a] \in [0..(Size - 1) -> Int]
    BY <1>6, <2>1
  <2>3. i'[a] \in Int /\ v'[a] \in Nat
    BY <1>6
  <2>4. putl'[a] \in {"digits", "sign"}
    BY <1>6
  <2> QED BY <1>6, <1>8, <1>9, <2>2, <2>3, <2>4 DEF SioTypes
<1>12. \A k \in 0..m : s'[a][k] = 48 + (h[k] % 10)
  <2>0. Size \in Nat /\ s[a] \in [0..(Size - 1) -> Int]
    BY <1>9 DEF SioTypes, Room
  <2>1. s[a] \in [0..(Size - 1) -> Int] /\ \A k \in 0..m : k \in 0..(Size - 1)
    BY <1>10, <2>0
  <2>2. s'[a][m] = 48 + y
    BY <1>6, <1>10, <2>1
  <2>7. \A k \in 0..m : k # m => s'[a][k] = s[a][k]
    BY <1>6, <1>10, <2>1
  <2>3. h[m] = x
    BY <1>1, <1>2, <1>7
  <2>4. \A k \in 0..m : k # m => k \in 0..(m - 1)
    BY <1>1
  <2>5. 48 + (h[m] % 10) = 48 + y
    BY <1>3, <2>3
  <2>6. ASSUME NEW k \in 0..m, k # m PROVE s'[a][k] = 48 + (h[k] % 10)
    <3>1. k \in 0..(m - 1) /\ s'[a][k] = s[a][k] /\ h[k] = g[k]
      BY <1>7, <2>4, <2>6, <2>7, Zenon
    <3> QED BY <1>2, <3>1, Zenon
  <2> QED BY <2>2, <2>5, <2>6, Zenon
<1>13. CASE z > 0
  <2>1. PICK q \in Nat : q = W - 1 - m
    BY <1>1, <1>9 DEF Room
  <2>2. q # 0
    <3>1. q = 0 => x < 1
      BY <1>2, <1>9, <2>1 DEF Room
    <3> QED BY ONLY <1>3, <1>13, <3>1
  <2>3. q \in 1..W /\ q - 1 \in 0..W /\ q - 1 = W - 1 - (m + 1)
    BY <1>1, <1>9, <2>1, <2>2 DEF Room
  <2>4. PICK t \in Nat : t = S!TwoTo[q - 1] /\ S!TwoTo[q] = 2 * t
    BY <1>9, <2>3 DEF Room
  <2>5. x < 2 * t
    BY <1>2, <2>1, <2>4
  <2>6. z < t
    BY ONLY <1>3, <2>4, <2>5
  <2>7. z < S!TwoTo[W - 1 - (m + 1)]
    BY <2>3, <2>4, <2>6
  <2>8. m + 1 \in 0..(W - 1) /\ (m + 1) - 1 = m
    BY <1>1, <1>9, <2>1, <2>2, <2>3 DEF Room
  <2>9. DigitsInv(a)'
    BY <1>6, <1>7, <1>8, <1>12, <1>13, <2>7, <2>8 DEF DigitsInv
  <2> QED BY <1>6, <1>11, <1>13, <2>9 DEF Exact
<1>14. CASE z = 0
  <2>1. (m + 1) - 1 = m /\ h[m] = x
    BY <1>1, <1>2, <1>7
  <2>2. Spelt(a, m + 1, h)'
    BY <1>2, <1>7, <1>8, <1>10, <1>14, <2>1 DEF Spelt
  <2>3. \A k \in 0..m : s'[a][k] = Figure(m + 1, h, k)
    BY <1>12, <1>1 DEF Figure
  <2>4. SignInv(a)'
    BY <1>6, <2>1, <2>2, <2>3 DEF SignInv, Figure
  <2> QED BY <1>6, <1>11, <1>14, <2>4 DEF Exact
<1> QED BY <1>3, <1>13, <1>14

LEMMA PutKeeps ==
    ASSUME Size \in Nat, NEW b \in [0..(Size - 1) -> Int], NEW m \in 0..(Size - 1),
           NEW c \in Int, NEW t, t = [b EXCEPT ![m] = c]
    PROVE  /\ t \in [0..(Size - 1) -> Int] /\ t[m] = c
           /\ \A k \in 0..(m - 1) : t[k] = b[k]
<1>2. t \in [0..(Size - 1) -> Int] /\ t[m] = c
  OBVIOUS
<1>3. ASSUME NEW k \in 0..(m - 1) PROVE t[k] = b[k]
  <2>1. k \in 0..(Size - 1) /\ k # m
    OBVIOUS
  <2> QED BY <2>1
<1> QED BY <1>2, <1>3

LEMMA SpeltKeeps ==
    ASSUME NEW a \in Acts, asked'[a] = asked[a], NEW m, NEW g, Spelt(a, m, g)
    PROVE  Spelt(a, m, g)' /\ Size2(a, m)' = Size2(a, m)
BY DEF Spelt, Quotients, Abs, Size2

LEMMA SignExact ==
    ASSUME S!SioAssumption, SioShape, NEW a \in Acts, Exact(a), S!Sign(a)
    PROVE  Exact(a)'
<1>1. PICK g : /\ Spelt(a, i[a], g)
               /\ \A k \in 0..(i[a] - 1) : s[a][k] = Figure(i[a], g, k)
  BY DEF Exact, SignInv, S!Sign, S!At
<1>2. PICK m \in 1..W : m = i[a]
  BY <1>1 DEF Spelt
<1>3. SioTypes(a) /\ neg[a] = (asked[a] < 0)
  BY DEF Exact, SioTypes
<1>4. Size \in Nat /\ m \in 0..(Size - 1)
  BY RoomIs DEF Room
<1>5. /\ putl'[a] = "end" /\ asked'[a] = asked[a] /\ neg'[a] = neg[a] /\ j'[a] = j[a]
      /\ v'[a] = v[a]
  BY DEF S!Sign, S!GoTo, S!frame, SioShape, Acts
<1>6. Abs(a)' = Abs(a) /\ Spelt(a, m, g)' /\ Size2(a, m)' = Size2(a, m)
  BY <1>1, <1>2, <1>5, SpeltKeeps DEF Abs
<1>7. CASE neg[a]
  <2>1. i'[a] = m + 1 /\ s'[a] = [s[a] EXCEPT ![m] = 45]
    BY <1>2, <1>7 DEF S!Sign, S!Put, S!Buffer, S!Minus, SioShape, Acts
  <2>2. /\ s'[a] \in [0..(Size - 1) -> Int] /\ s'[a][m] = 45
        /\ \A k \in 0..(m - 1) : s'[a][k] = s[a][k]
    <3>1. PICK b, t : b = s[a] /\ t = [b EXCEPT ![m] = 45]
      OBVIOUS
    <3>2. 45 \in Int /\ s'[a] = t /\ b \in [0..(Size - 1) -> Int]
      BY <1>3, <2>1, <3>1 DEF SioTypes
    <3>3. /\ t \in [0..(Size - 1) -> Int] /\ t[m] = 45
          /\ \A k \in 0..(m - 1) : t[k] = b[k]
      BY <1>4, <3>1, <3>2, PutKeeps
    <3> QED BY <3>1, <3>2, <3>3
  <2>3. SioTypes(a)'
    BY <1>3, <1>5, <1>6, <2>1, <2>2 DEF SioTypes
  <2>4. i'[a] = Size2(a, m)'
    BY <1>3, <1>7, <1>6, <2>1 DEF Size2
  <2>5. ASSUME NEW k \in 0..m PROVE s'[a][k] = Figure(m, g, k)
    <3>1. CASE k = m
      BY <2>2, <3>1 DEF Figure
    <3>2. CASE k # m
      <4>1. k \in 0..(m - 1)
        BY <3>2
      <4> QED BY <1>1, <1>2, <2>2, <4>1
    <3> QED BY <3>1, <3>2
  <2>6. EndInv(a)'
    <3>1. (m + 1) - 1 = m
      OBVIOUS
    <3>2. \A k \in 0..(i'[a] - 1) : s'[a][k] = Figure(m, g, k)
      BY <2>1, <2>5, <3>1
    <3> QED BY <1>5, <1>6, <2>4, <3>2 DEF EndInv, Figure
  <2> QED BY <1>5, <2>3, <2>6 DEF Exact
<1>8. CASE ~neg[a]
  <2>1. i'[a] = m /\ s'[a] = s[a]
    BY <1>2, <1>8 DEF S!Sign
  <2>2. SioTypes(a)'
    BY <1>3, <1>5, <1>6, <2>1 DEF SioTypes
  <2>3. i'[a] = Size2(a, m)'
    BY <1>3, <1>8, <1>6, <2>1 DEF Size2
  <2>4. EndInv(a)'
    BY <1>1, <1>2, <1>5, <1>6, <2>1, <2>3 DEF EndInv, Figure
  <2> QED BY <1>5, <2>2, <2>4 DEF Exact
<1> QED BY <1>7, <1>8

(* What is written ends with a NUL and has no other.                       *)
LEMMA LengthIs ==
    ASSUME NEW t, NEW q \in 0..(Size - 1), Size \in Nat, t[q] = 0,
           \A k \in 0..(q - 1) : t[k] # 0
    PROVE  S!Length(t) = q
<1> DEFINE P(x) == x \in 0..Size /\ (x < Size => t[x] = 0) /\ \A k \in 0..(x - 1) : t[k] # 0
<1>1. P(q)
  OBVIOUS
<1>2. ASSUME NEW x \in 0..Size, x < Size => t[x] = 0, \A k \in 0..(x - 1) : t[k] # 0
      PROVE  x = q
  <2>1. ~(x < q)
    BY <1>2
  <2>2. ~(q < x)
    <3>1. q < x => q \in 0..(x - 1)
      OBVIOUS
    <3> QED BY <1>2, <3>1
  <2> QED BY <2>1, <2>2
<1>3. S!Length(t) = CHOOSE x \in 0..Size : (x < Size => t[x] = 0) /\ \A k \in 0..(x - 1) : t[k] # 0
  BY Zenon DEF S!Length, S!NUL
<1>4. \E x \in 0..Size : (x < Size => t[x] = 0) /\ \A k \in 0..(x - 1) : t[k] # 0
  BY <1>1
<1> QED BY <1>2, <1>3, <1>4

LEMMA FigureIs ==
    ASSUME NEW a \in Acts, NEW m, NEW g, Spelt(a, m, g), NEW k \in Nat
    PROVE  Figure(m, g, k) \in Int /\ Figure(m, g, k) # 0
<1>1. m \in Nat /\ g \in [0..m -> Nat]
  BY DEF Spelt, Quotients
<1>2. CASE k < m
  <2>1. PICK x \in Nat : x = g[k]
    BY <1>1, <1>2
  <2>2. x % 10 \in 0..9
    OBVIOUS
  <2>3. Figure(m, g, k) = 48 + (x % 10)
    BY <1>2, <2>1 DEF Figure
  <2> QED BY <2>2, <2>3
<1>3. CASE ~(k < m)
  BY <1>3 DEF Figure
<1> QED BY <1>2, <1>3

LEMMA EndExact ==
    ASSUME S!SioAssumption, SioShape, NEW a \in Acts, Exact(a), S!End(a)
    PROVE  Exact(a)'
<1>1. PICK m, g : /\ Spelt(a, m, g) /\ i[a] = Size2(a, m)
                  /\ \A k \in 0..(i[a] - 1) : s[a][k] = Figure(m, g, k)
  BY DEF Exact, EndInv, S!End, S!At
<1>2. PICK q \in 1..(W + 1) : q = i[a]
  <2>1. m \in 1..W
    BY <1>1 DEF Spelt
  <2> QED BY <1>1, <2>1, RoomIs DEF Size2, Room
<1>3. SioTypes(a)
  BY DEF Exact
<1>4. Size \in Nat /\ q \in 0..(Size - 1)
  BY RoomIs DEF Room
<1>5. /\ putl'[a] = "reverse" /\ asked'[a] = asked[a] /\ neg'[a] = neg[a] /\ j'[a] = j[a]
      /\ v'[a] = v[a] /\ i'[a] = q /\ s'[a] = [s[a] EXCEPT ![q] = 0]
  BY <1>2 DEF S!End, S!GoTo, S!Put, S!frame, S!Buffer, S!NUL, SioShape, Acts
<1>6. Abs(a)' = Abs(a) /\ Spelt(a, m, g)' /\ Size2(a, m)' = Size2(a, m)
  BY <1>1, <1>5, SpeltKeeps DEF Abs
<1>7. /\ s'[a] \in [0..(Size - 1) -> Int] /\ s'[a][q] = 0
      /\ \A k \in 0..(q - 1) : s'[a][k] = s[a][k]
  <2>1. PICK b, t : b = s[a] /\ t = [b EXCEPT ![q] = 0]
    OBVIOUS
  <2>2. 0 \in Int /\ s'[a] = t /\ b \in [0..(Size - 1) -> Int]
    BY <1>3, <1>5, <2>1 DEF SioTypes
  <2>3. /\ t \in [0..(Size - 1) -> Int] /\ t[q] = 0
        /\ \A k \in 0..(q - 1) : t[k] = b[k]
    BY <1>4, <2>1, <2>2, PutKeeps
  <2> QED BY <2>1, <2>2, <2>3
<1>8. SioTypes(a)'
  BY <1>3, <1>5, <1>6, <1>7 DEF SioTypes
<1>9. EndInv(a)'
  BY <1>1, <1>2, <1>5, <1>6, <1>7 DEF EndInv, Figure
<1> QED BY <1>5, <1>8, <1>9 DEF Exact

LEMMA ReverseExact ==
    ASSUME S!SioAssumption, SioShape, NEW a \in Acts, Exact(a), S!ReverseStarts(a)
    PROVE  Exact(a)'
<1>1. PICK m, g : /\ Spelt(a, m, g) /\ i[a] = Size2(a, m)
                  /\ \A k \in 0..(i[a] - 1) : s[a][k] = Figure(m, g, k)
                  /\ s[a][i[a]] = 0
  BY DEF Exact, EndInv, S!ReverseStarts, S!At
<1>2. PICK q \in 1..(W + 1) : q = i[a]
  <2>1. m \in 1..W
    BY <1>1 DEF Spelt
  <2> QED BY <1>1, <2>1, RoomIs DEF Size2, Room
<1>3. SioTypes(a)
  BY DEF Exact
<1>4. Size \in Nat /\ q \in 0..(Size - 1)
  BY RoomIs DEF Room
<1>5. S!Length(s[a]) = q
  <2>1. PICK t : t = s[a]
    OBVIOUS
  <2>2. t[q] = 0
    BY <1>1, <1>2, <2>1
  <2>3. ASSUME NEW k \in 0..(q - 1) PROVE t[k] # 0
    <3>1. t[k] = Figure(m, g, k)
      BY <1>1, <1>2, <2>1
    <3> QED BY <1>1, <3>1, FigureIs
  <2>4. S!Length(t) = q
    BY <1>4, <2>2, <2>3, LengthIs
  <2> QED BY <2>1, <2>4
<1>6. /\ putl'[a] = "swap" /\ asked'[a] = asked[a] /\ neg'[a] = neg[a] /\ j'[a] = q - 1
      /\ v'[a] = v[a] /\ i'[a] = 0 /\ s'[a] = s[a]
  BY <1>5 DEF S!ReverseStarts, S!GoTo, S!frame, S!Text, S!Buffer, SioShape, Acts
<1>7. Abs(a)' = Abs(a) /\ Spelt(a, m, g)' /\ Size2(a, m)' = Size2(a, m)
  BY <1>1, <1>6, SpeltKeeps DEF Abs
<1>8. SioTypes(a)'
  BY <1>3, <1>6, <1>7 DEF SioTypes
<1>9. SwapInv(a)'
  <2>1. \A k \in 0..(q - 1) : ~(k < 0 \/ k > q - 1)
    OBVIOUS
  <2>2. 0 >= 0 /\ 0 <= (q - 1) + 1 /\ 0 + (q - 1) = q - 1
    OBVIOUS
  <2> QED BY <1>1, <1>2, <1>6, <1>7, <2>1, <2>2 DEF SwapInv, Figure
<1> QED BY <1>6, <1>8, <1>9 DEF Exact

(* Two characters change places.                                           *)
LEMMA Swapped ==
    ASSUME Size \in Nat, NEW b \in [0..(Size - 1) -> Int],
           NEW k \in 0..(Size - 1), NEW m \in 0..(Size - 1), k # m,
           NEW t, t = [b EXCEPT ![k] = b[m], ![m] = b[k]]
    PROVE  /\ t \in [0..(Size - 1) -> Int] /\ t[k] = b[m] /\ t[m] = b[k]
           /\ \A x \in 0..(Size - 1) : x # k /\ x # m => t[x] = b[x]
OBVIOUS

LEMMA SwapExact ==
    ASSUME S!SioAssumption, SioShape, NEW a \in Acts, Exact(a), S!Swap(a)
    PROVE  Exact(a)'
<1>1. PICK m, g : /\ Spelt(a, m, g) /\ i[a] >= 0 /\ i[a] <= j[a] + 1
                  /\ i[a] + j[a] = Size2(a, m) - 1
                  /\ \A k \in 0..(Size2(a, m) - 1) : s[a][k] =
                        Figure(m, g, IF k < i[a] \/ k > j[a] THEN Size2(a, m) - 1 - k ELSE k)
                  /\ s[a][Size2(a, m)] = 0
  BY DEF Exact, SwapInv, S!Swap, S!At
<1>2. PICK q \in 1..(W + 1) : q = Size2(a, m)
  <2>1. m \in 1..W
    BY <1>1 DEF Spelt
  <2> QED BY <1>1, <2>1, RoomIs DEF Size2, Room
<1>3. SioTypes(a)
  BY DEF Exact
<1>4. PICK k \in Int, x \in Int : k = i[a] /\ x = j[a] /\ k < x
  BY <1>3 DEF SioTypes, S!Swap
<1>5. Size \in Nat /\ q \in 0..(Size - 1)
  BY RoomIs DEF Room
<1>6. k + x = q - 1 /\ k \in 0..(q - 1) /\ x \in 0..(q - 1) /\ k # x
  <2>1. k >= 0 /\ k + x = q - 1
    BY <1>1, <1>2, <1>4
  <2> QED BY ONLY <1>4, <2>1, q \in 1..(W + 1)
<1>7. PICK b, t : b = s[a] /\ t = s'[a]
  OBVIOUS
<1>8. /\ putl'[a] = "swap" /\ asked'[a] = asked[a] /\ neg'[a] = neg[a] /\ j'[a] = x - 1
      /\ v'[a] = v[a] /\ i'[a] = k + 1 /\ t = [b EXCEPT ![k] = b[x], ![x] = b[k]]
  BY <1>4, <1>7 DEF S!Swap, S!At, S!frame, S!Text, S!Buffer, SioShape, Acts
<1>9. b \in [0..(Size - 1) -> Int] /\ k \in 0..(Size - 1) /\ x \in 0..(Size - 1)
  BY <1>3, <1>5, <1>6, <1>7, SMTT(30) DEF SioTypes
<1>10. /\ t \in [0..(Size - 1) -> Int] /\ t[k] = b[x] /\ t[x] = b[k]
       /\ \A y \in 0..(Size - 1) : y # k /\ y # x => t[y] = b[y]
  BY <1>5, <1>6, <1>8, <1>9, Swapped
<1>11. Abs(a)' = Abs(a) /\ Spelt(a, m, g)' /\ Size2(a, m)' = q
  BY <1>1, <1>2, <1>8, SpeltKeeps DEF Abs
<1>12. SioTypes(a)'
  <2>1. s'[a] \in [0..(Size - 1) -> Int]
    BY <1>7, <1>10
  <2>2. i'[a] \in Int /\ j'[a] \in Int
    BY <1>4, <1>8
  <2>3. asked'[a] \in Int /\ v'[a] \in Nat /\ neg'[a] = (asked'[a] < 0)
    BY <1>3, <1>8 DEF SioTypes
  <2>4. Abs(a)' < S!TwoTo[W - 1]
    BY <1>3, <1>11 DEF SioTypes
  <2> QED BY <1>8, <2>1, <2>2, <2>3, <2>4 DEF SioTypes
<1>13. \A y \in 0..(q - 1) :
          b[y] = Figure(m, g, IF y < k \/ y > x THEN q - 1 - y ELSE y)
  BY <1>1, <1>2, <1>4, <1>7
<1>14. ASSUME NEW y \in 0..(q - 1)
       PROVE  t[y] = Figure(m, g, IF y < k + 1 \/ y > x - 1 THEN q - 1 - y ELSE y)
  <2>1. b[k] = Figure(m, g, k) /\ b[x] = Figure(m, g, x)
    BY <1>4, <1>6, <1>13
  <2>2. CASE y = k
    <3>1. q - 1 - y = x /\ y < k + 1
      BY <1>6, <2>2
    <3> QED BY <1>10, <2>1, <2>2, <3>1
  <2>3. CASE y = x
    <3>1. q - 1 - y = k /\ y > x - 1
      BY <1>6, <2>3
    <3> QED BY <1>10, <2>1, <2>3, <3>1
  <2>4. CASE y # k /\ y # x
    <3>1. t[y] = b[y]
      <4>1. y \in 0..(Size - 1)
        BY <1>5
      <4> QED BY <1>10, <2>4, <4>1
    <3>2. (y < k + 1 \/ y > x - 1) <=> (y < k \/ y > x)
      BY <2>4
    <3> QED BY <1>13, <3>1, <3>2
  <2> QED BY <2>2, <2>3, <2>4
<1>15. t[q] = 0
  <2>1. q # k /\ q # x /\ b[q] = 0
    BY <1>1, <1>2, <1>6, <1>7
  <2> QED BY <1>5, <1>10, <2>1
<1>16. SwapInv(a)'
  <2>1. k + 1 >= 0 /\ k + 1 <= (x - 1) + 1 /\ (k + 1) + (x - 1) = q - 1
    BY <1>4, <1>6
  <2> QED BY <1>7, <1>8, <1>11, <1>14, <1>15, <2>1 DEF SwapInv, Figure
<1> QED BY <1>8, <1>12, <1>16 DEF Exact

LEMMA WriteExact ==
    ASSUME S!SioAssumption, SioShape, NEW a \in Acts, Exact(a), S!Write(a)
    PROVE  Exact(a)'
<1>1. PICK m, g : /\ Spelt(a, m, g) /\ i[a] >= 0 /\ i[a] <= j[a] + 1
                  /\ i[a] + j[a] = Size2(a, m) - 1
                  /\ \A k \in 0..(Size2(a, m) - 1) : s[a][k] =
                        Figure(m, g, IF k < i[a] \/ k > j[a] THEN Size2(a, m) - 1 - k ELSE k)
                  /\ s[a][Size2(a, m)] = 0
  BY DEF Exact, SwapInv, S!Write, S!At
<1>2. PICK q \in 1..(W + 1) : q = Size2(a, m)
  <2>1. m \in 1..W
    BY <1>1 DEF Spelt
  <2> QED BY <1>1, <2>1, RoomIs DEF Size2, Room
<1>3. SioTypes(a)
  BY DEF Exact
<1>4. PICK k \in Int, x \in Int : k = i[a] /\ x = j[a] /\ k >= x
  BY <1>3 DEF SioTypes, S!Write
<1>5. Size \in Nat /\ q \in 0..(Size - 1)
  BY RoomIs DEF Room
<1>6. k + x = q - 1 /\ k >= 0 /\ k <= x + 1
  BY <1>1, <1>2, <1>4
<1>7. PICK t : t = s[a]
  OBVIOUS
<1>8. ASSUME NEW y \in 0..(q - 1) PROVE t[y] = Figure(m, g, q - 1 - y)
  <2>1. t[y] = Figure(m, g, IF y < k \/ y > x THEN q - 1 - y ELSE y)
    BY <1>1, <1>2, <1>4, <1>7
  <2>3. k >= x /\ k + x = q - 1 /\ y \in Int /\ q \in Int
    BY <1>4, <1>6, RoomIs DEF Room
  <2>2. ~(y < k \/ y > x) => y = q - 1 - y
    BY ONLY <2>3, k \in Int, x \in Int
  <2> QED BY <2>1, <2>2
<1>9. S!Length(t) = q
  <2>1. t[q] = 0
    BY <1>1, <1>2, <1>7
  <2>2. ASSUME NEW y \in 0..(q - 1) PROVE t[y] # 0
    <3>1. q - 1 - y \in Nat
      OBVIOUS
    <3> QED BY <1>1, <1>8, <3>1, FigureIs
  <2> QED BY <1>5, <2>1, <2>2, LengthIs
<1>10. /\ putl'[a] = "done" /\ asked'[a] = asked[a] /\ neg'[a] = neg[a] /\ j'[a] = j[a]
       /\ v'[a] = v[a] /\ i'[a] = i[a] /\ s'[a] = s[a]
       /\ written'[a] = [y \in 1..q |-> t[y - 1]]
  BY <1>7, <1>9 DEF S!Write, S!GoTo, S!Text, S!Buffer, SioShape, Acts
<1>11. Abs(a)' = Abs(a) /\ Spelt(a, m, g)' /\ Size2(a, m)' = q
  BY <1>1, <1>2, <1>10, SpeltKeeps DEF Abs
<1>12. SioTypes(a)'
  BY <1>3, <1>10, <1>11 DEF SioTypes
<1>13. ASSUME NEW y \in 1..q PROVE t[y - 1] = Figure(m, g, q - y)
  <2>1. y - 1 \in 0..(q - 1) /\ q - 1 - (y - 1) = q - y
    OBVIOUS
  <2> QED BY <1>8, <2>1
<1>14. written'[a] = [y \in 1..q |-> Figure(m, g, q - y)]
  BY <1>10, <1>13
<1>15. DoneInv(a)'
  BY <1>11, <1>14 DEF DoneInv, Figure
<1> QED BY <1>10, <1>12, <1>15 DEF Exact

LEMMA SioStep ==
    ASSUME S!SioAssumption, SioInv, [S!Next]_(S!vars) PROVE SioInv'
<1>1. CASE UNCHANGED S!vars
  <2>1. SioShape'
    BY <1>1 DEF SioInv, SioShape, S!vars
  <2>2. ASSUME NEW a \in Acts PROVE Same(a) /\ (Spoilt(a) => Spoilt(a)')
    BY <1>1 DEF Same, S!vars, Spoilt
  <2> QED BY <2>1, <2>2, SameExact DEF SioInv
<1>2. CASE S!Next
  <2>1. PICK a \in Acts : S!Step(a)
    BY <1>2 DEF S!Next, Acts
  <2>2. SioShape' /\ \A b \in Acts : b # a => Same(b)
    BY <2>1, StepShape DEF SioInv
  <2>3. ASSUME NEW b \in Acts, b # a PROVE Exact(b)' \/ Spoilt(b)'
    BY <2>2, <2>3, SameExact DEF SioInv, Same, Spoilt
  <2>4. Exact(a)' \/ Spoilt(a)'
    <3>0. SioShape /\ (Exact(a) \/ Spoilt(a))
      BY DEF SioInv
    <3>1. ASSUME NEW x \in Values, S!Call(a, x) PROVE Exact(a)' \/ Spoilt(a)'
      <4>1. asked'[a] = x /\ putl'[a] = "digits"
        BY <3>0, <3>1 DEF S!Call, S!GoTo, SioShape, Acts
      <4> QED BY <3>0, <3>1, <4>1, CallExact DEF Spoilt
    <3>2. ASSUME \/ S!Digit(a) \/ S!Sign(a) \/ S!End(a) \/ S!ReverseStarts(a)
                 \/ S!Swap(a) \/ S!Write(a)
          PROVE  Exact(a)' \/ Spoilt(a)'
      <4>1. CASE Exact(a)
        BY <3>0, <3>2, <4>1, DigitExact, SignExact, EndExact, ReverseExact,
              SwapExact, WriteExact
      <4>2. CASE Spoilt(a)
        <5>1. asked'[a] = asked[a]
          BY <3>0, <3>2
                DEF S!Digit, S!Sign, S!End, S!ReverseStarts, S!Swap, S!Write, S!frame
        <5>2. putl'[a] # "idle"
          BY <3>0, <3>2, <4>2
                DEF S!Digit, S!Sign, S!End, S!ReverseStarts, S!Swap, S!Write,
                S!GoTo, SioShape, Acts, Spoilt
        <5> QED BY <4>2, <5>1, <5>2 DEF Spoilt
      <4> QED BY <3>0, <4>1, <4>2
    <3> QED BY <2>1, <3>1, <3>2 DEF S!Step
  <2> QED BY <2>2, <2>3, <2>4 DEF SioInv
<1> QED BY <1>1, <1>2

LEMMA SioIs == ASSUME S!SioAssumption, SioInv PROVE S!PutsItsNumber
<1> SUFFICES ASSUME NEW a \in Acts, putl[a] = "done", asked[a] # S!LONG_MIN
             PROVE  /\ S!Denotes(written[a], asked[a])
                    /\ (IF asked[a] < 0 THEN Tail(written[a]) ELSE written[a])[1] = 48
                          => asked[a] = 0
  BY DEF S!PutsItsNumber, Acts, S!Zero
<1>1. Exact(a)
  BY DEF SioInv, Spoilt
<1>2. PICK m, g : /\ Spelt(a, m, g)
                  /\ written[a] = [k \in 1..Size2(a, m) |-> Figure(m, g, Size2(a, m) - k)]
  BY <1>1 DEF Exact, DoneInv
<1>3. PICK x \in Int : x = asked[a]
  BY <1>1 DEF Exact, SioTypes
<1>4. /\ m \in 1..W /\ m \in Nat \ {0} /\ g \in [0..m -> Nat] /\ g[0] = Abs(a)
      /\ Tenths(m, g) /\ g[m] = 0 /\ (m = 1 \/ g[m - 1] > 0)
  BY <1>2, RoomIs DEF Spelt, Quotients, Room
<1>5. ASSUME NEW d, Len(d) = m, \A k \in 1..m : d[k] = Figure(m, g, m - k)
      PROVE  S!IsNumber(d) /\ S!Unsigned(d) = Abs(a) /\ (d[1] = 48 => asked[a] = 0)
  <2>1. Remainders(m, g, d)
    <3>1. ASSUME NEW k \in 1..m PROVE d[k] = 48 + (g[m - k] % 10)
      <4>1. m - k < m
        BY <1>4
      <4> QED BY <1>5, <4>1 DEF Figure
    <3> QED BY <3>1 DEF Remainders
  <2>2. Spells(m, g, d)
    BY <1>4, <2>1 DEF Spells
  <2>3. S!IsNumber(d) /\ S!Unsigned(d) = g[0]
    BY <1>4, <1>5, <2>2, NumberIs
  <2>4. d[1] = 48 => asked[a] = 0
    <3>1. g[m - 1] = 10 * g[m - (1 - 1)] + (d[1] - 48)
      <4>1. \A k \in 1..m : g[m - k] = 10 * g[m - (k - 1)] + (d[k] - 48)
        BY <2>2, TenthIs DEF Decimal
      <4>2. 1 \in 1..m
        BY <1>4
      <4> QED BY <4>1, <4>2, Zenon
    <3>2. m - (1 - 1) = m
      BY <1>4
    <3>3. d[1] = 48 => g[m - 1] = 0
      BY <1>4, <3>1, <3>2
    <3>4. d[1] = 48 => g[0] = 0
      BY <1>4, <3>3
    <3> QED BY <1>3, <1>4, <3>4 DEF Abs
  <2> QED BY <1>4, <2>3, <2>4
<1>6. CASE x < 0
  <2>1. Size2(a, m) = m + 1 /\ Abs(a) = -x
    BY <1>3, <1>6 DEF Size2, Abs
  <2>2. PICK q, w : /\ q \in Nat /\ q = m + 1 /\ w = written[a]
                    /\ w = [k \in 1..q |-> Figure(m, g, q - k)]
    <3>1. PICK q : q = Size2(a, m) /\ written[a] = [k \in 1..q |-> Figure(m, g, q - k)]
      BY <1>2
    <3>2. q = m + 1 /\ q \in Nat
      BY <1>4, <2>1, <3>1
    <3> QED BY <3>1, <3>2
  <2>3. w \in Seq(Int) /\ Len(w) = q
    <3>1. ASSUME NEW k \in 1..q PROVE Figure(m, g, q - k) \in Int
      <4>1. q - k \in Nat
        BY <2>2
      <4> QED BY <1>2, <4>1, FigureIs
    <3> QED BY <1>4, <2>2, <3>1
  <2>4. w[1] = 45
    <3>1. w[1] = Figure(m, g, q - 1) /\ q - 1 = m
      BY <1>4, <2>2
    <3> QED BY <1>4, <3>1 DEF Figure
  <2>5. PICK d : d = Tail(w)
    OBVIOUS
  <2>6. Len(d) = m /\ \A k \in 1..m : d[k] = Figure(m, g, m - k)
    <3>1. Len(d) = m /\ \A k \in 1..m : d[k] = w[k + 1]
      BY <1>4, <2>2, <2>3, <2>5
    <3>2. \A k \in 1..m : k + 1 \in 1..q /\ q - (k + 1) = m - k
      BY <1>4, <2>2
    <3> QED BY <2>2, <3>1, <3>2
  <2>7. S!IsNumber(d) /\ S!Unsigned(d) = -x /\ (d[1] = 48 => asked[a] = 0)
    BY <1>5, <2>1, <2>6
  <2> QED BY <1>3, <1>4, <1>6, <2>2, <2>3, <2>4, <2>5, <2>7 DEF S!Denotes, S!Minus
<1>7. CASE ~(x < 0)
  <2>1. Size2(a, m) = m /\ Abs(a) = x
    BY <1>3, <1>7 DEF Size2, Abs
  <2>2. PICK d : d = [k \in 1..m |-> Figure(m, g, m - k)] /\ d = written[a]
    BY <1>2, <2>1
  <2>3. Len(d) = m /\ \A k \in 1..m : d[k] = Figure(m, g, m - k)
    BY <1>4, <2>2
  <2>4. S!IsNumber(d) /\ S!Unsigned(d) = x /\ (d[1] = 48 => asked[a] = 0)
    BY <1>5, <2>1, <2>3
  <2> QED BY <1>3, <1>7, <2>2, <2>4 DEF S!Denotes
<1> QED BY <1>6, <1>7

(* csapp.c:225-283: whatever main and its handler put, and wherever the    *)
(* handler comes in, each writes the decimal text of its own number,       *)
(* without leading zeros: for any width of a long, any numbers but the     *)
(* most negative one, and any buffer with room for them.                   *)
THEOREM NumbersArePut == SupportSpec => []PutsItsNumber
<1> DEFINE Inv == part = "output" => SioInv
<1>0. S!SioAssumption
  BY Assumptions
<1>1. AnyInit => Inv
  BY <1>0, SioInitial DEF AnyInit
<1>2. Inv /\ [SupportNext]_supportvars => Inv'
  <2> SUFFICES ASSUME Inv, [SupportNext]_supportvars, part' = "output" PROVE SioInv'
    OBVIOUS
  <2>1. part = "output" /\ [S!Next]_(S!vars)
    <3>1. CASE SocketsNext
      BY <3>1 DEF SocketsNext
    <3>2. CASE WrappersNext
      BY <3>2 DEF WrappersNext
    <3>3. CASE OutputNext
      BY <3>3 DEF OutputNext
    <3>4. CASE FcycNext
      BY <3>4 DEF FcycNext
    <3>5. CASE HarnessNext
      BY <3>5 DEF HarnessNext
    <3>6. CASE UNCHANGED supportvars
      BY <3>6 DEF supportvars, output, S!vars
    <3> QED BY <3>1, <3>2, <3>3, <3>4, <3>5, <3>6 DEF SupportNext
  <2> QED BY <1>0, <2>1, SioStep
<1>3. Inv => PutsItsNumber
  BY <1>0, SioIs DEF PutsItsNumber
<1> QED BY <1>1, <1>2, <1>3, PTL DEF SupportSpec
=============================================================================
