--------------------------- MODULE BlockHeapProofs ---------------------------
(***************************************************************************)
(* The block-level heap is correct for every arena size, chunk size and    *)
(* set of request sizes.  IInv is inductive as it stands: every conjunct   *)
(* is needed by another one's step (a merge needs Tiled to find its        *)
(* neighbour and Disjoint to know that nothing lies between, Coalesced     *)
(* needs the guards that look both ways, PayloadsApart needs PayloadFits). *)
(***************************************************************************)
EXTENDS BlockHeap, TLAPS

(* An adjusted size is whole doublewords, at least 16 bytes, and has room  *)
(* for the request and its two tags.                                       *)
LEMMA AdjustBounds ==
    ASSUME NEW n \in Requests
    PROVE  /\ n \in Nat /\ n > 0
           /\ Adjust(n) \in Nat /\ Adjust(n) % 8 = 0
           /\ Adjust(n) >= 16 /\ Adjust(n) >= n + 8
BY HeapAssumption DEF Adjust

(* One word past a doubleword boundary leaves room for a word below the    *)
(* next one.                                                               *)
LEMMA WordBelow ==
    ASSUME NEW x \in Nat, NEW m \in Nat, x % 8 = 4, m % 8 = 0, x <= m
    PROVE  x + 4 <= m
OBVIOUS

(* What the type invariant says of one block.                              *)
LEMMA BlockType ==
    ASSUME TypeOK, NEW b \in Blocks
    PROVE  b \in Nat /\ b <= MAX_HEAP /\ size[b] \in Nat /\ size[b] > 0 /\ payload[b] \in Nat
BY HeapAssumption DEF TypeOK, Blocks, Addr

(* mm_init leaves one free block.                                          *)
LEMMA InitIInv == Init => IInv
<1> SUFFICES ASSUME Init PROVE IInv
  OBVIOUS
<1> USE HeapAssumption
<1>1. TypeOK
  BY DEF Init, TypeOK, Addr
<1>2. Blocks = {First} /\ size[First] = CHUNKSIZE
  <2>1. First \in Addr /\ CHUNKSIZE > 0
    BY DEF First, Addr
  <2>2. \A a \in Addr : size[a] = IF a = First THEN CHUNKSIZE ELSE 0
    BY DEF Init
  <2> QED BY <2>1, <2>2 DEF Blocks
<1>3. Aligned
  BY <1>2 DEF Init, Aligned, First, End
<1>4. Tiled
  BY <1>2 DEF Init, Tiled, First, End, After
<1>5. Disjoint /\ Coalesced
  BY <1>2 DEF Disjoint, Coalesced, First, After
<1>6. PayloadFits
  BY DEF Init, PayloadFits, Free
<1> QED BY <1>1, <1>3, <1>4, <1>5, <1>6 DEF IInv

-----------------------------------------------------------------------------
(* A whole free block is handed out.                                       *)
LEMMA PlaceWholeIInv ==
    ASSUME IInv, NEW n \in Requests, NEW b \in Blocks, PlaceWhole(b, n)
    PROVE  IInv'
<1>0. n \in Nat /\ n > 0 /\ Adjust(n) \in Nat /\ Adjust(n) >= n + 8
  BY AdjustBounds
<1>1. /\ size' = size /\ brk' = brk /\ payload' = [payload EXCEPT ![b] = n]
      /\ size[b] >= Adjust(n) /\ size[b] < Adjust(n) + 16 /\ Free(b)
  BY <1>0, BlockType DEF PlaceWhole, FirstFit, IInv
<1>2. Blocks' = Blocks /\ b \in Addr
  BY <1>1 DEF Blocks
<1>3. TypeOK'
  BY <1>0, <1>1 DEF IInv, TypeOK
<1>4. Aligned' /\ Tiled' /\ Disjoint'
  BY <1>1, <1>2 DEF IInv, Aligned, Tiled, Disjoint, End, After
<1>5. \A c \in Addr : Free(c)' <=> (c # b /\ Free(c))
  BY <1>0, <1>1, <1>2 DEF Free, IInv, TypeOK
<1>6. Coalesced'
  BY <1>1, <1>2, <1>5 DEF IInv, Coalesced, After, Blocks
<1>7. PayloadFits'
  BY <1>0, <1>1, <1>2, <1>5 DEF IInv, TypeOK, PayloadFits
<1> QED BY <1>3, <1>4, <1>6, <1>7 DEF IInv

(* A free block is split: its front is handed out, its rest stays free.    *)
LEMMA PlaceSplitIInv ==
    ASSUME IInv, NEW n \in Requests, NEW b \in Blocks, PlaceSplit(b, n)
    PROVE  IInv'
<1> DEFINE r == b + Adjust(n)
<1>0. /\ n \in Nat /\ n > 0 /\ Adjust(n) \in Nat /\ Adjust(n) >= n + 8
      /\ Adjust(n) % 8 = 0 /\ Adjust(n) >= 16
  BY AdjustBounds
<1>1. /\ size' = [size EXCEPT ![b] = Adjust(n), ![r] = size[b] - Adjust(n)]
      /\ brk' = brk /\ payload' = [payload EXCEPT ![b] = n]
      /\ size[b] - Adjust(n) >= 16 /\ Free(b)
  BY DEF PlaceSplit, FirstFit
<1>2. /\ b \in Nat /\ size[b] \in Nat /\ b \in Addr /\ b % 8 = 0 /\ size[b] % 8 = 0
      /\ After(b) <= End /\ End <= MAX_HEAP /\ b >= First /\ brk \in Nat
      /\ size[b] - Adjust(n) \in Nat /\ MAX_HEAP \in Nat
  BY <1>0, <1>1, BlockType, HeapAssumption DEF IInv, TypeOK, Aligned, Tiled, Blocks, End
<1>3. /\ r \in Addr /\ r % 8 = 0 /\ r # b /\ r \notin Blocks /\ r < After(b) /\ r \in Nat
      /\ r > b
  <2>1. r \in Nat /\ r > b /\ r < After(b)
    BY <1>0, <1>1, <1>2 DEF After
  <2>2. r \in Addr
    BY <2>1, <1>2 DEF Addr, After, End
  <2>4. r % 8 = 0
    BY <1>0, <1>2
  <2>3. r \notin Blocks
    BY <2>1, <1>2 DEF IInv, Disjoint, After
  <2> QED BY <2>1, <2>2, <2>3, <2>4
<1>4. \A c \in Addr : size'[c] = IF c = b THEN Adjust(n)
                               ELSE IF c = r THEN size[b] - Adjust(n) ELSE size[c]
  BY <1>1, <1>2, <1>3 DEF IInv, TypeOK
<1> HIDE DEF r
<1>5. Blocks' = Blocks \union {r}
  <2>1. size'[b] = Adjust(n) /\ size'[r] = size[b] - Adjust(n)
    BY <1>2, <1>3, <1>4
  <2>2. size'[b] > 0 /\ size'[r] > 0 /\ size[b] > 0
    BY <2>1, <1>0, <1>1, <1>2
  <2> QED BY <2>2, <1>2, <1>3, <1>4 DEF Blocks
<1>6. /\ After(b)' = r /\ After(r)' = After(b)
      /\ \A c \in Blocks : c # b => After(c)' = After(c) /\ size'[c] = size[c]
  <2>1. r + (size[b] - Adjust(n)) = b + size[b]
    BY <1>0, <1>2 DEF r
  <2>2. b + Adjust(n) = r
    BY DEF r
  <2> QED BY <2>1, <2>2, <1>2, <1>3, <1>4 DEF After, Blocks
<1>7. TypeOK'
  <2>1. size' \in [Addr -> Nat]
    BY <1>0, <1>1, <1>2, <1>3 DEF IInv, TypeOK
  <2>2. payload' \in [Addr -> Nat]
    BY <1>0, <1>1 DEF IInv, TypeOK
  <2> QED BY <2>1, <2>2, <1>1, <1>2 DEF IInv, TypeOK
<1>8. Aligned'
  <2>1. (size[b] - Adjust(n)) % 8 = 0
    BY <1>0, <1>2
  <2>2. r >= First
    BY <1>2, <1>3 DEF First
  <2>3. ASSUME NEW c \in Blocks'
        PROVE  c % 8 = 0 /\ size'[c] % 8 = 0 /\ size'[c] >= 16 /\ c >= First
    <3>1. c \in Addr
      BY DEF Blocks
    <3>2. CASE c = b
      BY <3>2, <1>0, <1>2, <1>4
    <3>4. CASE c = r
      <4>1. size'[c] = size[b] - Adjust(n)
        BY <3>4, <1>3, <1>4
      <4> QED BY <4>1, <3>4, <2>1, <2>2, <1>1, <1>3
    <3>3. CASE c \in Blocks /\ c # b /\ c # r
      BY <3>1, <3>3, <1>4 DEF IInv, Aligned
    <3> QED BY <3>2, <3>3, <3>4, <1>5
  <2> QED BY <2>3, <1>1 DEF IInv, Aligned, End
<1>9. Tiled'
  <2>1. First \in Blocks'
    BY <1>5 DEF IInv, Tiled
  <2>2. ASSUME NEW c \in Blocks' PROVE After(c)' \in Blocks' \union {End'} /\ After(c)' <= End'
    <3>1. End' = End /\ End \in Nat /\ After(b) \in Nat
      BY <1>1, <1>2 DEF End, After
    <3>2. CASE c = b
      BY <3>1, <3>2, <1>2, <1>3, <1>5, <1>6
    <3>3. CASE c = r
      BY <3>1, <3>3, <1>2, <1>5, <1>6 DEF IInv, Tiled
    <3>4. CASE c \in Blocks /\ c # b
      BY <3>1, <3>4, <1>5, <1>6 DEF IInv, Tiled
    <3> QED BY <3>2, <3>3, <3>4, <1>5
  <2>3. ASSUME NEW c \in Blocks' \union {End'}, c # First PROVE \E a \in Blocks' : After(a)' = c
    <3>1. CASE c = r
      BY <3>1, <1>5, <1>6
    <3>2. CASE c # r
      <4>1. PICK a \in Blocks : After(a) = c
        BY <2>3, <3>2, <1>1, <1>5 DEF IInv, Tiled, End
      <4> QED BY <4>1, <1>5, <1>6
    <3> QED BY <3>1, <3>2
  <2> QED BY <2>1, <2>2, <2>3 DEF Tiled
<1>10. Disjoint'
  <2> SUFFICES ASSUME NEW c \in Blocks', NEW d \in Blocks', c < d PROVE After(c)' <= d
    BY DEF Disjoint
  <2>1. c \in Nat /\ d \in Nat /\ After(b) \in Nat
    BY <1>2, <1>3, <1>5, BlockType DEF After, IInv
  <2>2. \A x, y \in Blocks : x < y => After(x) <= y
    BY DEF IInv, Disjoint
  <2>3. CASE c = b
    BY <2>1, <2>2, <2>3, <1>3, <1>5, <1>6
  <2>4. CASE c = r
    BY <2>1, <2>2, <2>4, <1>3, <1>5, <1>6
  <2>5. CASE c \in Blocks /\ c # b
    <3>1. After(c) \in Nat
      BY <2>5, BlockType DEF After, IInv
    <3> QED BY <3>1, <2>1, <2>2, <2>5, <1>2, <1>3, <1>5, <1>6
  <2> QED BY <2>3, <2>4, <2>5, <1>5
<1>11. \A c \in Addr : Free(c)' <=> (c # b /\ Free(c))
  BY <1>0, <1>1, <1>2 DEF Free, IInv, TypeOK
<1>12. Coalesced'
  <2> SUFFICES ASSUME NEW c \in Blocks', NEW d \in Blocks', After(c)' = d
               PROVE  ~Free(c)' \/ ~Free(d)'
    BY DEF Coalesced
  <2>1. c \in Addr /\ d \in Addr
    BY DEF Blocks
  <2>2. CASE c = b
    BY <2>1, <2>2, <1>11
  <2>3. CASE c = r
    <3>1. After(b) = d /\ d \in Blocks
      BY <2>3, <1>3, <1>5, <1>6
    <3>2. ~Free(d)
      BY <3>1, <1>1 DEF IInv, Coalesced
    <3> QED BY <3>2, <2>1, <1>11
  <2>4. CASE c \in Blocks /\ c # b
    <3>1. After(c) = d
      BY <2>4, <1>6
    <3>2. CASE d = r
      <4>1. c \in Nat /\ After(c) \in Nat
        BY <2>4, BlockType DEF After, IInv
      <4>2. c < b \/ c > b
        BY <4>1, <2>4, <1>2
      <4>3. c < r
        BY <3>1, <3>2, <2>4, BlockType DEF After, IInv
      <4>4. CASE c < b
        <5>1. After(c) <= b
          BY <4>4, <2>4 DEF IInv, Disjoint
        <5> QED BY <5>1, <4>1, <3>1, <3>2, <1>2, <1>3
      <4>5. CASE c > b
        <5>1. After(b) <= c
          BY <4>5, <4>1, <2>4, <1>2 DEF IInv, Disjoint
        <5> QED BY <5>1, <4>1, <4>3, <1>2, <1>3 DEF After
      <4> QED BY <4>2, <4>4, <4>5
    <3>3. CASE d \in Blocks
      BY <3>1, <3>3, <2>1, <2>4, <1>11 DEF IInv, Coalesced
    <3> QED BY <3>2, <3>3, <1>5
  <2> QED BY <2>2, <2>3, <2>4, <1>5
<1>13. PayloadFits'
  BY <1>0, <1>1, <1>2, <1>3, <1>4, <1>5, <1>11 DEF IInv, TypeOK, PayloadFits
<1> QED BY <1>7, <1>8, <1>9, <1>10, <1>12, <1>13 DEF IInv

(* The heap is extended by a block in use.  e is the address of the new    *)
(* block: the end of the old list.                                         *)
LEMMA ExtendIInv ==
    ASSUME IInv, NEW n \in Requests, Extend(n)
    PROVE  IInv'
<1>0. /\ n \in Nat /\ n > 0 /\ Adjust(n) \in Nat /\ Adjust(n) >= n + 8
      /\ Adjust(n) % 8 = 0 /\ Adjust(n) >= 16
  BY AdjustBounds
<1>e. PICK e : e = End
  OBVIOUS
<1>1. /\ size' = [size EXCEPT ![e] = Adjust(n)]
      /\ brk' = brk + Adjust(n) /\ payload' = [payload EXCEPT ![e] = n]
      /\ \A b \in Blocks : Free(b) => After(b) # e
      /\ brk + Adjust(n) <= MAX_HEAP
  BY <1>e DEF Extend
<1>2. /\ brk \in Nat /\ brk % 8 = 4 /\ MAX_HEAP \in Nat /\ MAX_HEAP % 8 = 0
      /\ e \in Nat /\ e <= MAX_HEAP /\ e % 8 = 0 /\ e = brk + 4
  BY <1>e, HeapAssumption DEF IInv, TypeOK, Aligned, End
<1>3. e \in Addr /\ e \notin Blocks /\ e >= First
  <2>1. First < e /\ \A b \in Blocks : b < e
    BY <1>e, <1>2, BlockType DEF IInv, Tiled, After, First
  <2> QED BY <2>1, <1>2 DEF Addr, First
<1>4. \A c \in Addr : size'[c] = IF c = e THEN Adjust(n) ELSE size[c]
  BY <1>1, <1>3 DEF IInv, TypeOK
<1>5. Blocks' = Blocks \union {e}
  <2>1. size'[e] > 0
    BY <1>0, <1>3, <1>4
  <2> QED BY <2>1, <1>3, <1>4 DEF Blocks
<1>6. End' = e + Adjust(n) /\ End' \in Nat /\ End' > e /\ End' <= MAX_HEAP /\ brk' % 8 = 4
  <2>1. End' = e + Adjust(n) /\ End' \in Nat /\ End' > e
    BY <1>0, <1>1, <1>2 DEF End
  <2>2. brk' \in Nat /\ brk' % 8 = 4 /\ brk' <= MAX_HEAP
    BY <1>0, <1>1, <1>2
  <2>3. brk' + 4 <= MAX_HEAP
    BY <2>2, <1>2, WordBelow
  <2> QED BY <2>1, <2>2, <2>3 DEF End
<1>7. After(e)' = End' /\ \A c \in Blocks : After(c)' = After(c)
  BY <1>3, <1>4, <1>6 DEF After, Blocks
<1>8. TypeOK'
  <2>1. size' \in [Addr -> Nat] /\ payload' \in [Addr -> Nat]
    BY <1>0, <1>1 DEF IInv, TypeOK
  <2>2. brk' \in Nat /\ brk' <= MAX_HEAP
    BY <1>0, <1>1, <1>2
  <2> QED BY <2>1, <2>2 DEF TypeOK
<1>9. Aligned'
  BY <1>0, <1>2, <1>3, <1>4, <1>5, <1>6 DEF IInv, Aligned, Blocks
<1>10. Tiled'
  <2>1. First \in Blocks'
    BY <1>5 DEF IInv, Tiled
  <2>2. ASSUME NEW c \in Blocks' PROVE After(c)' \in Blocks' \union {End'} /\ After(c)' <= End'
    <3>1. CASE c = e
      BY <3>1, <1>6, <1>7
    <3>2. CASE c \in Blocks
      <4>1. After(c) \in Blocks \union {e} /\ After(c) <= e /\ After(c) \in Nat
        BY <3>2, <1>e, BlockType DEF IInv, Tiled, After
      <4> QED BY <4>1, <3>2, <1>2, <1>5, <1>6, <1>7
    <3> QED BY <3>1, <3>2, <1>5
  <2>3. ASSUME NEW c \in Blocks' \union {End'}, c # First PROVE \E a \in Blocks' : After(a)' = c
    <3>1. CASE c \in Blocks
      BY <2>3, <3>1, <1>5, <1>7 DEF IInv, Tiled
    <3>2. CASE c = e
      <4>0. First \in Blocks /\ First # e
        BY <1>3 DEF IInv, Tiled
      <4>1. PICK a \in Blocks : After(a) = e
        BY <1>e, <4>0 DEF IInv, Tiled
      <4> QED BY <4>1, <3>2, <1>5, <1>7
    <3>3. CASE c = End'
      BY <3>3, <1>5, <1>7
    <3> QED BY <3>1, <3>2, <3>3, <1>5
  <2> QED BY <2>1, <2>2, <2>3 DEF Tiled
<1>11. Disjoint'
  BY <1>e, <1>2, <1>3, <1>5, <1>7, BlockType DEF IInv, Disjoint, Tiled
<1>12. \A c \in Addr : Free(c)' <=> (c # e /\ Free(c))
  BY <1>0, <1>1, <1>3 DEF Free, IInv, TypeOK
<1>13. Coalesced'
  <2> SUFFICES ASSUME NEW c \in Blocks', NEW d \in Blocks', After(c)' = d
               PROVE  ~Free(c)' \/ ~Free(d)'
    BY DEF Coalesced
  <2>1. c \in Addr /\ d \in Addr
    BY DEF Blocks
  <2>2. CASE e \in {c, d}
    BY <2>1, <2>2, <1>12
  <2>3. CASE c \in Blocks /\ d \in Blocks
    BY <2>1, <2>3, <1>7, <1>12 DEF IInv, Coalesced
  <2> QED BY <2>2, <2>3, <1>5
<1>14. PayloadFits'
  <2> SUFFICES ASSUME NEW c \in Addr, ~Free(c)'
               PROVE  /\ c \in Blocks'
                      /\ payload'[c] + 8 <= size'[c]
                      /\ size'[c] < Adjust(payload'[c]) + 16
    BY DEF PayloadFits
  <2>1. CASE c = e
    BY <2>1, <1>0, <1>1, <1>3, <1>4, <1>5 DEF IInv, TypeOK
  <2>2. CASE c # e
    BY <2>2, <1>1, <1>4, <1>5, <1>12 DEF IInv, TypeOK, PayloadFits
  <2> QED BY <2>1, <2>2
<1> QED BY <1>8, <1>9, <1>10, <1>11, <1>13, <1>14 DEF IInv

-----------------------------------------------------------------------------
(* The four cases of coalesce are one: the blocks from a to last become    *)
(* one free block at a, where the block b being freed is among them and    *)
(* the others are free; M is the blocks that disappear.                    *)
MergeStep(a, last, b, M) ==
    /\ M = {c \in Blocks : a < c /\ c <= last}
    /\ a <= last /\ b \in M \union {a}
    /\ \A c \in M \union {a} : c # b => Free(c)
    /\ \A c \in Blocks : After(c) = a => ~Free(c)
    /\ After(last) \in Blocks => ~Free(After(last))
    /\ size' \in [Addr -> Nat]
    /\ \A c \in Addr : size'[c] = IF c = a THEN After(last) - a
                                  ELSE IF c \in M THEN 0 ELSE size[c]
    /\ payload' = [payload EXCEPT ![b] = 0]
    /\ brk' = brk

LEMMA MergeIInv ==
    ASSUME IInv, NEW a \in Blocks, NEW last \in Blocks, NEW b \in Blocks, NEW M,
           MergeStep(a, last, b, M)
    PROVE  IInv'
<1> USE DEF MergeStep
<1>1. /\ a \in Addr /\ b \in Addr /\ a \in Nat /\ last \in Nat /\ size[last] \in Nat
      /\ size[last] > 0 /\ After(last) \in Nat /\ After(last) > last
  BY BlockType DEF IInv, Blocks, After
<1>2. \A c \in Blocks : c \in Nat /\ After(c) \in Nat /\ After(c) > c
  BY BlockType DEF IInv, After
<1>3. \A x, y \in Blocks : x < y => After(x) <= y
  BY DEF IInv, Disjoint
<1>4. Blocks' = Blocks \ M /\ a \in Blocks'
  <2>1. size'[a] > 0
    <3>1. size'[a] = After(last) - a
      BY <1>1
    <3> QED BY <3>1, <1>1
  <2>2. a \notin M
    BY <1>1
  <2>3. \A c \in Addr : size'[c] > 0 <=> c \in Blocks \ M
    <3> SUFFICES ASSUME NEW c \in Addr PROVE size'[c] > 0 <=> c \in Blocks \ M
      OBVIOUS
    <3>1. CASE c = a
      BY <3>1, <2>1, <2>2
    <3>2. CASE c # a /\ c \in M
      BY <3>2
    <3>3. CASE c # a /\ c \notin M
      BY <3>3 DEF Blocks
    <3> QED BY <3>1, <3>2, <3>3
  <2> QED BY <1>1, <2>1, <2>3 DEF Blocks
<1>5. /\ After(a)' = After(last)
      /\ \A c \in Blocks' : c # a => c \in Blocks /\ After(c)' = After(c) /\ size'[c] = size[c]
  <2>1. a + (After(last) - a) = After(last)
    BY <1>1
  <2>2. After(a)' = a + size'[a]
    BY DEF After
  <2>3. After(a)' = After(last)
    BY <2>1, <2>2, <1>1
  <2>4. ASSUME NEW c \in Blocks', c # a PROVE c \in Blocks /\ After(c)' = After(c) /\ size'[c] = size[c]
    BY <2>4, <1>4 DEF After, Blocks
  <2> QED BY <2>3, <2>4
<1>6. \A d \in Blocks' \ {a} : d < a \/ d > last
  BY <1>1, <1>2, <1>4
<1>7. TypeOK'
  BY <1>1 DEF IInv, TypeOK
<1>8. Aligned'
  <2>1. size'[a] % 8 = 0 /\ size'[a] >= 16
    <3>1. size'[a] = (last + size[last]) - a
      BY <1>1 DEF After
    <3>2. a % 8 = 0 /\ last % 8 = 0 /\ size[last] % 8 = 0 /\ size[last] >= 16
      BY DEF IInv, Aligned
    <3> QED BY <3>1, <3>2, <1>1
  <2>2. ASSUME NEW c \in Blocks'
        PROVE  c % 8 = 0 /\ size'[c] % 8 = 0 /\ size'[c] >= 16 /\ c >= First
    BY <2>1, <1>4, <1>5 DEF IInv, Aligned
  <2> QED BY <2>2 DEF IInv, Aligned, End
<1>9. Tiled'
  <2>1. First \in Blocks'
    BY <1>1, <1>4 DEF IInv, Tiled, Aligned, First
  <2>2. ASSUME NEW c \in Blocks' PROVE After(c)' \in Blocks' \union {End'} /\ After(c)' <= End'
    <3>1. End' = End
      BY DEF End
    <3>2. CASE c = a
      <4>1. After(last) \notin M
        BY <1>1
      <4> QED BY <4>1, <3>1, <3>2, <1>4, <1>5 DEF IInv, Tiled
    <3>3. CASE c # a
      <4>1. c \in Blocks /\ After(c)' = After(c)
        BY <3>3, <1>5
      <4>2. c < a \/ c > last
        BY <3>3, <1>6
      <4>3. After(c) \notin M
        BY <4>1, <4>2, <1>1, <1>2, <1>3
      <4> QED BY <4>1, <4>3, <3>1, <1>4 DEF IInv, Tiled
    <3> QED BY <3>2, <3>3
  <2>3. ASSUME NEW d \in Blocks' \union {End'}, d # First
        PROVE  \E p \in Blocks' : After(p)' = d
    <3>1. d \in Blocks \union {End} /\ d \notin M
      <4>1. End \notin M
        <5>1. End = brk + 4 /\ brk \in Nat /\ After(last) <= End
          BY DEF IInv, TypeOK, Tiled, End
        <5> QED BY <5>1, <1>1
      <4> QED BY <4>1, <1>4 DEF End
    <3>2. PICK p \in Blocks : After(p) = d
      BY <2>3, <3>1 DEF IInv, Tiled
    <3>3. CASE p = last
      BY <3>2, <3>3, <1>4, <1>5
    <3>4. CASE p # last /\ p \in M \union {a}
      <4>1. a <= p /\ p < last
        BY <3>4, <1>1, <1>2
      <4>2. a < d /\ d <= last
        BY <4>1, <3>2, <1>1, <1>2, <1>3
      <4>3. d \in Blocks
        <5>1. d # End
          BY <4>2, <1>1 DEF IInv, TypeOK, Tiled, End
        <5> QED BY <5>1, <3>1
      <4> QED BY <4>2, <4>3, <3>1
    <3>5. CASE p \notin M \union {a}
      BY <3>2, <3>5, <1>4, <1>5
    <3> QED BY <3>3, <3>4, <3>5
  <2> QED BY <2>1, <2>2, <2>3 DEF Tiled
<1>10. Disjoint'
  <2> SUFFICES ASSUME NEW c \in Blocks', NEW d \in Blocks', c < d PROVE After(c)' <= d
    BY DEF Disjoint
  <2>1. CASE c # a
    BY <2>1, <1>3, <1>4, <1>5
  <2>2. CASE c = a
    <3>1. d > last /\ d \in Blocks
      <4>1. d \in Blocks /\ a < d
        BY <2>2, <1>4
      <4>2. d \in Nat
        BY <4>1, <1>2
      <4> QED BY <4>1, <4>2, <1>1, <1>6
    <3> QED BY <3>1, <2>2, <1>3, <1>5
  <2> QED BY <2>1, <2>2
<1>11. \A c \in Addr : Free(c)' <=> (c = b \/ Free(c))
  BY <1>1 DEF Free, IInv, TypeOK
<1>12. Coalesced'
  <2> SUFFICES ASSUME NEW c \in Blocks', NEW d \in Blocks', After(c)' = d
               PROVE  ~Free(c)' \/ ~Free(d)'
    BY DEF Coalesced
  <2>1. c \in Addr /\ d \in Addr /\ c \in Blocks /\ d \in Blocks /\ c \notin M /\ d \notin M
    BY <1>4 DEF Blocks
  <2>2. CASE c = a
    <3>1. d = After(last) /\ d > last
      BY <2>2, <1>1, <1>5
    <3>2. d # b /\ ~Free(d)
      BY <3>1, <2>1, <1>1
    <3> QED BY <3>2, <2>1, <1>11
  <2>3. CASE c # a /\ d = a
    <3>1. After(c) = a
      BY <2>3, <1>5
    <3> QED BY <3>1, <2>1, <2>3, <1>11
  <2>4. CASE c # a /\ d # a
    <3>1. After(c) = d /\ c # b /\ d # b
      BY <2>1, <2>4, <1>5
    <3> QED BY <3>1, <2>1, <1>11 DEF IInv, Coalesced
  <2> QED BY <2>2, <2>3, <2>4
<1>13. PayloadFits'
  <2> SUFFICES ASSUME NEW c \in Addr, ~Free(c)'
               PROVE  /\ c \in Blocks'
                      /\ payload'[c] + 8 <= size'[c]
                      /\ size'[c] < Adjust(payload'[c]) + 16
    BY DEF PayloadFits
  <2>1. c # b /\ ~Free(c) /\ c \in Blocks
    BY <1>11 DEF IInv, PayloadFits
  <2>2. c # a /\ c \notin M
    BY <2>1
  <2>3. payload'[c] = payload[c] /\ size'[c] = size[c] /\ c \in Blocks'
    BY <2>1, <2>2, <1>1, <1>4 DEF IInv, TypeOK
  <2> QED BY <2>1, <2>3 DEF IInv, PayloadFits
<1> QED BY <1>7, <1>8, <1>9, <1>10, <1>12, <1>13 DEF IInv

(* Freeing a block between two blocks in use.                              *)
LEMMA FreeAloneIInv ==
    ASSUME IInv, NEW b \in Blocks, FreeAlone(b)
    PROVE  IInv'
<1> DEFINE M == {c \in Blocks : b < c /\ c <= b}
<1>1. b \in Nat /\ M = {}
  BY BlockType DEF IInv
<1>2. size \in [Addr -> Nat] /\ b \in Addr /\ After(b) - b = size[b]
  BY BlockType DEF IInv, TypeOK, Blocks, After
<1> HIDE DEF M
<1>3. \A c \in Addr : size'[c] = IF c = b THEN After(b) - b
                                 ELSE IF c \in M THEN 0 ELSE size[c]
  BY <1>1, <1>2 DEF FreeAlone
<1>4. MergeStep(b, b, b, M)
  BY <1>1, <1>2, <1>3 DEF FreeAlone, FreeBehind, FreeBefore, MergeStep, M
<1> QED BY <1>4, MergeIInv

(* What lies between a block and the next one: nothing.                    *)
LEMMA NothingBetween ==
    ASSUME IInv, NEW a \in Blocks, After(a) \in Blocks
    PROVE  {c \in Blocks : a < c /\ c <= After(a)} = {After(a)}
BY BlockType DEF IInv, Disjoint, After

(* Freeing a block in front of a free one.                                 *)
LEMMA FreeWithNextIInv ==
    ASSUME IInv, NEW b \in Blocks, FreeWithNext(b)
    PROVE  IInv'
<1>n. PICK next \in Blocks : next = After(b) /\ Free(next)
  BY DEF FreeWithNext, FreeBehind
<1>1. /\ size' = [size EXCEPT ![b] = size[b] + size[next], ![next] = 0]
      /\ payload' = [payload EXCEPT ![b] = 0] /\ brk' = brk
      /\ \A a \in Blocks : After(a) = b => ~Free(a)
  BY <1>n DEF FreeWithNext, FreeBefore
<1>2. /\ b \in Addr /\ next \in Addr /\ b \in Nat /\ next \in Nat /\ b < next
      /\ size[b] \in Nat /\ size[next] \in Nat /\ next = b + size[b]
  BY <1>n, BlockType DEF IInv, Blocks, After
<1>3. {c \in Blocks : b < c /\ c <= next} = {next}
  BY <1>n, NothingBetween
<1>4. After(next) - b = size[b] + size[next]
  BY <1>2 DEF After
<1>5. size' \in [Addr -> Nat]
  BY <1>1, <1>2 DEF IInv, TypeOK
<1>6. \A c \in Addr : size'[c] = IF c = b THEN After(next) - b
                                 ELSE IF c \in {next} THEN 0 ELSE size[c]
  BY <1>1, <1>2, <1>4 DEF IInv, TypeOK
<1>7. After(next) \in Blocks => ~Free(After(next))
  BY <1>n DEF IInv, Coalesced
<1>8. MergeStep(b, next, b, {next})
  BY <1>n, <1>1, <1>2, <1>3, <1>5, <1>6, <1>7 DEF MergeStep
<1> QED BY <1>8, MergeIInv

(* Freeing a block behind a free one.                                      *)
LEMMA FreeWithPrevIInv ==
    ASSUME IInv, NEW a \in Blocks, NEW b \in Blocks, FreeWithPrev(a, b)
    PROVE  IInv'
<1>1. /\ size' = [size EXCEPT ![a] = size[a] + size[b], ![b] = 0]
      /\ payload' = [payload EXCEPT ![b] = 0] /\ brk' = brk
      /\ Free(a) /\ After(a) = b
      /\ After(b) \in Blocks => ~Free(After(b))
  BY DEF FreeWithPrev, FreeBefore, FreeBehind
<1>2. /\ a \in Addr /\ b \in Addr /\ a \in Nat /\ b \in Nat /\ a < b
      /\ size[a] \in Nat /\ size[b] \in Nat /\ b = a + size[a]
  BY <1>1, BlockType DEF IInv, Blocks, After
<1>3. {c \in Blocks : a < c /\ c <= b} = {b}
  BY <1>1, NothingBetween
<1>4. After(b) - a = size[a] + size[b]
  BY <1>2 DEF After
<1>5. size' \in [Addr -> Nat]
  BY <1>1, <1>2 DEF IInv, TypeOK
<1>6. \A c \in Addr : size'[c] = IF c = a THEN After(b) - a
                                 ELSE IF c \in {b} THEN 0 ELSE size[c]
  BY <1>1, <1>2, <1>4 DEF IInv, TypeOK
<1>7. \A c \in Blocks : After(c) = a => ~Free(c)
  BY <1>1 DEF IInv, Coalesced
<1>8. MergeStep(a, b, b, {b})
  BY <1>1, <1>2, <1>3, <1>5, <1>6, <1>7 DEF MergeStep
<1> QED BY <1>8, MergeIInv

(* Freeing a block between two free ones.                                  *)
LEMMA FreeWithBothIInv ==
    ASSUME IInv, NEW a \in Blocks, NEW b \in Blocks, FreeWithBoth(a, b)
    PROVE  IInv'
<1>n. PICK next \in Blocks : next = After(b) /\ Free(next)
  BY DEF FreeWithBoth, FreeBehind
<1>1. /\ size' = [size EXCEPT ![a] = size[a] + size[b] + size[next], ![b] = 0, ![next] = 0]
      /\ payload' = [payload EXCEPT ![b] = 0] /\ brk' = brk
      /\ Free(a) /\ After(a) = b
  BY <1>n DEF FreeWithBoth, FreeBefore
<1>2. /\ a \in Addr /\ b \in Addr /\ next \in Addr
      /\ a \in Nat /\ b \in Nat /\ next \in Nat /\ a < b /\ b < next
      /\ size[a] \in Nat /\ size[b] \in Nat /\ size[next] \in Nat
      /\ b = a + size[a] /\ next = b + size[b]
  BY <1>n, <1>1, BlockType DEF IInv, Blocks, After
<1>3. {c \in Blocks : a < c /\ c <= next} = {b, next}
  <2>1. {c \in Blocks : a < c /\ c <= b} = {b}
    BY <1>1, NothingBetween
  <2>2. {c \in Blocks : b < c /\ c <= next} = {next}
    BY <1>n, NothingBetween
  <2>3. ASSUME NEW c \in Blocks PROVE (a < c /\ c <= next) <=> (c = b \/ c = next)
    <3>1. c \in Nat /\ (a < c /\ c <= b <=> c = b) /\ (b < c /\ c <= next <=> c = next)
      BY <2>1, <2>2, <1>n, BlockType DEF IInv
    <3> QED BY <3>1, <1>2
  <2> QED BY <2>3, <1>n
<1>4. After(next) - a = size[a] + size[b] + size[next]
  BY <1>2 DEF After
<1>5. size' \in [Addr -> Nat]
  BY <1>1, <1>2 DEF IInv, TypeOK
<1>6. \A c \in Addr : size'[c] = IF c = a THEN After(next) - a
                                 ELSE IF c \in {b, next} THEN 0 ELSE size[c]
  BY <1>1, <1>2, <1>4 DEF IInv, TypeOK
<1>7. After(next) \in Blocks => ~Free(After(next))
  BY <1>n DEF IInv, Coalesced
<1>8. \A c \in Blocks : After(c) = a => ~Free(c)
  BY <1>1 DEF IInv, Coalesced
<1>9. MergeStep(a, next, b, {b, next})
  BY <1>n, <1>1, <1>2, <1>3, <1>5, <1>6, <1>7, <1>8 DEF MergeStep
<1> QED BY <1>9, MergeIInv

-----------------------------------------------------------------------------
(* Every call of the allocator keeps the invariant.                        *)
LEMMA NextIInv == IInv /\ [Next]_vars => IInv'
<1> SUFFICES ASSUME IInv, [Next]_vars PROVE IInv'
  OBVIOUS
<1>1. ASSUME NEW n \in Requests, Extend(n) PROVE IInv'
  BY <1>1, ExtendIInv
<1>2. ASSUME NEW b \in Blocks, NEW n \in Requests, PlaceWhole(b, n) PROVE IInv'
  BY <1>2, PlaceWholeIInv
<1>3. ASSUME NEW b \in Blocks, NEW n \in Requests, PlaceSplit(b, n) PROVE IInv'
  BY <1>3, PlaceSplitIInv
<1>4. ASSUME NEW b \in Blocks, FreeAlone(b) PROVE IInv'
  BY <1>4, FreeAloneIInv
<1>5. ASSUME NEW b \in Blocks, FreeWithNext(b) PROVE IInv'
  BY <1>5, FreeWithNextIInv
<1>6. ASSUME NEW b \in Blocks, NEW a \in Blocks, FreeWithPrev(a, b) PROVE IInv'
  BY <1>6, FreeWithPrevIInv
<1>7. ASSUME NEW b \in Blocks, NEW a \in Blocks, FreeWithBoth(a, b) PROVE IInv'
  BY <1>7, FreeWithBothIInv
<1>8. CASE UNCHANGED vars
  BY <1>8 DEF vars, IInv, TypeOK, Aligned, Tiled, Disjoint, Coalesced, PayloadFits,
              Blocks, End, After, Free
<1> QED BY <1>1, <1>2, <1>3, <1>4, <1>5, <1>6, <1>7, <1>8 DEF Next

LEMMA Invariance == Spec => []IInv
BY InitIInv, NextIInv, PTL DEF Spec

(* The shape of the state.                                                 *)
THEOREM TypeCorrect == Spec => []TypeOK
<1>1. IInv => TypeOK
  BY DEF IInv
<1> QED BY <1>1, Invariance, PTL

(* What the tag arithmetic of mm_free and coalesce relies on: blocks start *)
(* at doubleword boundaries, are whole doublewords long, and have room for *)
(* two tags.                                                               *)
THEOREM BlocksAligned == Spec => []Aligned
<1>1. IInv => Aligned
  BY DEF IInv
<1> QED BY <1>1, Invariance, PTL

(* What the walk of mm_malloc relies on: from the first block NEXT_BLKP    *)
(* steps from block to block up to the epilogue, leaving no gap.           *)
THEOREM WellFormedHeap == Spec => []Tiled
<1>1. IInv => Tiled
  BY DEF IInv
<1> QED BY <1>1, Invariance, PTL

(* No block reaches into another one, whatever was split and merged.       *)
THEOREM BlocksDisjoint == Spec => []Disjoint
<1>1. IInv => Disjoint
  BY DEF IInv
<1> QED BY <1>1, Invariance, PTL

(* coalesce of mm.c: after every mm_free and mm_malloc no two free blocks  *)
(* touch, so that coalesce never has more than its four cases.             *)
THEOREM FreeBlocksMerged == Spec => []Coalesced
<1>1. IInv => Coalesced
  BY DEF IInv
<1> QED BY <1>1, Invariance, PTL

(* A block in use has room for its payload and its tags, and place() has   *)
(* left no other block's room in it.                                       *)
THEOREM RequestsFit == Spec => []PayloadFits
<1>1. IInv => PayloadFits
  BY DEF IInv
<1> QED BY <1>1, Invariance, PTL

-----------------------------------------------------------------------------
(* A payload that fits into a block is inside the heap, ...                *)
LEMMA PayloadInBlock ==
    ASSUME IInv, NEW b \in Blocks, NEW n \in Nat, n + 8 <= size[b]
    PROVE  b % 8 = 0 /\ b + n + 4 <= brk + 4 /\ b + n + 8 <= After(b)
<1>1. b \in Nat /\ size[b] \in Nat /\ brk \in Nat
  BY BlockType DEF IInv, TypeOK
<1>2. b % 8 = 0 /\ After(b) <= brk + 4
  BY DEF IInv, Aligned, Tiled, End
<1> QED BY <1>1, <1>2 DEF After

(* ... and apart from what any other block holds.                          *)
LEMMA PayloadsOfTwoBlocks ==
    ASSUME IInv, NEW b \in Blocks, NEW n \in Nat, n + 8 <= size[b],
           NEW c \in Blocks, b < c
    PROVE  b + n + 8 <= c
<1>1. After(b) <= c /\ b \in Nat /\ c \in Nat /\ size[b] \in Nat
  BY BlockType DEF IInv, Disjoint
<1> QED BY <1>1 DEF After

(* Live payloads are aligned, inside the heap, and at least two tags apart *)
(* from each other: what the driver tests after every mm_malloc.           *)
THEOREM PayloadSafety == Spec => []PayloadsApart
<1>1. IInv => PayloadsApart
  <2> SUFFICES ASSUME IInv, NEW p \in Addr, NEW q \in Addr, ~Free(p)
               PROVE  /\ p % 8 = 0 /\ p + payload[p] <= brk
                      /\ ~Free(q) /\ p < q => p + payload[p] + 8 <= q
    BY DEF PayloadsApart
  <2>1. /\ p \in Blocks /\ payload[p] \in Nat /\ payload[p] + 8 <= size[p]
        /\ p \in Nat /\ brk \in Nat
    BY HeapAssumption DEF IInv, TypeOK, PayloadFits, Addr
  <2>2. p % 8 = 0 /\ p + payload[p] + 4 <= brk + 4
    BY <2>1, PayloadInBlock
  <2>3. ASSUME ~Free(q), p < q PROVE p + payload[p] + 8 <= q
    BY <2>1, <2>3, PayloadsOfTwoBlocks DEF IInv, PayloadFits
  <2> QED BY <2>1, <2>2, <2>3
<1> QED BY <1>1, Invariance, PTL

(* Handing out a free block is a Malloc of the abstract allocator.         *)
LEMMA PlaceIsMalloc ==
    ASSUME IInv, NEW n \in Requests, NEW b \in Blocks,
           Free(b), size[b] >= Adjust(n),
           payload' = [payload EXCEPT ![b] = n], brk' = brk
    PROVE  Promise!Malloc(b, n)
<1>1. n \in Nat /\ n + 8 <= size[b] /\ b \in Addr /\ b \in Nat /\ size[b] \in Nat
  BY AdjustBounds, BlockType DEF IInv, Blocks
<1>2. b % 8 = 0 /\ b + n + 4 <= brk + 4 /\ brk \in Nat
  BY <1>1, PayloadInBlock DEF IInv, TypeOK
<1>3. ASSUME NEW q \in Addr, payload[q] > 0
      PROVE  Promise!Apart(b, n, q, payload[q])
  <2>1. /\ q \in Blocks /\ q # b /\ payload[q] \in Nat /\ payload[q] + 8 <= size[q]
        /\ q \in Nat
    <3>1. payload[q] \in Nat /\ ~Free(q) /\ q # b
      BY <1>3 DEF IInv, TypeOK, Free
    <3>2. q \in Blocks /\ payload[q] + 8 <= size[q]
      BY <3>1 DEF IInv, PayloadFits
    <3> QED BY <3>1, <3>2, BlockType DEF IInv
  <2>2. CASE b < q
    BY <2>1, <2>2, <1>1, PayloadsOfTwoBlocks DEF Promise!Apart
  <2>3. CASE q < b
    BY <2>1, <2>3, <1>1, PayloadsOfTwoBlocks DEF Promise!Apart
  <2> QED BY <2>1, <2>2, <2>3, <1>1
<1>4. brk' \in brk..MAX_HEAP /\ b + n <= brk'
  BY <1>1, <1>2, HeapAssumption DEF IInv, Aligned, End
<1> QED BY <1>2, <1>3, <1>4 DEF Promise!Malloc, Promise!Addr, Addr

(* So is an extension: its block starts where the heap used to end.        *)
LEMMA ExtendIsMalloc ==
    ASSUME IInv, NEW n \in Requests, Extend(n)
    PROVE  End \in Addr /\ Promise!Malloc(End, n)
<1>1. /\ n \in Nat /\ Adjust(n) \in Nat /\ Adjust(n) >= n + 8
      /\ brk \in Nat /\ brk % 8 = 4 /\ End = brk + 4 /\ End <= MAX_HEAP /\ MAX_HEAP \in Nat
  BY AdjustBounds, HeapAssumption DEF IInv, TypeOK, Aligned, End
<1>2. End \in Addr /\ End % 8 = 0
  BY <1>1 DEF Addr
<1>3. brk' = brk + Adjust(n) /\ brk' <= MAX_HEAP /\ payload' = [payload EXCEPT ![End] = n]
  BY DEF Extend
<1>4. brk' \in brk..MAX_HEAP /\ End + n <= brk'
  BY <1>1, <1>3
<1>5. ASSUME NEW q \in Addr, payload[q] > 0
      PROVE  q + payload[q] <= End
  <2>1. q \in Blocks /\ payload[q] \in Nat /\ payload[q] + 8 <= size[q] /\ q \in Nat
    BY <1>5, HeapAssumption DEF IInv, TypeOK, PayloadFits, Free, Addr
  <2>2. q + payload[q] + 4 <= brk + 4
    BY <2>1, PayloadInBlock
  <2> QED BY <2>1, <2>2, <1>1
<1> QED BY <1>2, <1>3, <1>4, <1>5 DEF Promise!Malloc, Promise!Apart, Promise!Addr, Addr

(* The heap of blocks implements the promise of a malloc package: every    *)
(* mm_malloc is a Malloc, every mm_free, whatever it merges, a Free.       *)
THEOREM Implements == Spec => KeepsPromise
<1>1. Init => Promise!Init
  BY HeapAssumption DEF Init, Promise!Init, Promise!Addr, Addr
<1>2. IInv /\ [Next]_vars => [Promise!Next]_<<payload, brk>>
  <2> SUFFICES ASSUME IInv, [Next]_vars PROVE [Promise!Next]_<<payload, brk>>
    OBVIOUS
  <2>a. Addr = Promise!Addr
    BY DEF Addr, Promise!Addr
  <2>1. ASSUME NEW n \in Requests, Extend(n) PROVE Promise!Next
    BY <2>a, <2>1, ExtendIsMalloc DEF Promise!Next
  <2>2. ASSUME NEW b \in Blocks, NEW n \in Requests, PlaceWhole(b, n) \/ PlaceSplit(b, n)
        PROVE  Promise!Next
    <3>1. b \in Promise!Addr /\ Promise!Malloc(b, n)
      BY <2>a, <2>2, PlaceIsMalloc DEF PlaceWhole, PlaceSplit, FirstFit, Blocks
    <3> QED BY <3>1 DEF Promise!Next
  <2>3. ASSUME NEW b \in Blocks, ~Free(b), payload' = [payload EXCEPT ![b] = 0], brk' = brk
        PROVE  Promise!Next
    <3>1. b \in Addr /\ payload[b] > 0
      BY <2>3 DEF IInv, TypeOK, Blocks, Free
    <3>2. Promise!Free(b)
      BY <2>3, <3>1 DEF Promise!Free
    <3> QED BY <2>a, <3>1, <3>2 DEF Promise!Next
  <2>4. CASE UNCHANGED vars
    BY <2>4 DEF vars
  <2> QED BY <2>1, <2>2, <2>3, <2>4
          DEF Next, FreeAlone, FreeWithNext, FreeWithPrev, FreeWithBoth
<1> QED BY <1>1, <1>2, Invariance, PTL DEF Spec, KeepsPromise, Promise!Spec, Promise!avars
=============================================================================
