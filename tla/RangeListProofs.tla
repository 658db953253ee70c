--------------------------- MODULE RangeListProofs ---------------------------
(***************************************************************************)
(* What add_range's overlap test proves of the payloads it accepts, for    *)
(* every allocator, arena and request size.                                *)
(***************************************************************************)
EXTENDS RangeList, TLAPS

(* An accepted range is not empty and starts inside the arena.             *)
LEMMA AcceptedType ==
    ASSUME NEW lo \in Pointers, NEW n \in Requests, NEW rs, NEW e,
           Accepted(rs, e, Range(lo, n))
    PROVE  /\ Range(lo, n) \in [lo : Nat, hi : Nat]
           /\ Range(lo, n).lo <= Range(lo, n).hi
BY RangeAssumption DEF Range, Pointers, Accepted

(* A sub-list with the same or a larger heap keeps the invariant.          *)
LEMMA SublistKeepsIInv ==
    ASSUME IInv, NEW rs, rs \subseteq ranges, ranges' = rs,
           brk' \in brk..MAX_HEAP
    PROVE  IInv'
BY RangeAssumption DEF IInv, TypeOK, UniqueLo, NestedOrApart, InHeap, Addr, Apart, Inside

(* Adding an accepted range to a sub-list keeps it too: the test refuses a *)
(* range with an end inside another one, and what is left is disjoint from *)
(* every old range or strictly around it.                                  *)
LEMMA AcceptKeepsIInv ==
    ASSUME IInv, NEW rs, rs \subseteq ranges,
           NEW lo \in Pointers, NEW n \in Requests,
           brk' \in brk..MAX_HEAP,
           Accepted(rs, brk', Range(lo, n)),
           ranges' = add_range(rs, Range(lo, n))
    PROVE  IInv'
<1> DEFINE new == Range(lo, n)
<1>1. new \in [lo : Nat, hi : Nat] /\ new.lo <= new.hi
  BY AcceptedType
<1>2. \A r \in rs : /\ r \in [lo : Nat, hi : Nat]
                    /\ r.lo % 8 = 0 /\ r.lo <= r.hi /\ r.hi < brk
  BY DEF IInv, TypeOK, InHeap
<1>3. \A r \in rs : ~Overlaps(new, r)
  BY DEF Accepted
<1>4. \A r \in rs : r.lo # new.lo /\ (Apart(r, new) \/ Inside(r, new))
  <2> HIDE DEF new
  <2> QED BY <1>1, <1>2, <1>3 DEF Overlaps, Apart, Inside
<1>5. ranges' = rs \union {new}
  BY DEF add_range
<1>6. brk \in Addr /\ brk' \in Addr /\ brk <= brk'
  BY RangeAssumption DEF IInv, TypeOK, Addr
<1>7. new.lo % 8 = 0 /\ new.hi < brk'
  <2>1. new.lo % 8 = 0 /\ new.hi <= brk' - 1
    BY DEF Accepted
  <2> HIDE DEF new
  <2> QED BY <2>1, <1>1, <1>6 DEF Addr
<1> HIDE DEF new
<1>8. TypeOK'
  BY <1>1, <1>2, <1>5, <1>6 DEF TypeOK
<1>9. UniqueLo'
  BY <1>4, <1>5 DEF IInv, UniqueLo
<1>10. NestedOrApart'
  BY <1>4, <1>5 DEF IInv, NestedOrApart, Apart
<1>11. InHeap'
  BY <1>1, <1>2, <1>5, <1>6, <1>7 DEF InHeap, Addr
<1> QED BY <1>8, <1>9, <1>10, <1>11 DEF IInv

LEMMA Invariance == Spec => []IInv
<1>1. Init => IInv
  BY DEF Init, IInv, TypeOK, UniqueLo, NestedOrApart, InHeap
<1>2. IInv /\ [Next]_rvars => IInv'
  <2> SUFFICES ASSUME IInv, [Next]_rvars PROVE IInv'
    OBVIOUS
  <2>1. ASSUME NEW lo \in Pointers, NEW n \in Requests, Add(Range(lo, n))
        PROVE  IInv'
    <3>1. CASE ranges' = ranges
      BY <2>1, <3>1, SublistKeepsIInv DEF Add
    <3>2. CASE ranges' # ranges
      BY <2>1, <3>2, AcceptKeepsIInv DEF Add
    <3> QED BY <3>1, <3>2
  <2>2. ASSUME NEW lo \in Pointers, NEW n \in Requests, NEW r \in ranges,
               Replace(r.lo, Range(lo, n))
        PROVE  IInv'
    <3> DEFINE rest == remove_range(ranges, r.lo)
    <3>1. rest \subseteq ranges /\ brk' \in brk..MAX_HEAP
      BY <2>2 DEF remove_range, Replace
    <3>2. CASE Accepted(rest, brk', Range(lo, n)) /\ ranges' = add_range(rest, Range(lo, n))
      BY <3>1, <3>2, AcceptKeepsIInv
    <3>3. CASE ranges' = rest
      BY <3>1, <3>3, SublistKeepsIInv
    <3> QED BY <2>2, <3>2, <3>3 DEF Replace
  <2>3. ASSUME NEW r \in ranges, Remove(r.lo)
        PROVE  IInv'
    <3>1. remove_range(ranges, r.lo) \subseteq ranges /\ brk' \in brk..MAX_HEAP
      BY <2>3, RangeAssumption DEF remove_range, Remove, IInv, TypeOK, Addr
    <3> QED BY <2>3, <3>1, SublistKeepsIInv DEF Remove
  <2>4. CASE Clear
    BY <2>4 DEF Clear, IInv, TypeOK, UniqueLo, NestedOrApart, InHeap
  <2>5. CASE UNCHANGED rvars
    BY <2>5 DEF rvars, IInv, TypeOK, UniqueLo, NestedOrApart, InHeap
  <2>6. CASE Grow
    BY <2>6, SublistKeepsIInv DEF Grow
  <2> QED BY <2>1, <2>2, <2>3, <2>4, <2>5, <2>6 DEF Next
<1> QED BY <1>1, <1>2, PTL DEF Spec

(* Two accepted payloads are disjoint or strictly nested: the test of      *)
(* add_range misses exactly the payload that surrounds another.            *)
THEOREM AcceptedRanges == Spec => []NestedOrApart
<1>1. IInv => NestedOrApart
  BY DEF IInv
<1> QED BY <1>1, Invariance, PTL

(* The range list never holds two records with the same start: remove_range*)
(* (mdriver.c), which looks for the start, takes the right one.            *)
THEOREM OneRangePerStart == Spec => []UniqueLo
<1>1. IInv => UniqueLo
  BY DEF IInv
<1> QED BY <1>1, Invariance, PTL

(* An accepted payload stays aligned and in the heap when the heap grows.  *)
THEOREM RangesInHeap == Spec => []InHeap
<1>1. IInv => InHeap
  BY DEF IInv
<1> QED BY <1>1, Invariance, PTL
=============================================================================
