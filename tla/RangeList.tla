------------------------------ MODULE RangeList ------------------------------
(***************************************************************************)
(* The range list with which the malloc lab's driver checks an allocator   *)
(* (add_range, remove_range and clear_ranges of mdriver.c), against any    *)
(* allocator: lo is whatever address a malloc package may return.          *)
(*                                                                         *)
(* add_range refuses a range whose lo equals another's, so the linked list *)
(* is a set and remove_range, which stops at the first match, removes the  *)
(* one range that starts at lo (property UniqueLo).                        *)
(***************************************************************************)
EXTENDS Integers

CONSTANTS MAX_HEAP,    \* size of the arena
          Requests     \* payload sizes

ASSUME RangeAssumption == MAX_HEAP \in Nat /\ Requests \subseteq Nat \ {0}

VARIABLES ranges,      \* the payloads the driver has accepted, as [lo, hi]
          brk          \* the heap is the bytes below brk

rvars == <<ranges, brk>>
Addr  == 0..MAX_HEAP

(* What a malloc package may return: addresses just outside the arena too. *)
Pointers == -8..(MAX_HEAP + 8)

Range(lo, size) == [lo |-> lo, hi |-> lo + size - 1]

(* Faulty variants of the next definition, for the properties to catch.    *)
Overlaps_lo_only(new, r) == new.lo >= r.lo /\ new.lo <= r.hi
Overlaps_strict(new, r) == \/ new.lo > r.lo /\ new.lo <= r.hi
                           \/ new.hi > r.lo /\ new.hi <= r.hi

(* An end of the new range lies in an old one.                             *)
Overlaps(new, r) == \/ new.lo >= r.lo /\ new.lo <= r.hi
                    \/ new.hi >= r.lo /\ new.hi <= r.hi

(* A faulty variant of the next definition, for the properties to catch.   *)
Accepted_lo_only(rs, heap_end, new) ==
    /\ new.lo % 8 = 0
    /\ new.lo >= 0 /\ new.lo <= heap_end - 1
    /\ \A r \in rs : ~Overlaps(new, r)

(* Aligned, in the heap, and overlapping no other payload.                 *)
Accepted(rs, heap_end, new) ==
    /\ new.lo % 8 = 0
    /\ new.lo >= 0 /\ new.lo <= heap_end - 1
    /\ new.hi >= 0 /\ new.hi <= heap_end - 1
    /\ \A r \in rs : ~Overlaps(new, r)

add_range(rs, new) == rs \union {new}

(* A faulty variant of the next definition, for the properties to catch.   *)
remove_range_by_hi(rs, lo) == {r \in rs : r.hi # lo}

remove_range(rs, lo) == {r \in rs : r.lo # lo}

-----------------------------------------------------------------------------
Init == ranges = {} /\ brk \in Addr

(* A malloc: the heap may have grown.                                      *)
Add(new) ==
    /\ brk' \in brk..MAX_HEAP
    /\ \/ Accepted(ranges, brk', new) /\ ranges' = add_range(ranges, new)
       \/ ~Accepted(ranges, brk', new) /\ UNCHANGED ranges

(* A realloc of an accepted payload: the old range goes, whether the new   *)
(* one is accepted or not.                                                 *)
Replace(lo, new) ==
    LET rest == remove_range(ranges, lo)
    IN  /\ brk' \in brk..MAX_HEAP
        /\ \/ Accepted(rest, brk', new) /\ ranges' = add_range(rest, new)
           \/ ~Accepted(rest, brk', new) /\ ranges' = rest

Remove(lo) == ranges' = remove_range(ranges, lo) /\ UNCHANGED brk

(* The heap grows in a call whose payload is not checked (yet).            *)
Grow == brk' \in brk..MAX_HEAP /\ UNCHANGED ranges

(* clear_ranges and mem_reset_brk, at the start of an evaluation.          *)
Clear == ranges' = {} /\ brk' \in Addr

Next ==
    \/ \E lo \in Pointers, size \in Requests :
          \/ Add(Range(lo, size))
          \/ \E r \in ranges : Replace(r.lo, Range(lo, size))
    \/ \E r \in ranges : Remove(r.lo)
    \/ Grow
    \/ Clear

Spec == Init /\ [][Next]_rvars

-----------------------------------------------------------------------------
Inside(r, s) == r.lo > s.lo /\ r.hi < s.hi
Apart(r, s)  == r.hi < s.lo \/ s.hi < r.lo

(* The shape of the state.                                                 *)
TypeOK ==
    /\ ranges \subseteq [lo : Nat, hi : Nat]
    /\ brk \in Addr

(* No two ranges start at the same address: remove_range's search by lo    *)
(* cannot take the wrong record.                                           *)
UniqueLo == \A r, s \in ranges : r.lo = s.lo => r = s

(* What add_range's test guarantees of the accepted payloads: two of them  *)
(* share a byte only if one lies strictly inside the other.                *)
NestedOrApart ==
    \A r, s \in ranges : r # s => Apart(r, s) \/ Inside(r, s) \/ Inside(s, r)

(* Every accepted payload is aligned, not empty and inside the heap, also  *)
(* after the heap has grown.                                               *)
InHeap == \A r \in ranges : r.lo % 8 = 0 /\ r.lo <= r.hi /\ r.hi < brk

IInv == TypeOK /\ UniqueLo /\ NestedOrApart /\ InHeap
=============================================================================
