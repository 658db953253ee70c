------------------------------ MODULE Allocator ------------------------------
(***************************************************************************)
(* What a malloc package promises the driver (the checks of add_range in   *)
(* mdriver.c, stated for mm_malloc and mm_free in mm.h): a payload is      *)
(* aligned, lies inside the heap and shares no byte with a live payload;   *)
(* nothing else changes a live payload's place or size; the heap only      *)
(* grows.                                                                  *)
(***************************************************************************)
EXTENDS Integers

CONSTANTS MAX_HEAP,    \* bytes the heap may grow to
          Requests     \* sizes the program may ask for

VARIABLES live,        \* live[p] is the size of the payload at p, 0 if none
          brk          \* the heap is the bytes below brk

avars == <<live, brk>>
Addr == 0..MAX_HEAP

Apart(p, n, q, m) == p + n <= q \/ q + m <= p

Init == live = [p \in Addr |-> 0] /\ brk \in Addr

Malloc(p, n) ==
    /\ p % 8 = 0
    /\ \A q \in Addr : live[q] > 0 => Apart(p, n, q, live[q])
    /\ brk' \in brk..MAX_HEAP
    /\ p + n <= brk'
    /\ live' = [live EXCEPT ![p] = n]

Free(p) ==
    /\ live[p] > 0
    /\ live' = [live EXCEPT ![p] = 0]
    /\ UNCHANGED brk

Next == \E p \in Addr : Free(p) \/ \E n \in Requests : Malloc(p, n)

Spec == Init /\ [][Next]_avars
=============================================================================
