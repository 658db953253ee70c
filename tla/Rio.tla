--------------------------------- MODULE Rio ---------------------------------
(***************************************************************************)
(* The Rio package (the rio_ functions of Week08/csapp.c): what its calls  *)
(* take from the socket and from the internal buffer.                      *)
(*                                                                         *)
(* A rio_t is the sequence of its unread bytes, at most RIO_BUFSIZE.  The  *)
(* loops of rio_readlineb and rio_readnb between two calls of read(2) work *)
(* on private memory and are one step here.  A read or write interrupted   *)
(* by a signal is repeated by the code and changes nothing.                *)
(***************************************************************************)
EXTENDS Integers, Sequences

CONSTANTS Bytes,
          LF,             \* the byte '\n'
          RIO_BUFSIZE     \* bytes in the internal buffer

ASSUME RioAssumption == LF \in Bytes /\ RIO_BUFSIZE \in Nat \ {0}

First(s, k)   == SubSeq(s, 1, k)
Without(s, k) == SubSeq(s, k + 1, Len(s))

(* The lengths read(2) may return when it is asked for n bytes and the     *)
(* socket holds those of wire: any that is not 0.                          *)
ReadCounts(wire, n) == {k \in 1..Len(wire) : k <= n}

(* A faulty variant of the next definition, for the properties to catch.   *)
LineRoom_off_by_one(maxlen, got) == maxlen - Len(got)

(* Bytes rio_readlineb may still store: the last one is for the NUL.       *)
LineRoom(maxlen, got) == maxlen - 1 - Len(got)

(* From the unread bytes rio_readlineb takes k: up to the end of a line,   *)
(* of the room or of what is there.                                        *)
LinePart(unread, room, k) ==
    /\ k <= room
    /\ \A i \in 1..(k - 1) : unread[i] # LF
    /\ k = room \/ k = Len(unread) \/ unread[k] = LF

(* A faulty variant of the next definition, for the properties to catch.   *)
LineComplete_full_only(maxlen, got) == Len(got) = maxlen - 1

LineComplete(maxlen, got) ==
    Len(got) = maxlen - 1 \/ (got # <<>> /\ got[Len(got)] = LF)

(* From the unread bytes rio_readnb takes k: what is missing, or all.      *)
CountPart(unread, room, k) == k <= room /\ (k = room \/ k = Len(unread))
=============================================================================
