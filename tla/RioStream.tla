------------------------------ MODULE RioStream ------------------------------
(***************************************************************************)
(* One direction of a connection: a process that sends with rio_writen and *)
(* one that receives with rio_readlineb and rio_readnb in any order on the *)
(* same rio_t, over a socket that takes and returns short counts.          *)
(***************************************************************************)
EXTENDS Rio

CONSTANTS SocketSize,     \* bytes the socket holds
          MaxLines,       \* maxlen arguments of rio_readlineb
          Counts,         \* n arguments of rio_readnb
          Messages,       \* buffers given to rio_writen
          MaxSent         \* bound: bytes sent over the connection

(* Every caller in the repository passes MAXLINE (8192): with maxlen 1 the *)
(* call returns 0 as at end of file.                                       *)
ASSUME StreamAssumption ==
    /\ SocketSize \in Nat \ {0}
    /\ \A m \in MaxLines : m \in Nat /\ m >= 2
    /\ Counts \subseteq Nat \ {0}
    /\ Messages \subseteq Seq(Bytes)
    /\ MaxSent \in Nat

VARIABLES
    sent,        \* history: what rio_writen was asked to send
    towrite,     \* what is left of the current rio_writen
    wire,        \* bytes in the socket
    closed,      \* the sender has closed its end
    unread,      \* the receiver's rio_t
    call,        \* the receiver's current call, or Idle
    got,         \* bytes in the caller's buffer
    given        \* history: what the calls that returned have delivered

vars == <<sent, towrite, wire, closed, unread, call, got, given>>

Idle == [op |-> "none", n |-> 0]

Init ==
    /\ sent = <<>> /\ towrite = <<>> /\ wire = <<>> /\ closed = FALSE
    /\ unread = <<>> /\ call = Idle /\ got = <<>> /\ given = <<>>

-----------------------------------------------------------------------------
(***************************************************************************)
(* The sender.                                                             *)
(***************************************************************************)
rio_writen(message) ==
    /\ ~closed /\ towrite = <<>> /\ Len(sent) + Len(message) <= MaxSent
    /\ towrite' = message
    /\ sent' = sent \o message
    /\ UNCHANGED <<wire, closed, unread, call, got, given>>

(* One write(2): the socket takes what it has room for, or less.           *)
Write ==
    \E k \in 1..Len(towrite) :
        /\ Len(wire) + k <= SocketSize
        /\ wire' = wire \o First(towrite, k)
        /\ towrite' = Without(towrite, k)
        /\ UNCHANGED <<sent, closed, unread, call, got, given>>

Close ==
    /\ ~closed /\ towrite = <<>>
    /\ closed' = TRUE
    /\ UNCHANGED <<sent, towrite, wire, unread, call, got, given>>

-----------------------------------------------------------------------------
(***************************************************************************)
(* The receiver.                                                           *)
(***************************************************************************)
Call(op, n) ==
    /\ call = Idle
    /\ call' = [op |-> op, n |-> n]
    /\ got' = <<>>
    /\ UNCHANGED <<sent, towrite, wire, closed, unread, given>>

Room == IF call.op = "line" THEN LineRoom(call.n, got) ELSE call.n - Len(got)

Complete ==
    \/ call.op = "line" /\ LineComplete(call.n, got)
    \/ call.op = "count" /\ Len(got) = call.n

Waiting == call # Idle /\ ~Complete

(* rio_read finds its buffer empty and calls read(2).                      *)
Refill ==
    /\ Waiting /\ unread = <<>>
    /\ \E k \in ReadCounts(wire, RIO_BUFSIZE) :
          /\ unread' = First(wire, k)
          /\ wire' = Without(wire, k)
    /\ UNCHANGED <<sent, towrite, closed, call, got, given>>

(* rio_read copies from its buffer to the caller's.                        *)
Take ==
    /\ Waiting
    /\ \E k \in 1..Len(unread) :
          /\ \/ call.op = "line" /\ LinePart(unread, Room, k)
             \/ call.op = "count" /\ CountPart(unread, Room, k)
          /\ got' = got \o First(unread, k)
          /\ unread' = Without(unread, k)
    /\ UNCHANGED <<sent, towrite, wire, closed, call, given>>

(* A faulty variant of the next definition, for the properties to catch.   *)
AtEnd_nothing_there == unread = <<>> /\ wire = <<>>

(* read(2) returns 0.                                                      *)
AtEnd == unread = <<>> /\ wire = <<>> /\ closed

(* A faulty variant of the next definition, for the properties to catch.   *)
Return_reinit ==
    /\ call # Idle /\ (Complete \/ AtEnd)
    /\ given' = given \o got
    /\ call' = Idle /\ got' = <<>> /\ unread' = <<>>
    /\ UNCHANGED <<sent, towrite, wire, closed>>

Return ==
    /\ call # Idle /\ (Complete \/ AtEnd)
    /\ given' = given \o got
    /\ call' = Idle
    /\ got' = <<>>
    /\ UNCHANGED <<sent, towrite, wire, closed, unread>>

Next ==
    \/ \E message \in Messages : rio_writen(message)
    \/ Write
    \/ Close
    \/ \E n \in MaxLines : Call("line", n)
    \/ \E n \in Counts : Call("count", n)
    \/ Refill
    \/ Take
    \/ Return

Spec == Init /\ [][Next]_vars

(* The two processes are scheduled and the network delivers; when the      *)
(* sender sends or closes, and whether the receiver calls, is left open.   *)
FairSpec ==
    Spec /\ WF_vars(Write) /\ WF_vars(Refill) /\ WF_vars(Take) /\ WF_vars(Return)

-----------------------------------------------------------------------------
(* The shape of the state; a call never stores more than the caller's      *)
(* buffer holds, a line with its NUL byte included.                        *)
TypeOK ==
    /\ {sent, towrite, wire, unread, got, given} \subseteq Seq(Bytes)
    /\ closed \in BOOLEAN
    /\ Len(wire) <= SocketSize /\ Len(unread) <= RIO_BUFSIZE
    /\ \/ call = Idle /\ got = <<>>
       \/ call.op = "line" /\ call.n \in MaxLines /\ Len(got) <= call.n - 1
       \/ call.op = "count" /\ call.n \in Counts /\ Len(got) <= call.n

(* No byte is lost, repeated or reordered on its way through the socket    *)
(* and the internal buffer, however the calls and short counts fall.       *)
Stream == given \o got \o unread \o wire \o towrite = sent

(* A line end in the caller's buffer is its last byte.                     *)
OneLine ==
    call.op = "line" => \A i \in 1..(Len(got) - 1) : got[i] # LF

(* A sender that has closed has nothing left to write.                     *)
ClosedClean == closed => towrite = <<>>

IInv == TypeOK /\ Stream /\ OneLine /\ ClosedClean

(* What the callers rely on: a line is complete or fills the buffer and a  *)
(* count is the one asked for, unless the sender has closed and everything *)
(* it sent has been delivered; no line holds a line end before its last    *)
(* byte.                                                                   *)
Results ==
    [][ call # Idle /\ call' = Idle =>
          /\ \/ call.op = "line" /\ LineComplete(call.n, got)
             \/ call.op = "count" /\ Len(got) = call.n
             \/ closed /\ given' = sent
          /\ call.op = "line" => \A i \in 1..(Len(got) - 1) : got[i] # LF ]_vars

(* A call returns if the sender has closed, or once a line end is on its   *)
(* way to a reader of lines.                                               *)
LineOnItsWay ==
    call.op = "line" /\ \E s \in {got, unread, wire, towrite} :
                           \E i \in 1..Len(s) : s[i] = LF

CallReturns == call # Idle /\ (closed \/ LineOnItsWay) ~> call = Idle
=============================================================================
