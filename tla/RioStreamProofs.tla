--------------------------- MODULE RioStreamProofs ---------------------------
(***************************************************************************)
(* The Rio package delivers the bytes that were sent, for every size of    *)
(* the buffers and every set of messages and calls.                        *)
(***************************************************************************)
EXTENDS RioStream, SequenceTheorems, TLAPS

(* Joining sequences: the type, the length and the bytes, and joining      *)
(* twice.                                                                  *)
LEMMA Joined ==
    ASSUME NEW s \in Seq(Bytes), NEW t \in Seq(Bytes)
    PROVE  /\ s \o t \in Seq(Bytes) /\ Len(s \o t) = Len(s) + Len(t)
           /\ \A i \in 1..Len(s) : (s \o t)[i] = s[i]
           /\ \A i \in 1..Len(t) : (s \o t)[Len(s) + i] = t[i]
OBVIOUS

LEMMA JoinedTwice ==
    ASSUME NEW s \in Seq(Bytes), NEW t \in Seq(Bytes), NEW u \in Seq(Bytes)
    PROVE  (s \o t) \o u = s \o (t \o u)
BY ConcatAssociative

(* A cut sequence is its two parts.                                        *)
LEMMA Cut ==
    ASSUME NEW s \in Seq(Bytes), NEW k \in 1..Len(s)
    PROVE  /\ First(s, k) \in Seq(Bytes) /\ Len(First(s, k)) = k
           /\ Without(s, k) \in Seq(Bytes) /\ Len(Without(s, k)) = Len(s) - k
           /\ First(s, k) \o Without(s, k) = s
           /\ \A i \in 1..k : First(s, k)[i] = s[i]
<1>1. Len(s) \in Nat /\ \A i \in 1..Len(s) : s[i] \in Bytes
  BY ElementOfSeq
<1>2. First(s, k) \in Seq(Bytes) /\ Len(First(s, k)) = k
      /\ \A i \in 1..k : First(s, k)[i] = s[i]
  BY <1>1, SubSeqProperties DEF First
<1>3. Without(s, k) \in Seq(Bytes) /\ Len(Without(s, k)) = Len(s) - k
  BY <1>1, SubSeqProperties DEF Without
<1>4. First(s, k) \o Without(s, k) = SubSeq(s, 1, Len(s))
  <2>1. 1 \in 1..(Len(s) + 1) /\ k \in (1 - 1)..Len(s) /\ Len(s) \in k..Len(s)
    BY <1>1
  <2> QED BY <2>1, ConcatAdjacentSubSeq DEF First, Without
<1> QED BY <1>2, <1>3, <1>4, SubSeqFull

(* The end of a line is the last byte of what a line call has stored.      *)
LEMMA LineGrows ==
    ASSUME NEW s \in Seq(Bytes), NEW t \in Seq(Bytes), NEW k \in 1..Len(t), NEW room,
           \A i \in 1..Len(s) : s[i] # LF, LinePart(t, room, k)
    PROVE  \A i \in 1..(Len(s \o First(t, k)) - 1) : (s \o First(t, k))[i] # LF
<1> DEFINE f == First(t, k)
<1>1. Len(s) \in Nat /\ Len(t) \in Nat /\ k \in Nat
  OBVIOUS
<1>2. f \in Seq(Bytes) /\ Len(f) = k /\ \A i \in 1..k : f[i] = t[i]
  BY Cut
<1> HIDE DEF f
<1>3. /\ Len(s \o f) = Len(s) + k
      /\ \A i \in 1..Len(s) : (s \o f)[i] = s[i]
      /\ \A i \in 1..k : (s \o f)[Len(s) + i] = f[i]
  BY <1>2, Joined
<1>4. \A i \in 1..(k - 1) : t[i] # LF
  BY DEF LinePart
<1>5. ASSUME NEW i \in 1..(Len(s) + k - 1) PROVE (s \o f)[i] # LF
  <2>1. CASE i <= Len(s)
    BY <1>1, <1>3, <2>1
  <2>2. CASE ~(i <= Len(s))
    <3>1. i - Len(s) \in 1..(k - 1) /\ i = Len(s) + (i - Len(s))
      BY <1>1, <2>2
    <3>2. (s \o f)[i] = f[i - Len(s)] /\ f[i - Len(s)] = t[i - Len(s)]
      BY <1>1, <1>2, <1>3, <3>1
    <3> QED BY <3>1, <3>2, <1>4
  <2> QED BY <2>1, <2>2
<1> QED BY <1>3, <1>5 DEF f

-----------------------------------------------------------------------------
LEMMA InitIInv == Init => IInv
<1> SUFFICES ASSUME Init PROVE IInv
  OBVIOUS
<1>1. <<>> \in Seq(Bytes) /\ Len(<<>>) = 0 /\ <<>> \o <<>> = <<>>
  OBVIOUS
<1>2. TypeOK
  BY <1>1, RioAssumption, StreamAssumption, 0 <= SocketSize, 0 <= RIO_BUFSIZE DEF Init, TypeOK
<1>3. Stream
  BY <1>1 DEF Init, Stream
<1>4. OneLine /\ ClosedClean
  BY DEF Init, OneLine, ClosedClean, Idle
<1> QED BY <1>2, <1>3, <1>4 DEF IInv

(* What the type invariant says of the parts of the stream.                *)
LEMMA Parts ==
    ASSUME TypeOK
    PROVE  /\ sent \in Seq(Bytes) /\ towrite \in Seq(Bytes) /\ wire \in Seq(Bytes)
           /\ unread \in Seq(Bytes) /\ got \in Seq(Bytes) /\ given \in Seq(Bytes)
BY DEF TypeOK

(* The sender: a message joins the stream at its end, and its bytes go     *)
(* into the socket in order.                                               *)
LEMMA SenderIInv ==
    ASSUME IInv,
           (\E message \in Messages : rio_writen(message)) \/ Write \/ Close
    PROVE  IInv'
<1>0. /\ sent \in Seq(Bytes) /\ towrite \in Seq(Bytes) /\ wire \in Seq(Bytes)
      /\ unread \in Seq(Bytes) /\ got \in Seq(Bytes) /\ given \in Seq(Bytes)
  BY DEF IInv, TypeOK
<1> USE <1>0, StreamAssumption DEF IInv
<1>1. ASSUME NEW message \in Messages, rio_writen(message)
      PROVE  IInv'
  <2>1. message \in Seq(Bytes)
    OBVIOUS
  <2>2. /\ sent' = sent \o message /\ towrite' = message /\ towrite = <<>> /\ ~closed
        /\ UNCHANGED <<wire, closed, unread, call, got, given>>
    BY <1>1 DEF rio_writen
  <2>3. TypeOK'
    BY <2>1, <2>2, Joined DEF TypeOK
  <2>4. Stream'
    <3> DEFINE front == given \o got \o unread \o wire
    <3>1. front \in Seq(Bytes)
      BY Joined
    <3>2. front \o <<>> = sent
      BY <2>2 DEF Stream
    <3>3. front = sent
      BY <3>1, <3>2, ConcatEmptySeq
    <3> QED BY <3>3, <2>2 DEF Stream
  <2>5. OneLine' /\ ClosedClean'
    BY <2>2 DEF OneLine, ClosedClean
  <2> QED BY <2>3, <2>4, <2>5
<1>2. ASSUME Write PROVE IInv'
  <2>1. PICK k \in 1..Len(towrite) :
           /\ Len(wire) + k <= SocketSize
           /\ wire' = wire \o First(towrite, k) /\ towrite' = Without(towrite, k)
           /\ UNCHANGED <<sent, closed, unread, call, got, given>>
    BY <1>2 DEF Write
  <2>2. given \o got \in Seq(Bytes)
    BY Joined
  <2>3. given \o got \o unread \in Seq(Bytes)
    BY <2>2, Joined
  <2>4. /\ wire' \in Seq(Bytes) /\ Len(wire') = Len(wire) + k /\ towrite' \in Seq(Bytes)
        /\ given \o got \o unread \o wire' \o towrite'
              = given \o got \o unread \o wire \o towrite
    <3>1. wire' = wire \o First(towrite, k) /\ towrite' = Without(towrite, k)
      BY <2>1
    <3> DEFINE a == given \o got \o unread
               f == First(towrite, k)
               y == Without(towrite, k)
    <3>2. a \in Seq(Bytes) /\ wire \in Seq(Bytes) /\ f \in Seq(Bytes) /\ y \in Seq(Bytes)
      BY <2>3, Cut
    <3>3. Len(f) = k /\ f \o y = towrite
      BY Cut
    <3> HIDE <1>0, StreamAssumption DEF a, f, y
    <3>4. wire \o f \in Seq(Bytes) /\ Len(wire \o f) = Len(wire) + k
      BY <3>2, <3>3, Joined
    <3>5. wire \o f \in Seq(Bytes)
      BY <3>4
    <3>6. a \o (wire \o f) \o y = a \o ((wire \o f) \o y)
      BY <3>2, <3>5, JoinedTwice, ZenonT(40)
    <3>7. (wire \o f) \o y = wire \o (f \o y)
      BY <3>2, JoinedTwice
    <3>8. towrite \in Seq(Bytes)
      BY <1>0
    <3>9. a \o (wire \o towrite) = a \o wire \o towrite
      BY <3>2, <3>8, JoinedTwice, ZenonT(40)
    <3> QED BY <3>1, <3>2, <3>3, <3>4, <3>6, <3>7, <3>9 DEF a, f, y
  <2>5. TypeOK' /\ Stream'
    BY <2>1, <2>4 DEF TypeOK, Stream
  <2>6. OneLine' /\ ClosedClean'
    <3>1. Len(towrite) \in Nat /\ Len(towrite) > 0
      BY <2>1
    <3>2. towrite # <<>>
      BY <3>1
    <3> QED BY <3>2, <2>1 DEF OneLine, ClosedClean
  <2> QED BY <2>5, <2>6
<1>3. ASSUME Close PROVE IInv'
  BY <1>3 DEF Close, TypeOK, Stream, OneLine, ClosedClean, Idle
<1> QED BY <1>1, <1>2, <1>3

(* The receiver: a call starts, the internal buffer is filled from the     *)
(* socket, the caller's from the internal one, and the call returns.       *)
LEMMA CallIInv ==
    ASSUME IInv, NEW op, NEW n, Call(op, n),
           (op = "line" /\ n \in MaxLines) \/ (op = "count" /\ n \in Counts)
    PROVE  IInv'
<1>0. /\ sent \in Seq(Bytes) /\ towrite \in Seq(Bytes) /\ wire \in Seq(Bytes)
      /\ unread \in Seq(Bytes) /\ got \in Seq(Bytes) /\ given \in Seq(Bytes)
  BY DEF IInv, TypeOK
<1> USE <1>0, StreamAssumption DEF IInv
<1>1. /\ call' = [op |-> op, n |-> n] /\ got' = <<>>
      /\ UNCHANGED <<sent, towrite, wire, closed, unread, given>>
  BY DEF Call
<1>2. n \in Nat /\ n >= 1
  <2>1. CASE n \in MaxLines
    BY <2>1
  <2>2. CASE n \in Counts
    BY <2>2
  <2> QED BY <2>1, <2>2
<1>3. got = <<>>
  BY DEF Call, TypeOK, Idle
<1>4. Len(<<>>) = 0 /\ <<>> \in Seq(Bytes)
  OBVIOUS
<1>5. (op = "line" => n >= 2) /\ call'.op = op /\ call'.n = n
  BY <1>1, <1>2
<1>6. TypeOK'
  BY <1>1, <1>4, <1>5, <1>2 DEF TypeOK
<1>7. Stream' /\ ClosedClean'
  BY <1>1, <1>3 DEF Stream, ClosedClean
<1>8. OneLine'
  BY <1>1, <1>4 DEF OneLine
<1> QED BY <1>6, <1>7, <1>8

LEMMA RefillIInv ==
    ASSUME IInv, Refill
    PROVE  IInv'
<1>0. /\ sent \in Seq(Bytes) /\ towrite \in Seq(Bytes) /\ wire \in Seq(Bytes)
      /\ unread \in Seq(Bytes) /\ got \in Seq(Bytes) /\ given \in Seq(Bytes)
  BY DEF IInv, TypeOK
<1> USE <1>0 DEF IInv
<1>1. PICK k \in ReadCounts(wire, RIO_BUFSIZE) :
         unread' = First(wire, k) /\ wire' = Without(wire, k)
  BY DEF Refill
<1>2. /\ unread = <<>> /\ k \in 1..Len(wire) /\ k <= RIO_BUFSIZE
      /\ UNCHANGED <<sent, towrite, closed, call, got, given>>
  BY <1>1 DEF Refill, ReadCounts
<1>3. /\ unread' \in Seq(Bytes) /\ Len(unread') = k
      /\ wire' \in Seq(Bytes) /\ Len(wire') = Len(wire) - k
      /\ unread' \o wire' = wire
  BY <1>1, <1>2, Cut
<1>4. TypeOK'
  <2>1. Len(wire) \in Nat /\ Len(wire) <= SocketSize /\ SocketSize \in Nat
    BY StreamAssumption DEF TypeOK
  <2>2. Len(wire') <= SocketSize
    BY <2>1, <1>2, <1>3
  <2> QED BY <2>2, <1>2, <1>3 DEF TypeOK
<1>5. Stream'
  <2> DEFINE front == given \o got
  <2>1. front \in Seq(Bytes)
    BY Joined
  <2> HIDE DEF front
  <2>2. front \o <<>> = front
    BY <2>1, ConcatEmptySeq
  <2>3. front \o unread' \o wire' = front \o (unread' \o wire')
    <3>1. unread' \in Seq(Bytes) /\ wire' \in Seq(Bytes)
      BY <1>3
    <3> HIDE <1>0
    <3> QED BY <2>1, <3>1, JoinedTwice
  <2> QED BY <2>2, <2>3, <1>2, <1>3 DEF Stream, front
<1>6. OneLine' /\ ClosedClean'
  BY <1>2 DEF OneLine, ClosedClean
<1> QED BY <1>4, <1>5, <1>6

LEMMA TakeIInv ==
    ASSUME IInv, Take
    PROVE  IInv'
<1>0. /\ sent \in Seq(Bytes) /\ towrite \in Seq(Bytes) /\ wire \in Seq(Bytes)
      /\ unread \in Seq(Bytes) /\ got \in Seq(Bytes) /\ given \in Seq(Bytes)
  BY DEF IInv, TypeOK
<1> USE <1>0, StreamAssumption DEF IInv
<1>1. PICK k \in 1..Len(unread) :
         /\ \/ call.op = "line" /\ LinePart(unread, Room, k)
            \/ call.op = "count" /\ CountPart(unread, Room, k)
         /\ got' = got \o First(unread, k) /\ unread' = Without(unread, k)
  BY DEF Take
<1>2. Waiting /\ UNCHANGED <<sent, towrite, wire, closed, call, given>>
  BY DEF Take
<1>3. /\ got' \in Seq(Bytes) /\ Len(got') = Len(got) + k
      /\ unread' \in Seq(Bytes) /\ Len(unread') = Len(unread) - k
      /\ given \o got' \o unread' = given \o got \o unread
  <2>1. got' = got \o First(unread, k) /\ unread' = Without(unread, k)
    BY <1>1
  <2> DEFINE f == First(unread, k)
             y == Without(unread, k)
  <2>2. given \in Seq(Bytes) /\ got \in Seq(Bytes) /\ f \in Seq(Bytes) /\ y \in Seq(Bytes)
    BY Cut
  <2>3. Len(f) = k /\ Len(y) = Len(unread) - k /\ f \o y = unread
    BY Cut
  <2> HIDE <1>0, StreamAssumption DEF f, y
  <2>4. got \o f \in Seq(Bytes) /\ Len(got \o f) = Len(got) + k
    BY <2>2, <2>3, Joined
  <2>5. got \o f \in Seq(Bytes)
    BY <2>4
  <2>6. given \o (got \o f) \o y = given \o ((got \o f) \o y)
    BY <2>2, <2>5, JoinedTwice, ZenonT(40)
  <2>7. (got \o f) \o y = got \o (f \o y)
    BY <2>2, JoinedTwice
  <2>8. given \o (got \o unread) = given \o got \o unread
    BY <1>0, JoinedTwice
  <2> QED BY <2>1, <2>2, <2>3, <2>4, <2>6, <2>7, <2>8 DEF f, y
<1>5. TypeOK'
  <2>1. Len(got) \in Nat /\ Len(unread) \in Nat /\ k \in Nat /\ k <= Room
    BY <1>1 DEF LinePart, CountPart
  <2>2. call' = call /\ call # Idle
    BY <1>2 DEF Waiting
  <2>3. \/ call.op = "line" /\ call.n \in MaxLines /\ Len(got') <= call.n - 1
        \/ call.op = "count" /\ call.n \in Counts /\ Len(got') <= call.n
    <3>1. CASE call.op = "line"
      <4>1. call.n \in MaxLines /\ call.n \in Nat
        BY <3>1, <2>2 DEF TypeOK
      <4>2. k <= call.n - 1 - Len(got)
        BY <3>1, <2>1 DEF Room, LineRoom
      <4> QED BY <3>1, <4>1, <4>2, <2>1, <1>3
    <3>2. CASE call.op # "line"
      <4>1. call.op = "count" /\ call.n \in Counts /\ call.n \in Nat
        BY <3>2, <2>2 DEF TypeOK
      <4>2. k <= call.n - Len(got)
        BY <3>2, <2>1 DEF Room
      <4> QED BY <4>1, <4>2, <2>1, <1>3
    <3> QED BY <3>1, <3>2
  <2>4. Len(unread') <= RIO_BUFSIZE
    BY <2>1, <1>3, RioAssumption DEF TypeOK
  <2> QED BY <2>2, <2>3, <2>4, <1>2, <1>3 DEF TypeOK
<1>6. Stream'
  BY <1>2, <1>3 DEF Stream
<1>7. OneLine'
  <2> SUFFICES ASSUME call.op = "line"
               PROVE  \A i \in 1..(Len(got') - 1) : got'[i] # LF
    BY <1>2 DEF OneLine
  <2>1. \A i \in 1..Len(got) : got[i] # LF
    <3>1. ~LineComplete(call.n, got) /\ Len(got) \in Nat
      BY <1>2 DEF Waiting, Complete
    <3> SUFFICES ASSUME NEW i \in 1..Len(got) PROVE got[i] # LF
      OBVIOUS
    <3>2. CASE i = Len(got)
      BY <3>1, <3>2 DEF LineComplete
    <3>3. CASE i # Len(got)
      BY <3>1, <3>3 DEF OneLine
    <3> QED BY <3>2, <3>3
  <2>2. LinePart(unread, Room, k)
    BY <1>1
  <2> QED BY <2>1, <2>2, <1>1, LineGrows
<1>8. ClosedClean'
  BY <1>2 DEF ClosedClean
<1> QED BY <1>5, <1>6, <1>7, <1>8

LEMMA ReturnIInv ==
    ASSUME IInv, Return
    PROVE  IInv'
<1>0. /\ sent \in Seq(Bytes) /\ towrite \in Seq(Bytes) /\ wire \in Seq(Bytes)
      /\ unread \in Seq(Bytes) /\ got \in Seq(Bytes) /\ given \in Seq(Bytes)
  BY DEF IInv, TypeOK
<1> USE <1>0 DEF IInv
<1>1. /\ given' = given \o got /\ call' = Idle /\ got' = <<>>
      /\ UNCHANGED <<sent, towrite, wire, closed, unread>>
  BY DEF Return
<1>2. given' \in Seq(Bytes) /\ given' \o <<>> = given \o got
  BY <1>1, Joined, ConcatEmptySeq
<1>3. TypeOK'
  BY <1>1, <1>2 DEF TypeOK
<1>4. Stream'
  BY <1>1, <1>2 DEF Stream
<1>5. OneLine' /\ ClosedClean'
  BY <1>1 DEF OneLine, ClosedClean, Idle
<1> QED BY <1>3, <1>4, <1>5

LEMMA StepIInv == IInv /\ [Next]_vars => IInv'
<1> SUFFICES ASSUME IInv, [Next]_vars PROVE IInv'
  OBVIOUS
<1>1. CASE (\E message \in Messages : rio_writen(message)) \/ Write \/ Close
  BY <1>1, SenderIInv
<1>2. CASE \E n \in MaxLines : Call("line", n)
  BY <1>2, CallIInv
<1>3. CASE \E n \in Counts : Call("count", n)
  BY <1>3, CallIInv
<1>4. CASE Refill
  BY <1>4, RefillIInv
<1>5. CASE Take
  BY <1>5, TakeIInv
<1>6. CASE Return
  BY <1>6, ReturnIInv
<1>7. CASE UNCHANGED vars
  BY <1>7 DEF vars, IInv, TypeOK, Stream, OneLine, ClosedClean
<1> QED BY <1>1, <1>2, <1>3, <1>4, <1>5, <1>6, <1>7 DEF Next

LEMMA Inductive == Spec => []IInv
BY InitIInv, StepIInv, PTL DEF Spec

-----------------------------------------------------------------------------
(* No read overruns the internal buffer, no call the caller's: rio_readlineb*)
(* leaves room for the NUL, rio_readnb stops at n.                         *)
THEOREM BuffersKept == Spec => []TypeOK
<1>1. IInv => TypeOK
  BY DEF IInv
<1> QED BY <1>1, Inductive, PTL

(* The bytes delivered, those on their way and those still to be written   *)
(* are the bytes sent, in order.                                           *)
THEOREM StreamIntact == Spec => []Stream
<1>1. IInv => Stream
  BY DEF IInv
<1> QED BY <1>1, Inductive, PTL

(* A call that returns has what was asked for, or the sender has closed    *)
(* and all it sent has been delivered.                                     *)
LEMMA StepResults ==
    ASSUME IInv, Next, call # Idle, call' = Idle
    PROVE  /\ \/ call.op = "line" /\ LineComplete(call.n, got)
              \/ call.op = "count" /\ Len(got) = call.n
              \/ closed /\ given' = sent
           /\ call.op = "line" => \A i \in 1..(Len(got) - 1) : got[i] # LF
<1>1. Return
  BY DEF Next, rio_writen, Write, Close, Call, Refill, Take
<1>2. call.op = "line" => \A i \in 1..(Len(got) - 1) : got[i] # LF
  BY DEF IInv, OneLine
<1>3. CASE Complete
  BY <1>2, <1>3 DEF Complete
<1>4. CASE AtEnd
  <2>1. closed /\ unread = <<>> /\ wire = <<>> /\ towrite = <<>>
    BY <1>4 DEF AtEnd, IInv, ClosedClean
  <2>2. given' = given \o got /\ given \in Seq(Bytes) /\ got \in Seq(Bytes)
    BY <1>1, Parts DEF Return, IInv
  <2>3. given \o got \in Seq(Bytes)
    BY <2>2, Joined
  <2>4. given \o got \o <<>> = given \o got
    BY <2>3, ConcatEmptySeq
  <2>5. given' = sent
    BY <2>1, <2>2, <2>4 DEF IInv, Stream
  <2> QED BY <1>2, <2>1, <2>5
<1> QED BY <1>1, <1>3, <1>4 DEF Return

THEOREM CallResults == Spec => Results
<1>1. IInv /\ [Next]_vars =>
         [ call # Idle /\ call' = Idle =>
             /\ \/ call.op = "line" /\ LineComplete(call.n, got)
                \/ call.op = "count" /\ Len(got) = call.n
                \/ closed /\ given' = sent
             /\ call.op = "line" => \A i \in 1..(Len(got) - 1) : got[i] # LF ]_vars
  BY StepResults
<1> QED BY <1>1, Inductive, PTL DEF Spec, Results
=============================================================================
