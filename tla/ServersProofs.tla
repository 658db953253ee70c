---------------------------- MODULE ServersProofs ---------------------------
(***************************************************************************)
(* The proxy, the echo programs and Tiny, for any number of clients.       *)
(*                                                                         *)
(* ProxyIsSound: what a client gets from the proxy comes from the origin   *)
(* it has named, in order, without gaps, and is nobody else's; the header  *)
(* that goes to the origin is built as it should be; and the proxy dies of *)
(* the named causes only, for any origins and chunks. The chunks that a    *)
(* client has and those yet to be read are adjacent stretches of one       *)
(* origin's answer (IInv); HeaderInv says what the lines read so far have  *)
(* made of the header.                                                     *)
(*                                                                         *)
(* EchoIsSound: as long as a client and the server are there, everything   *)
(* the client sends comes back to it in order, and the queue of the server *)
(* holds each waiting client once. They take turns, so that at most one    *)
(* line is under way between them (EchoInv).                               *)
(*                                                                         *)
(* TinyIsSound: every answer of Tiny is complete, and right while no file  *)
(* changes; Tiny dies of the named causes only and leaves no child behind. *)
(* TinyInv says of each stage what has been read, what has been written    *)
(* and what is known of the file; the lemmas before it say which file a    *)
(* URI names.                                                              *)
(***************************************************************************)
EXTENDS MCServers, FiniteSetTheorems, SequenceTheorems, TLAPS

(* The chunks m + 1 to n of what an origin sends.                          *)
Sent(d, m, n) == [i \in 1..(n - m) |-> Chunk(d, m + i)]
Pieces(d) == {Chunk(d, i) : i \in Nat}

Gets(c)  == request[c].method = "GET" /\ Fits(request[c])
Lines(c) == Len(request[c].headers)
Down(c)  == Status(Asked(c)) = "down"
Lost     == Status(dest) = "down"

Stages == {"accept", "request", "501", "connect", "headers", "forward", "relay", "close", "dead"}

TypeInv ==
    /\ request \in [Clients -> Requests]
    /\ nsent \in [Clients -> Nat] /\ nread \in [Clients -> Nat]
    /\ hung \in [Clients -> BOOLEAN] /\ closed \in [Clients -> BOOLEAN]
    /\ DOMAIN got = Clients /\ DOMAIN origins = DOMAIN Origins
    /\ pc \in Stages /\ alive \in BOOLEAN /\ cut \in {"no", "fin", "rst"} /\ nreply \in Nat
    /\ \A c \in Clients : nsent[c] <= Lines(c) + 1

(* Whoever waits has not been touched; the client being served is not in   *)
(* the queue.                                                              *)
QueueInv ==
    /\ queue \in Seq(Clients)
    /\ \A i, j \in 1..Len(queue) : i # j => queue[i] # queue[j]
    /\ \A i \in 1..Len(queue) :
          LET c == queue[i] IN c # serving /\ got[c] = <<>> /\ nread[c] = 0 /\ ~closed[c]
    /\ pc = "accept" => serving = Nobody
    /\ pc # "accept" => serving \in Clients /\ ~closed[serving]

(* What has been read of the request that is being served.                 *)
ReadInv ==
    /\ pc = "request" => nread[serving] = 0
    /\ pc = "501" => ~Gets(serving)
    /\ pc \in {"connect", "headers", "forward", "relay"} =>
          \/ Gets(serving) /\ dest = Asked(serving)
          \/ ~Fits(request[serving])
    /\ pc \in {"connect", "headers"} => nread[serving] > 0
    /\ pc \in {"forward", "relay"} => hung[serving] \/ nread[serving] > Lines(serving)

(* What has come from the origin, and how it ended.                        *)
ReplyInv ==
    /\ pc \in {"request", "connect", "headers", "forward"} => got[serving] = <<>>
    /\ pc \in {"headers", "forward"} => reply = <<>> /\ nreply = 0
    /\ pc = "relay" => \E m \in 0..nreply : /\ nreply <= Chunks
                                            /\ got[serving] = Sent(dest, 0, m)
                                            /\ reply = Sent(dest, m, nreply)
    /\ pc \in {"headers", "forward", "relay"} =>
          /\ cut = "rst" => Lost
          /\ cut = "fin" => Lost \/ nreply = Chunks
    /\ pc = "close" /\ Gets(serving) =>
          \/ hung[serving] \/ Down(serving)
          \/ nread[serving] > Lines(serving) /\ got[serving] = Sent(Asked(serving), 0, Chunks)

GotInv ==
    \A c \in Clients : Gets(c) =>
        /\ \E m \in 0..Chunks : got[c] = Sent(Asked(c), 0, m)
        /\ closed[c] => hung[c] \/ Down(c) \/ got[c] = Sent(Asked(c), 0, Chunks)

DeathInv ==
    /\ alive <=> pc # "dead"
    /\ broken /\ pc # "accept" => hung[serving]
    /\ pc = "dead" => hung[serving] \/ Down(serving) \/ ~Fits(request[serving])

IInv == TypeInv /\ QueueInv /\ ReadInv /\ ReplyInv /\ GotInv /\ DeathInv

-----------------------------------------------------------------------------
(* Stretches of what an origin sends.                                      *)
LEMMA SentType ==
    ASSUME NEW d, NEW m \in Nat, NEW n \in Nat, m <= n
    PROVE  /\ Sent(d, m, n) \in Seq(Pieces(d)) /\ Len(Sent(d, m, n)) = n - m
           /\ \A i \in 1..(n - m) : Sent(d, m, n)[i] = Chunk(d, m + i)
<1>1. n - m \in Nat /\ \A i \in 1..(n - m) : m + i \in Nat
  OBVIOUS
<1>2. Sent(d, m, n) \in [1..(n - m) -> Pieces(d)]
  BY <1>1 DEF Sent, Pieces
<1> QED BY <1>1, <1>2 DEF Sent

LEMMA SentNone == \A d : \A m \in Nat : Sent(d, m, m) = <<>>
<1> SUFFICES ASSUME NEW d, NEW m \in Nat PROVE Sent(d, m, m) = <<>>
  OBVIOUS
<1>0. m <= m /\ m - m = 0
  OBVIOUS
<1>1. Sent(d, m, m) \in Seq(Pieces(d)) /\ Len(Sent(d, m, m)) = m - m
  BY <1>0, SentType
<1> QED BY <1>0, <1>1

LEMMA SentMore ==
    ASSUME NEW d, NEW m \in Nat, NEW n \in Nat, m <= n
    PROVE  Append(Sent(d, m, n), Chunk(d, n + 1)) = Sent(d, m, n + 1)
<1> DEFINE a == Append(Sent(d, m, n), Chunk(d, n + 1))
           b == Sent(d, m, n + 1)
<1>0. n + 1 \in Nat /\ m <= n + 1
  OBVIOUS
<1>1. /\ Sent(d, m, n) \in Seq(Pieces(d)) /\ Len(Sent(d, m, n)) = n - m
      /\ \A i \in 1..(n - m) : Sent(d, m, n)[i] = Chunk(d, m + i)
  BY SentType
<1>2. /\ b \in Seq(Pieces(d)) /\ Len(b) = n + 1 - m
      /\ \A i \in 1..(n + 1 - m) : b[i] = Chunk(d, m + i)
  <2>1. PICK k \in Nat : k = n + 1
    BY <1>0
  <2>2. m <= k
    BY <2>1
  <2>3. /\ Sent(d, m, k) \in Seq(Pieces(d)) /\ Len(Sent(d, m, k)) = k - m
        /\ \A i \in 1..(k - m) : Sent(d, m, k)[i] = Chunk(d, m + i)
    BY <2>2, SentType
  <2> QED BY <2>1, <2>3
<1>3. Chunk(d, n + 1) \in Pieces(d)
  BY DEF Pieces
<1>4. a \in Seq(Pieces(d)) /\ Len(a) = n - m + 1
  BY <1>1, <1>3
<1>5. \A i \in 1..(n - m + 1) : a[i] = Chunk(d, m + i)
  <2>1. m + (n - m + 1) = n + 1
    OBVIOUS
  <2> QED BY <1>1, <1>3, <2>1
<1>6. Len(a) = Len(b) /\ \A i \in 1..Len(a) : a[i] = b[i]
  BY <1>2, <1>4, <1>5
<1> HIDE DEF a, b
<1>7. a = b
  BY <1>2, <1>4, <1>6, SeqEqual
<1> QED BY <1>7 DEF a, b

LEMMA SentFirst ==
    ASSUME NEW d, NEW m \in Nat, NEW n \in Nat, m < n
    PROVE  Head(Sent(d, m, n)) = Chunk(d, m + 1) /\ Tail(Sent(d, m, n)) = Sent(d, m + 1, n)
<1> DEFINE a == Tail(Sent(d, m, n))
           b == Sent(d, m + 1, n)
<1>0. m + 1 \in Nat /\ m + 1 <= n /\ m <= n
  OBVIOUS
<1>1. /\ Sent(d, m, n) \in Seq(Pieces(d)) /\ Len(Sent(d, m, n)) = n - m
      /\ \A i \in 1..(n - m) : Sent(d, m, n)[i] = Chunk(d, m + i)
  BY <1>0, SentType
<1>2. /\ b \in Seq(Pieces(d)) /\ Len(b) = n - (m + 1)
      /\ \A i \in 1..(n - (m + 1)) : b[i] = Chunk(d, m + 1 + i)
  BY <1>0, SentType
<1>3. Head(Sent(d, m, n)) = Chunk(d, m + 1)
  BY <1>1
<1>4. a \in Seq(Pieces(d)) /\ Len(a) = n - m - 1
                           /\ \A i \in 1..(n - m - 1) : a[i] = Sent(d, m, n)[i + 1]
  BY <1>1
<1>5. \A i \in 1..(n - m - 1) : a[i] = Chunk(d, m + 1 + i)
  <2>1. \A i \in 1..(n - m - 1) : i + 1 \in 1..(n - m) /\ m + (i + 1) = m + 1 + i
    OBVIOUS
  <2> QED BY <1>1, <1>4, <2>1
<1>6. Len(a) = Len(b) /\ \A i \in 1..Len(a) : a[i] = b[i]
  BY <1>2, <1>4, <1>5
<1> HIDE DEF a, b
<1>7. a = b
  BY <1>2, <1>4, <1>6, SeqEqual
<1> QED BY <1>3, <1>7 DEF a, b

(* Requests do not change, clients that have gone do not come back, and an *)
(* origin that is down stays down.                                         *)
LEMMA Stays ==
    ASSUME TypeInv, [Next]_vars, NEW c \in Clients
    PROVE  /\ request' = request /\ (hung[c] => hung'[c]) /\ (Down(c) => Down(c)')
           /\ Asked(c)' = Asked(c) /\ Gets(c)' = Gets(c) /\ Lines(c)' = Lines(c)
<1>1. request' = request
  BY DEF Next, ProxyStep, OriginStep, vars, clients, Accept, ReadRequest, ReadNothing,
         ClientError, Connect,
         ReadHeader, HeadersAtEnd, Overflow, Forward, Relay, RelayEnds, RelayFails, Close, OriginSends,
         OriginCloses, OriginKilled, SendLine, HangUp, ReadsLine
<1>2. origins' = origins \/ \E o \in DOMAIN Origins : origins' = [origins EXCEPT ![o] = "down"]
  BY DEF Next, ProxyStep, OriginStep, vars, clients, Accept, ReadRequest, ReadNothing,
         ClientError, Connect,
         ReadHeader, HeadersAtEnd, Overflow, Forward, Relay, RelayEnds, RelayFails, Close, OriginSends,
         OriginCloses, OriginKilled, SendLine, HangUp
<1>3. hung' = hung \/ \E k \in Clients : hung' = [hung EXCEPT ![k] = TRUE]
  BY DEF Next, ProxyStep, OriginStep, vars, clients, Accept, ReadRequest, ReadNothing,
         ClientError, Connect,
         ReadHeader, HeadersAtEnd, Overflow, Forward, Relay, RelayEnds, RelayFails, Close, OriginSends,
         OriginCloses, OriginKilled, SendLine, HangUp, ReadsLine
<1>4. Down(c) => Down(c)'
  BY <1>1, <1>2 DEF TypeInv, Down, Asked, Status
<1>5. hung[c] => hung'[c]
  BY <1>3 DEF TypeInv
<1> QED BY <1>1, <1>4, <1>5 DEF Asked, Gets, Lines

(* A step that gives nobody a chunk and closes no connection to a client.  *)
LEMMA GotKeeps ==
    ASSUME IInv, [Next]_vars, got' = got, closed' = closed
    PROVE  GotInv'
<1> SUFFICES ASSUME NEW c \in Clients, Gets(c)'
             PROVE  /\ \E m \in 0..Chunks : got'[c] = Sent(Asked(c)', 0, m)
                    /\ closed'[c] => hung'[c] \/ Down(c)' \/ got'[c] = Sent(Asked(c)', 0, Chunks)
  BY DEF GotInv
<1>1. /\ hung[c] => hung'[c]
      /\ Down(c) => Down(c)'
      /\ Asked(c)' = Asked(c) /\ Gets(c)' = Gets(c)
  BY Stays DEF IInv
<1>2. /\ \E m \in 0..Chunks : got[c] = Sent(Asked(c), 0, m)
      /\ closed[c] => hung[c] \/ Down(c) \/ got[c] = Sent(Asked(c), 0, Chunks)
  BY <1>1 DEF IInv, GotInv
<1> QED BY <1>1, <1>2

LEMMA Initially == Init => IInv
<1> SUFFICES ASSUME Init PROVE IInv
  OBVIOUS
<1>1. queue \in Seq(Clients) /\ \A i, j \in 1..Len(queue) : i # j => queue[i] # queue[j]
  <2>1. Cardinality(Clients) \in Nat
    BY FS_CardinalityType, ProxyAssumption
  <2>2. /\ queue \in [1..Cardinality(Clients) -> Clients]
        /\ \A i, j \in 1..Cardinality(Clients) : i # j => queue[i] # queue[j]
    BY DEF Init, SetToSeqs
  <2> QED BY <2>1, <2>2
<1>2. TypeInv
  BY DEF Init, TypeInv, Stages, Lines, ProxyAssumption
<1>3. QueueInv
  <2>1. \A i \in 1..Len(queue) : queue[i] \in Clients
    BY <1>1
  <2> QED BY <1>1, <2>1, ProxyAssumption DEF Init, QueueInv
<1>4. ReadInv /\ ReplyInv /\ DeathInv
  BY DEF Init, ReadInv, ReplyInv, DeathInv
<1>5. GotInv
  <2>1. \A c \in Clients : got[c] = Sent(Asked(c), 0, 0) /\ ~closed[c]
    BY SentNone DEF Init
  <2>2. 0 \in 0..Chunks
    BY ProxyAssumption
  <2> QED BY <2>1, <2>2 DEF GotInv
<1> QED BY <1>2, <1>3, <1>4, <1>5 DEF IInv

LEMMA SendLineKeeps == ASSUME IInv, [Next]_vars, NEW c \in Clients, SendLine(c) PROVE IInv'
<1>1. TypeInv'
  BY DEF SendLine, IInv, TypeInv, Lines, build, upstream
<1>2. QueueInv'
  BY DEF SendLine, IInv, QueueInv
<1>3. ReadInv'
  BY DEF SendLine, IInv, ReadInv, Gets, Lines, Asked, build
<1>4. ReplyInv'
  BY DEF SendLine, IInv, ReplyInv, Gets, Lines, Asked, Down, Lost, Status, build, upstream
<1>5. GotInv'
  BY GotKeeps DEF SendLine
<1>6. DeathInv'
  BY DEF SendLine, IInv, DeathInv, Down, Asked, Status
<1> QED BY <1>1, <1>2, <1>3, <1>4, <1>5, <1>6 DEF IInv

LEMMA HangUpKeeps == ASSUME IInv, [Next]_vars, NEW c \in Clients, HangUp(c) PROVE IInv'
<1>0. /\ hung' = [hung EXCEPT ![c] = TRUE] /\ (c = serving \/ broken' = broken)
      /\ UNCHANGED <<request, nsent, nread, closed, queue, got, alive, serving, pc, dest,
                     reply, nreply, cut, origins>>
  BY DEF HangUp, build, upstream
<1>1. TypeInv'
  BY <1>0 DEF IInv, TypeInv, Lines
<1>2. QueueInv'
  BY <1>0 DEF IInv, QueueInv
<1>3. ReadInv'
  BY <1>0 DEF IInv, TypeInv, QueueInv, ReadInv, Gets, Lines, Asked
<1>4. ReplyInv'
  BY <1>0 DEF IInv, TypeInv, QueueInv, ReplyInv, Gets, Lines, Asked, Down, Lost, Status
<1>5. GotInv'
  BY <1>0, GotKeeps
<1>6. DeathInv'
  BY <1>0 DEF IInv, TypeInv, QueueInv, DeathInv, Down, Asked, Status
<1> QED BY <1>1, <1>2, <1>3, <1>4, <1>5, <1>6 DEF IInv

LEMMA OriginSendsKeeps == ASSUME IInv, [Next]_vars, OriginSends PROVE IInv'
<1>0. /\ pc = "relay" /\ cut = "no" /\ nreply < Chunks
      /\ nreply' = nreply + 1 /\ reply' = Append(reply, Chunk(dest, nreply + 1))
      /\ UNCHANGED <<request, nsent, nread, hung, closed, queue, got, alive, serving, pc,
                     broken, dest, cut, origins>>
  BY DEF OriginSends, clients, build, upstream
<1>1. TypeInv'
  BY <1>0 DEF IInv, TypeInv, Stages, Lines
<1>2. QueueInv'
  BY <1>0 DEF IInv, QueueInv
<1>3. ReadInv'
  BY <1>0 DEF IInv, TypeInv, QueueInv, ReadInv, Gets, Lines, Asked
<1>4. ReplyInv'
  <2>1. PICK m \in 0..nreply : /\ nreply <= Chunks /\ got[serving] = Sent(dest, 0, m)
                               /\ reply = Sent(dest, m, nreply)
    BY <1>0 DEF IInv, ReplyInv
  <2>2. m \in Nat /\ nreply \in Nat /\ m <= nreply /\ m \in 0..(nreply + 1)
    BY DEF IInv, TypeInv
  <2>3. reply' = Sent(dest, m, nreply + 1)
    BY <1>0, <2>1, <2>2, SentMore
  <2>4. nreply' <= Chunks /\ m \in 0..nreply'
    BY <1>0, <2>2, ProxyAssumption
  <2> QED BY <1>0, <2>1, <2>3, <2>4 DEF ReplyInv
<1>5. GotInv'
  BY <1>0, GotKeeps
<1>6. DeathInv'
  BY <1>0 DEF IInv, TypeInv, QueueInv, ReadInv, ReplyInv, DeathInv, Gets, Lines,
        Asked, Down, Lost, Status
<1> QED BY <1>1, <1>2, <1>3, <1>4, <1>5, <1>6 DEF IInv

LEMMA OriginClosesKeeps == ASSUME IInv, [Next]_vars, OriginCloses PROVE IInv'
<1>0. /\ pc = "relay" /\ cut = "no" /\ nreply = Chunks /\ cut' = "fin"
      /\ UNCHANGED <<request, nsent, nread, hung, closed, queue, got, alive, serving, pc,
                     broken, dest, reply, nreply, origins>>
  BY DEF OriginCloses, clients, build, upstream
<1>1. TypeInv'
  BY <1>0 DEF IInv, TypeInv, Stages, Lines
<1>2. QueueInv'
  BY <1>0 DEF IInv, QueueInv
<1>3. ReadInv'
  BY <1>0 DEF IInv, TypeInv, QueueInv, ReadInv, Gets, Lines, Asked
<1>4. ReplyInv'
  BY <1>0 DEF IInv, TypeInv, QueueInv, ReadInv, ReplyInv, Gets, Lines, Asked, Down, Lost,
        Status
<1>5. GotInv'
  BY <1>0, GotKeeps
<1>6. DeathInv'
  BY <1>0 DEF IInv, TypeInv, QueueInv, ReadInv, ReplyInv, DeathInv, Gets, Lines,
        Asked, Down, Lost, Status
<1> QED BY <1>1, <1>2, <1>3, <1>4, <1>5, <1>6 DEF IInv

LEMMA OriginKilledKeeps ==
    ASSUME IInv, [Next]_vars, NEW o \in DOMAIN Origins, OriginKilled(o)
    PROVE  IInv'
<1>0. /\ origins' = [origins EXCEPT ![o] = "down"]
      /\ \/ cut' = cut
         \/ o = <<dest.host, dest.port>> /\ cut' \in {"fin", "rst"}
      /\ UNCHANGED <<request, nsent, nread, hung, closed, queue, got, alive, serving, pc, broken,
                     dest, reply, nreply>>
  BY DEF OriginKilled, clients, build
<1>1. TypeInv'
  BY <1>0 DEF IInv, TypeInv, Lines
<1>2. QueueInv'
  BY <1>0 DEF IInv, QueueInv
<1>3. ReadInv'
  BY <1>0 DEF IInv, ReadInv, Gets, Lines, Asked
<1>4. ReplyInv'
  <2>1. serving \in Clients /\ Down(serving) => Down(serving)'
    BY <1>0 DEF IInv, TypeInv, Down, Asked, Status
  <2>4. Lost => Lost'
    BY <1>0 DEF IInv, TypeInv, Lost, Status
  <2>2. cut' = cut \/ Lost'
    <3>1. CASE o = <<dest.host, dest.port>>
      BY <1>0, <3>1 DEF IInv, TypeInv, Lost, Status
    <3> QED BY <1>0, <3>1
  <2>3. pc # "accept" => serving \in Clients
    BY DEF IInv, QueueInv
  <2> QED BY <1>0, <2>1, <2>2, <2>3, <2>4 DEF IInv, ReplyInv, Gets, Lines, Asked
<1>5. GotInv'
  BY <1>0, GotKeeps
<1>6. DeathInv'
  <2>1. serving \in Clients /\ Down(serving) => Down(serving)'
    BY <1>0 DEF IInv, TypeInv, Down, Asked, Status
  <2> QED BY <1>0, <2>1 DEF IInv, QueueInv, DeathInv
<1> QED BY <1>1, <1>2, <1>3, <1>4, <1>5, <1>6 DEF IInv

LEMMA AcceptKeeps == ASSUME IInv, [Next]_vars, Accept PROVE IInv'
<1>0. /\ alive /\ pc = "accept" /\ queue # <<>>
      /\ serving' = Head(queue) /\ queue' = Tail(queue) /\ pc' = "request" /\ broken' = FALSE
      /\ UNCHANGED <<request, nsent, nread, hung, closed, got, alive, dest, reply, nreply,
                     cut, origins>>
  BY DEF Accept, build, upstream
<1>7. /\ queue \in Seq(Clients) /\ 1 \in 1..Len(queue) /\ Head(queue) = queue[1]
      /\ Head(queue) \in Clients /\ Tail(queue) \in Seq(Clients)
      /\ Len(Tail(queue)) = Len(queue) - 1
      /\ \A i \in 1..Len(Tail(queue)) : i + 1 \in 1..Len(queue) /\ Tail(queue)[i] = queue[i + 1]
  BY <1>0 DEF IInv, QueueInv
<1>8. got[serving'] = <<>> /\ nread[serving'] = 0 /\ ~closed[serving']
  BY <1>0, <1>7 DEF IInv, QueueInv
<1>1. TypeInv'
  BY <1>0 DEF IInv, TypeInv, Stages, Lines
<1>2. QueueInv'
  <2>1. \A i, j \in 1..Len(queue') : i # j => queue'[i] # queue'[j]
    <3> SUFFICES ASSUME NEW i \in 1..Len(queue'), NEW j \in 1..Len(queue'), i # j
                 PROVE  queue'[i] # queue'[j]
      OBVIOUS
    <3>1. i + 1 \in 1..Len(queue) /\ j + 1 \in 1..Len(queue) /\ i + 1 # j + 1
      BY <1>0, <1>7
    <3> QED BY <1>0, <1>7, <3>1 DEF IInv, QueueInv
  <2>2. ASSUME NEW i \in 1..Len(queue')
        PROVE  /\ queue'[i] # serving' /\ got[queue'[i]] = <<>> /\ nread[queue'[i]] = 0
               /\ ~closed[queue'[i]]
    <3>1. i + 1 \in 1..Len(queue) /\ i + 1 # 1 /\ queue'[i] = queue[i + 1]
      BY <1>0, <1>7
    <3> QED BY <1>0, <1>7, <3>1 DEF IInv, QueueInv
  <2> QED BY <1>0, <1>7, <1>8, <2>1, <2>2 DEF QueueInv
<1>3. ReadInv'
  BY <1>0, <1>8 DEF ReadInv
<1>4. ReplyInv'
  BY <1>0, <1>8 DEF ReplyInv
<1>5. GotInv'
  BY <1>0, GotKeeps
<1>6. DeathInv'
  BY <1>0 DEF IInv, DeathInv
<1> QED BY <1>1, <1>2, <1>3, <1>4, <1>5, <1>6 DEF IInv

LEMMA ReadRequestKeeps == ASSUME ParsesBack, IInv, [Next]_vars, ReadRequest PROVE IInv'
<1>0. /\ pc = "request" /\ nread[serving] < nsent[serving]
      /\ nread' = [nread EXCEPT ![serving] = @ + 1]
      /\ \/ /\ pc' = "connect"
            /\ Asks(request[serving]) => /\ request[serving].method = "GET"
                                         /\ dest' = Destination[request[serving]]
         \/ /\ pc' = "501" /\ dest' = dest
            /\ Asks(request[serving]) => request[serving].method # "GET"
      /\ UNCHANGED <<request, nsent, hung, closed, queue, got, alive, serving, broken,
                     reply, nreply, cut, origins>>
  <2>1. /\ pc = "request" /\ nread[serving] < nsent[serving]
        /\ nread' = [nread EXCEPT ![serving] = @ + 1]
        /\ UNCHANGED <<request, nsent, hung, closed, queue, got, alive, serving, broken,
                       reply, nreply, cut, origins>>
    BY DEF ReadRequest, ReadsLine, upstream
  <2>2. PICK method \in {"GET", "POST"} :
          /\ request[serving].words > 0 => method = request[serving].method
          /\ IF method = "GET"
             THEN /\ pc' = "connect"
                  /\ dest' \in IF Asks(request[serving]) THEN {Destination[request[serving]]}
                               ELSE Leftovers
             ELSE pc' = "501" /\ UNCHANGED dest
    BY DEF ReadRequest
  <2>3. Asks(request[serving]) => method = request[serving].method
    BY <2>2 DEF Asks
  <2> QED BY <2>1, <2>2, <2>3
<1>7. serving \in Clients /\ request[serving] \in Requests
  BY <1>0 DEF IInv, TypeInv, QueueInv
<1>8. dest' = Asked(serving) \/ pc' = "501" \/ ~Asks(request[serving])
  BY <1>0, <1>7 DEF ParsesBack, Asked
<1>1. TypeInv'
  BY <1>0, <1>7 DEF IInv, TypeInv, Stages, Lines
<1>2. QueueInv'
  <2>1. \A i \in 1..Len(queue) : queue[i] # serving
    BY DEF IInv, QueueInv
  <2>2. serving \in Clients /\ \A i \in 1..Len(queue) : queue[i] \in Clients
    BY <1>0 DEF IInv, QueueInv
  <2> QED BY <1>0, <2>1, <2>2 DEF IInv, TypeInv, QueueInv
<1>3. ReadInv'
  BY <1>0, <1>7, <1>8 DEF IInv, TypeInv, QueueInv, ReadInv, Gets, Fits, Lines, Asked
<1>4. ReplyInv'
  BY <1>0 DEF IInv, TypeInv, QueueInv, ReadInv, ReplyInv, Gets, Lines, Asked, Down, Lost,
        Status
<1>5. GotInv'
  BY <1>0, GotKeeps
<1>6. DeathInv'
  BY <1>0 DEF IInv, TypeInv, QueueInv, ReadInv, ReplyInv, DeathInv, Gets, Lines,
        Asked, Down, Lost, Status
<1> QED BY <1>1, <1>2, <1>3, <1>4, <1>5, <1>6 DEF IInv

LEMMA ReadNothingKeeps == ASSUME IInv, [Next]_vars, ReadNothing PROVE IInv'
<1>0. /\ pc = "request" /\ hung[serving] /\ pc' = "close"
      /\ UNCHANGED <<request, nsent, nread, hung, closed, queue, got, alive, serving,
                     broken, dest, reply, nreply, cut, origins>>
  BY DEF ReadNothing, AtEnd, clients, build, upstream
<1>1. TypeInv'
  BY <1>0 DEF IInv, TypeInv, Stages, Lines
<1>2. QueueInv'
  BY <1>0 DEF IInv, QueueInv
<1>3. ReadInv'
  BY <1>0 DEF IInv, TypeInv, QueueInv, ReadInv, Gets, Lines, Asked
<1>4. ReplyInv'
  BY <1>0 DEF IInv, TypeInv, QueueInv, ReadInv, ReplyInv, Gets, Lines, Asked, Down, Lost,
        Status
<1>5. GotInv'
  BY <1>0, GotKeeps
<1>6. DeathInv'
  BY <1>0 DEF IInv, TypeInv, QueueInv, ReadInv, ReplyInv, DeathInv, Gets, Lines,
        Asked, Down, Lost, Status
<1> QED BY <1>1, <1>2, <1>3, <1>4, <1>5, <1>6 DEF IInv

LEMMA ClientErrorKeeps == ASSUME IInv, [Next]_vars, ClientError PROVE IInv'
<1>0. /\ pc = "501"
      /\ \/ hung[serving] /\ pc' = "dead" /\ alive' = FALSE /\ got' = got /\ broken' = broken
         \/ /\ \E x : got' = [got EXCEPT ![serving] = x]
            /\ pc' \in {"501", "close"} /\ alive' = alive
            /\ hung[serving] \/ broken' = broken
      /\ UNCHANGED <<request, nsent, nread, hung, closed, queue, serving, dest, reply,
                     nreply, cut, origins>>
  BY DEF ClientError, Write, Dies, clients, build, upstream
<1>7. serving \in Clients
  BY <1>0 DEF IInv, QueueInv
<1>8. ~Gets(serving)
  BY <1>0 DEF IInv, ReadInv
<1>1. TypeInv'
  BY <1>0 DEF IInv, TypeInv, Stages, Lines
<1>2. QueueInv'
  <2>1. \A i \in 1..Len(queue) : queue[i] # serving
    BY DEF IInv, QueueInv
  <2>2. serving \in Clients /\ \A i \in 1..Len(queue) : queue[i] \in Clients
    BY <1>0 DEF IInv, QueueInv
  <2> QED BY <1>0, <2>1, <2>2 DEF IInv, TypeInv, QueueInv
<1>3. ReadInv'
  BY <1>0, <1>8 DEF IInv, ReadInv, Gets
<1>4. ReplyInv'
  BY <1>0, <1>7, <1>8 DEF IInv, ReplyInv, Gets
<1>5. GotInv'
  <2> SUFFICES ASSUME NEW c \in Clients, Gets(c)'
               PROVE  /\ \E m \in 0..Chunks : got'[c] = Sent(Asked(c)', 0, m)
                      /\ closed'[c] => hung'[c] \/ Down(c)' \/ got'[c] = Sent(Asked(c)', 0, Chunks)
    BY DEF GotInv
  <2>1. Gets(c) /\ Asked(c)' = Asked(c) /\ Down(c)' = Down(c)
    BY <1>0 DEF Gets, Asked, Down, Lost, Status
  <2>2. c # serving /\ got'[c] = got[c]
    BY <1>0, <1>7, <1>8, <2>1 DEF IInv, TypeInv
  <2> QED BY <1>0, <2>1, <2>2 DEF IInv, GotInv
<1>6. DeathInv'
  <2>1. alive <=> pc # "dead"
    BY DEF IInv, DeathInv
  <2>2. broken => hung[serving]
    BY <1>0 DEF IInv, DeathInv
  <2>3. alive' <=> pc' # "dead"
    BY <1>0, <2>1
  <2>4. broken' => hung'[serving']
    BY <1>0, <2>2
  <2>5. pc' = "dead" => hung'[serving']
    BY <1>0
  <2> QED BY <2>3, <2>4, <2>5 DEF DeathInv
<1> QED BY <1>1, <1>2, <1>3, <1>4, <1>5, <1>6 DEF IInv

LEMMA ConnectKeeps == ASSUME IInv, [Next]_vars, Connect PROVE IInv'
<1>0. /\ pc = "connect"
      /\ \/ Status(dest) = "down" /\ pc' = "dead" /\ alive' = FALSE
         \/ Status(dest) # "down" /\ pc' = "headers" /\ alive' = alive
      /\ reply' = <<>> /\ nreply' = 0 /\ cut' = "no"
      /\ UNCHANGED <<request, nsent, nread, hung, closed, queue, got, serving, broken,
                     dest, origins>>
  BY DEF Connect, Dies, clients
<1>1. TypeInv'
  BY <1>0 DEF IInv, TypeInv, Stages, Lines
<1>2. QueueInv'
  BY <1>0 DEF IInv, QueueInv
<1>3. ReadInv'
  BY <1>0 DEF IInv, TypeInv, QueueInv, ReadInv, Gets, Lines, Asked
<1>4. ReplyInv'
  BY <1>0 DEF IInv, TypeInv, QueueInv, ReadInv, ReplyInv, Gets, Lines, Asked, Down, Lost,
        Status
<1>5. GotInv'
  BY <1>0, GotKeeps
<1>6. DeathInv'
  BY <1>0 DEF IInv, TypeInv, QueueInv, ReadInv, ReplyInv, DeathInv, Gets, Lines,
        Asked, Down, Lost, Status
<1> QED BY <1>1, <1>2, <1>3, <1>4, <1>5, <1>6 DEF IInv

LEMMA ReadHeaderKeeps == ASSUME IInv, [Next]_vars, ReadHeader PROVE IInv'
<1>0. /\ pc = "headers" /\ nread[serving] < nsent[serving]
      /\ nread' = [nread EXCEPT ![serving] = @ + 1]
      /\ \/ request[serving].headers[nread[serving]] = "blank" /\ pc' = "forward"
         \/ pc' = "headers"
      /\ UNCHANGED <<request, nsent, hung, closed, queue, got, alive, serving, broken,
                     dest, reply, nreply, cut, origins>>
  BY DEF ReadHeader, ReadsLine, EndOfHeader, upstream
<1>7. serving \in Clients
  BY <1>0 DEF IInv, QueueInv
<1>8. pc' = "forward" => nread'[serving] > Lines(serving)
  <2>1. /\ request[serving] \in Requests /\ Lines(serving) \in Nat
        /\ nread[serving] \in 1..Lines(serving) /\ nread'[serving] = nread[serving] + 1
    <3>1. request[serving] \in Requests /\ nread[serving] \in Nat /\ nsent[serving] \in Nat
          /\ nsent[serving] <= Lines(serving) + 1 /\ nread[serving] > 0
      BY <1>0, <1>7 DEF IInv, TypeInv, ReadInv
    <3>2. request[serving].headers \in Seq(STRING)
      BY <3>1, ProxyAssumption
    <3>3. Lines(serving) \in Nat
      BY <3>2 DEF Lines
    <3>4. nread'[serving] = nread[serving] + 1
      BY <1>0, <1>7 DEF IInv, TypeInv
    <3> QED BY <1>0, <3>1, <3>3, <3>4
  <2>2. request[serving].headers[nread[serving]] = "blank" => nread[serving] = Lines(serving)
    <3>1. request[serving].headers \in Seq(STRING)
      BY <2>1, ProxyAssumption
    <3>2. nread[serving] \in DOMAIN request[serving].headers
      BY <2>1, <3>1 DEF Lines
    <3> QED BY <2>1, <3>2, ProxyAssumption DEF Lines
  <2> QED BY <1>0, <2>1, <2>2
<1>1. TypeInv'
  BY <1>0, <1>7 DEF IInv, TypeInv, Stages, Lines
<1>2. QueueInv'
  <2>1. \A i \in 1..Len(queue) : queue[i] # serving
    BY DEF IInv, QueueInv
  <2>2. serving \in Clients /\ \A i \in 1..Len(queue) : queue[i] \in Clients
    BY <1>0 DEF IInv, QueueInv
  <2> QED BY <1>0, <2>1, <2>2 DEF IInv, TypeInv, QueueInv
<1>3. ReadInv'
  BY <1>0, <1>7, <1>8 DEF IInv, TypeInv, ReadInv, Gets, Lines, Asked
<1>4. ReplyInv'
  BY <1>0 DEF IInv, TypeInv, QueueInv, ReadInv, ReplyInv, Gets, Lines, Asked, Down, Lost,
        Status
<1>5. GotInv'
  BY <1>0, GotKeeps
<1>6. DeathInv'
  BY <1>0 DEF IInv, TypeInv, QueueInv, ReadInv, ReplyInv, DeathInv, Gets, Lines,
        Asked, Down, Lost, Status
<1> QED BY <1>1, <1>2, <1>3, <1>4, <1>5, <1>6 DEF IInv

LEMMA HeadersAtEndKeeps == ASSUME IInv, [Next]_vars, HeadersAtEnd PROVE IInv'
<1>0. /\ pc = "headers" /\ hung[serving] /\ pc' = "forward"
      /\ UNCHANGED <<request, nsent, nread, hung, closed, queue, got, alive, serving,
                     broken, dest, reply, nreply, cut, origins>>
  BY DEF HeadersAtEnd, AtEnd, clients, build, upstream
<1>1. TypeInv'
  BY <1>0 DEF IInv, TypeInv, Stages, Lines
<1>2. QueueInv'
  BY <1>0 DEF IInv, QueueInv
<1>3. ReadInv'
  BY <1>0 DEF IInv, TypeInv, QueueInv, ReadInv, Gets, Lines, Asked
<1>4. ReplyInv'
  BY <1>0 DEF IInv, TypeInv, QueueInv, ReadInv, ReplyInv, Gets, Lines, Asked, Down, Lost,
        Status
<1>5. GotInv'
  BY <1>0, GotKeeps
<1>6. DeathInv'
  BY <1>0 DEF IInv, TypeInv, QueueInv, ReadInv, ReplyInv, DeathInv, Gets, Lines,
        Asked, Down, Lost, Status
<1> QED BY <1>1, <1>2, <1>3, <1>4, <1>5, <1>6 DEF IInv

LEMMA ForwardKeeps ==
    ASSUME IInv, [Next]_vars, Forward,
           OthersTooLong \/ HeaderTooLong => ~Fits(request[serving])
    PROVE  IInv'
<1>0. /\ pc = "forward"
      /\ \/ cut = "rst" /\ pc' = "dead" /\ alive' = FALSE
         \/ pc' = "relay" /\ alive' = alive
      /\ \/ dest' = dest
         \/ /\ ~Fits(request[serving])
            /\ \E x : dest' = [host |-> dest.host, port |-> dest.port, path |-> x]
      /\ UNCHANGED <<request, nsent, nread, hung, closed, queue, got, serving, broken,
                     reply, nreply, cut, origins>>
  BY DEF Forward, Dies, clients, upstream
<1>7. got[serving] = <<>> /\ reply = <<>> /\ nreply = 0
  BY <1>0 DEF IInv, ReplyInv
<1>8. /\ got[serving] = Sent(dest', 0, 0) /\ reply = Sent(dest', 0, nreply)
      /\ 0 \in 0..nreply /\ nreply <= Chunks
  BY <1>7, SentNone, ProxyAssumption
<1>1. TypeInv'
  BY <1>0 DEF IInv, TypeInv, Stages, Lines
<1>2. QueueInv'
  BY <1>0 DEF IInv, QueueInv
<1>3. ReadInv'
  BY <1>0 DEF IInv, TypeInv, QueueInv, ReadInv, Gets, Lines, Asked
<1>4. ReplyInv'
  <2>1. Lost' = Lost
    BY <1>0 DEF Lost, Status
  <2> QED BY <1>0, <1>8, <2>1 DEF IInv, ReplyInv
<1>5. GotInv'
  BY <1>0, GotKeeps
<1>6. DeathInv'
  <2>1. cut = "rst" => Down(serving) \/ ~Fits(request[serving])
    BY <1>0 DEF IInv, ReadInv, ReplyInv, Lost, Down
  <2>2. Down(serving)' = Down(serving)
    BY <1>0 DEF Down, Asked, Status
  <2>3. (pc' = "dead") => Down(serving)' \/ ~Fits(request[serving])'
    BY <1>0, <2>1, <2>2
  <2>4. alive' <=> pc' # "dead"
    <3>1. alive <=> pc # "dead"
      BY DEF IInv, DeathInv
    <3> QED BY <1>0, <3>1
  <2>5. broken' => hung'[serving']
    BY <1>0 DEF IInv, DeathInv
  <2> QED BY <2>3, <2>4, <2>5 DEF DeathInv
<1> QED BY <1>1, <1>2, <1>3, <1>4, <1>5, <1>6 DEF IInv

LEMMA RelayKeeps == ASSUME IInv, [Next]_vars, Relay PROVE IInv'
<1>0. /\ pc = "relay" /\ reply # <<>> /\ reply' = Tail(reply)
      /\ \/ hung[serving] /\ pc' = "dead" /\ alive' = FALSE /\ got' = got /\ broken' = broken
         \/ /\ got' = [got EXCEPT ![serving] = Append(@, Head(reply))]
            /\ pc' = "relay" /\ alive' = alive
            /\ hung[serving] \/ broken' = broken
      /\ UNCHANGED <<request, nsent, nread, hung, closed, queue, serving, dest, nreply,
                     cut, origins>>
  BY DEF Relay, Write, Dies, clients, build
<1>1. TypeInv'
  BY <1>0 DEF IInv, TypeInv, Stages, Lines
<1>2. /\ serving \in Clients /\ ~closed[serving]
      /\ Gets(serving) => dest = Asked(serving)
  BY <1>0 DEF IInv, QueueInv, ReadInv, Gets
<1>3. QueueInv'
  <2>1. \A i \in 1..Len(queue) : queue[i] # serving /\ queue[i] \in Clients
    BY DEF IInv, QueueInv
  <2> QED BY <1>0, <1>2, <2>1 DEF IInv, TypeInv, QueueInv
<1>4. ReadInv'
  BY <1>0 DEF IInv, ReadInv, Gets, Lines, Asked
<1>5. PICK m \in 0..nreply : /\ nreply <= Chunks /\ got[serving] = Sent(dest, 0, m)
                             /\ reply = Sent(dest, m, nreply)
  BY <1>0 DEF IInv, ReplyInv
<1>6. m \in Nat /\ nreply \in Nat /\ m <= nreply /\ Chunks \in Nat
  BY ProxyAssumption DEF IInv, TypeInv
<1>7. m < nreply
  <2>1. m = nreply => reply = <<>>
    BY <1>5, <1>6, SentNone
  <2> QED BY <1>0, <1>6, <2>1
<1>8. Head(reply) = Chunk(dest, m + 1) /\ Tail(reply) = Sent(dest, m + 1, nreply)
  BY <1>5, <1>6, <1>7, SentFirst
<1>9. Append(got[serving], Head(reply)) = Sent(dest, 0, m + 1)
  BY <1>5, <1>6, <1>8, SentMore
<1>10. m + 1 \in 0..nreply /\ m + 1 \in 0..Chunks
  BY <1>5, <1>6, <1>7
<1>11. pc' = "relay" => got'[serving] = Sent(dest, 0, m + 1)
  BY <1>0, <1>2, <1>9 DEF IInv, TypeInv
<1>12. ReplyInv'
  <2>1. Lost' = Lost
    BY <1>0 DEF Lost, Status
  <2> QED BY <1>0, <1>5, <1>8, <1>10, <1>11, <2>1 DEF IInv, ReplyInv
<1>13. GotInv'
  <2>1. ASSUME NEW c \in Clients, Gets(c)'
        PROVE  /\ \E k \in 0..Chunks : got'[c] = Sent(Asked(c)', 0, k)
               /\ closed'[c] => hung'[c] \/ Down(c)' \/ got'[c] = Sent(Asked(c)', 0, Chunks)
    <3>1. Gets(c) /\ Asked(c)' = Asked(c) /\ Down(c)' = Down(c)
      BY <1>0, <2>1 DEF Gets, Asked, Down, Lost, Status
    <3>2. CASE got'[c] = got[c]
      BY <1>0, <3>1, <3>2 DEF IInv, GotInv
    <3>3. CASE got'[c] # got[c]
      <4>1. c = serving /\ pc' = "relay"
        BY <1>0, <1>2, <3>3 DEF IInv, TypeInv
      <4> QED BY <1>0, <1>2, <1>10, <1>11, <3>1, <4>1
    <3> QED BY <3>2, <3>3
  <2> QED BY <2>1 DEF GotInv
<1>14. DeathInv'
  <2>1. alive <=> pc # "dead"
    BY DEF IInv, DeathInv
  <2>2. broken => hung[serving]
    BY <1>0 DEF IInv, DeathInv
  <2>3. alive' <=> pc' # "dead"
    BY <1>0, <2>1
  <2>4. broken' => hung'[serving']
    BY <1>0, <2>2
  <2>5. pc' = "dead" => hung'[serving']
    BY <1>0
  <2> QED BY <2>3, <2>4, <2>5 DEF DeathInv
<1> QED BY <1>1, <1>3, <1>4, <1>12, <1>13, <1>14 DEF IInv

LEMMA RelayEndsKeeps == ASSUME IInv, [Next]_vars, RelayEnds PROVE IInv'
<1>0. /\ pc = "relay" /\ reply = <<>> /\ cut = "fin" /\ pc' = "close"
      /\ UNCHANGED <<request, nsent, nread, hung, closed, queue, got, alive, serving,
                     broken, dest, reply, nreply, cut, origins>>
  BY DEF RelayEnds, clients, build, upstream
<1>1. TypeInv'
  BY <1>0 DEF IInv, TypeInv, Stages, Lines
<1>2. QueueInv'
  BY <1>0 DEF IInv, QueueInv
<1>3. ReadInv'
  BY <1>0 DEF IInv, TypeInv, QueueInv, ReadInv, Gets, Lines, Asked
<1>4. ReplyInv'
  <2>1. PICK m \in 0..nreply : /\ nreply <= Chunks /\ got[serving] = Sent(dest, 0, m)
                               /\ reply = Sent(dest, m, nreply)
    BY <1>0 DEF IInv, ReplyInv
  <2>2. m \in Nat /\ nreply \in Nat /\ m <= nreply
    BY DEF IInv, TypeInv
  <2>3. m = nreply
    <3>1. Len(Sent(dest, m, nreply)) = nreply - m
      BY <2>2, SentType
    <3>2. Len(reply) = 0
      BY <1>0
    <3> QED BY <2>1, <2>2, <3>1, <3>2
  <2>4. Lost \/ nreply = Chunks
    BY <1>0 DEF IInv, ReplyInv
  <2>5. /\ hung[serving] \/ nread[serving] > Lines(serving)
        /\ Gets(serving) => dest = Asked(serving)
    BY <1>0 DEF IInv, ReadInv, Gets
  <2>7. Gets(serving) /\ Lost => Down(serving)
    BY <2>5 DEF Lost, Down
  <2>6. /\ Down(serving)' = Down(serving) /\ Gets(serving)' = Gets(serving)
        /\ Lines(serving)' = Lines(serving) /\ Asked(serving)' = Asked(serving)
    BY <1>0 DEF Down, Gets, Lines, Status, Asked
  <2> QED BY <1>0, <2>1, <2>3, <2>4, <2>5, <2>6, <2>7 DEF ReplyInv
<1>5. GotInv'
  BY <1>0, GotKeeps
<1>6. DeathInv'
  BY <1>0 DEF IInv, TypeInv, QueueInv, ReadInv, ReplyInv, DeathInv, Gets, Lines,
        Asked, Down, Lost, Status
<1> QED BY <1>1, <1>2, <1>3, <1>4, <1>5, <1>6 DEF IInv

LEMMA RelayFailsKeeps == ASSUME IInv, [Next]_vars, RelayFails PROVE IInv'
<1>0. /\ pc = "relay" /\ cut = "rst" /\ pc' = "dead" /\ alive' = FALSE
      /\ UNCHANGED <<request, nsent, nread, hung, closed, queue, got, serving, broken,
                     dest, reply, nreply, cut, origins>>
  BY DEF RelayFails, Dies, clients, build, upstream
<1>1. TypeInv'
  BY <1>0 DEF IInv, TypeInv, Stages, Lines
<1>2. QueueInv'
  BY <1>0 DEF IInv, QueueInv
<1>3. ReadInv'
  BY <1>0 DEF IInv, TypeInv, QueueInv, ReadInv, Gets, Lines, Asked
<1>4. ReplyInv'
  BY <1>0 DEF IInv, TypeInv, QueueInv, ReadInv, ReplyInv, Gets, Lines, Asked, Down, Lost,
        Status
<1>5. GotInv'
  BY <1>0, GotKeeps
<1>6. DeathInv'
  BY <1>0 DEF IInv, TypeInv, QueueInv, ReadInv, ReplyInv, DeathInv, Gets, Lines,
        Asked, Down, Lost, Status
<1> QED BY <1>1, <1>2, <1>3, <1>4, <1>5, <1>6 DEF IInv

LEMMA CloseKeeps == ASSUME IInv, [Next]_vars, Close PROVE IInv'
<1>0. /\ pc = "close" /\ closed' = [closed EXCEPT ![serving] = TRUE]
      /\ serving' = Nobody /\ pc' = "accept"
      /\ UNCHANGED <<request, nsent, nread, hung, queue, alive, broken, dest, reply,
                     nreply, cut, origins>>
  BY DEF Close, build, upstream
<1>1. \/ got' = got
      \/ nread[serving] <= Lines(serving) /\ got' = [got EXCEPT ![serving] = <<>>]
  BY DEF Close, Lines
<1>2. serving \in Clients
  BY <1>0 DEF IInv, QueueInv
<1>3. TypeInv'
  BY <1>0, <1>1, <1>2 DEF IInv, TypeInv, Stages, Lines
<1>4. QueueInv'
  <2>1. \A i \in 1..Len(queue) : queue[i] # serving /\ queue[i] \in Clients
    BY DEF IInv, QueueInv
  <2>2. \A i \in 1..Len(queue) : queue[i] # Nobody
    BY <2>1, ProxyAssumption
  <2> QED BY <1>0, <1>1, <1>2, <2>1, <2>2 DEF IInv, TypeInv, QueueInv
<1>5. ReadInv' /\ ReplyInv'
  BY <1>0 DEF ReadInv, ReplyInv
<1>6. DeathInv'
  BY <1>0 DEF IInv, DeathInv
<1>7. GotInv'
  <2>1. ASSUME NEW c \in Clients, Gets(c)'
        PROVE  /\ \E m \in 0..Chunks : got'[c] = Sent(Asked(c)', 0, m)
               /\ closed'[c] => hung'[c] \/ Down(c)' \/ got'[c] = Sent(Asked(c)', 0, Chunks)
    <3>1. Gets(c) /\ Asked(c)' = Asked(c) /\ Down(c)' = Down(c)
      BY <1>0, <2>1 DEF Gets, Asked, Down, Lost, Status
    <3>2. CASE c # serving
      <4>1. got'[c] = got[c] /\ closed'[c] = closed[c]
        BY <1>0, <1>1, <1>2, <3>2 DEF IInv, TypeInv
      <4> QED BY <1>0, <3>1, <4>1 DEF IInv, GotInv
    <3>3. CASE c = serving
      <4>1. \/ hung[c] \/ Down(c)
            \/ nread[c] > Lines(c) /\ got[c] = Sent(Asked(c), 0, Chunks)
        BY <1>0, <3>1, <3>3 DEF IInv, ReplyInv
      <4>2. got' = got \/ got'[c] = Sent(Asked(c), 0, 0)
        BY <1>1, <1>2, <3>3, SentNone DEF IInv, TypeInv
      <4>3. \E m \in 0..Chunks : got'[c] = Sent(Asked(c), 0, m)
        <5>1. 0 \in 0..Chunks
          BY ProxyAssumption
        <5> QED BY <3>1, <4>2, <5>1 DEF IInv, GotInv
      <4>4. Lines(c) \in Nat /\ nread[c] \in Nat
        <5>1. request[c] \in Requests /\ nread[c] \in Nat
          BY DEF IInv, TypeInv
        <5>2. request[c].headers \in Seq(STRING)
          BY <5>1, ProxyAssumption
        <5> QED BY <5>1, <5>2 DEF Lines
      <4>5. hung[c] \/ Down(c) \/ got'[c] = Sent(Asked(c), 0, Chunks)
        BY <1>1, <3>3, <4>1, <4>4
      <4> QED BY <1>0, <3>1, <4>3, <4>5
    <3> QED BY <3>2, <3>3
  <2> QED BY <2>1 DEF GotInv
<1> QED BY <1>3, <1>4, <1>5, <1>6, <1>7 DEF IInv

LEMMA StutterKeeps == ASSUME IInv, UNCHANGED vars PROVE IInv'
<1>0. UNCHANGED <<request, nsent, nread, hung, closed, queue, got, alive, serving, pc, broken,
                  dest, reply, nreply, cut, origins>>
  BY DEF vars
<1>1. TypeInv' /\ QueueInv' /\ ReadInv'
  BY <1>0 DEF IInv, TypeInv, QueueInv, ReadInv, Lines, Gets, Asked
<1>2. ReplyInv' /\ DeathInv'
  BY <1>0 DEF IInv, ReplyInv, DeathInv, Lines, Gets, Asked, Down, Lost, Status
<1>3. GotInv'
  BY <1>0, GotKeeps
<1> QED BY <1>1, <1>2, <1>3 DEF IInv

-----------------------------------------------------------------------------
(* The header sent to the origin.  What the first n lines of a client have *)
(* left in build_http_header's buffers:                                    *)
Text == STRING

Step(f, lines, n) == CASE n = 0 -> <<>>
                       [] n > 0 /\ lines[n] \in Replaced -> f[n - 1]
                       [] OTHER -> Append(f[n - 1], lines[n])
IsOthers(f, lines) == f = [n \in 0..Len(lines) |-> Step(f, lines, n)]

(* The function that collects the other lines exists: if it existed up to  *)
(* no n, there were a least such n.                                        *)
LEMMA OthersExist == ASSUME NEW lines \in Seq(Text) PROVE \E f : IsOthers(f, lines)
<1> DEFINE Good(f, m) == f = [n \in 0..m |-> Step(f, lines, n)]
           Bad == {m \in Nat : ~(\E f : Good(f, m))}
           R == OpToRel(<, Nat)
<1>1. Len(lines) \in Nat
  OBVIOUS
<1>2. 0 \notin Bad
  <2>1. Good([n \in {0} |-> <<>>], 0)
    BY DEF Step
  <2> QED BY <2>1
<1>3. ASSUME NEW m \in Bad PROVE m - 1 \in Bad
  <2>3. m \in Nat /\ m # 0
    <3>1. Bad \subseteq Nat
      OBVIOUS
    <3> HIDE DEF Bad
    <3> QED BY <1>2, <3>1
  <2>1. m \in Nat /\ m > 0 /\ m - 1 \in Nat
    BY <2>3
  <2>2. ASSUME NEW f, Good(f, m - 1) PROVE FALSE
    <3> DEFINE g == [n \in 0..m |-> IF n = m THEN Step(f, lines, m) ELSE f[n]]
    <3>1. \A n \in 0..(m - 1) : f[n] = Step(f, lines, n)
      BY <2>2, Zenon
    <3>2. \A n \in 0..(m - 1) : g[n] = f[n]
      BY <2>1
    <3>3. g[m] = Step(f, lines, m)
      BY <2>1
    <3> HIDE DEF g
    <3>4. ASSUME NEW n \in 0..m PROVE g[n] = Step(g, lines, n)
      <4>1. Step(g, lines, n) = Step(f, lines, n)
        <5>1. n > 0 => n - 1 \in 0..(m - 1)
          BY <2>1
        <5> QED BY <3>2, <5>1 DEF Step
      <4>2. CASE n = m
        BY <3>3, <4>1, <4>2
      <4>3. CASE n # m
        <5>1. n \in 0..(m - 1)
          BY <2>1, <4>3
        <5> QED BY <3>1, <3>2, <4>1, <5>1
      <4> QED BY <4>2, <4>3
    <3>5. Good(g, m)
      <4>1. g = [n \in 0..m |-> g[n]]
        BY DEF g
      <4> QED BY <3>4, <4>1
    <3> HIDE DEF Good
    <3> QED BY <3>5
  <2> HIDE DEF Good
  <2> QED BY <2>1, <2>2
<1>4. Bad = {}
  <2> SUFFICES ASSUME Bad # {} PROVE FALSE
    OBVIOUS
  <2>1. IsWellFoundedOn(R, Nat)
    BY NatLessThanWellFounded
  <2>2. Bad \subseteq Nat
    OBVIOUS
  <2>3. \A x, y \in Nat : x < y => <<x, y>> \in R
    BY DEF OpToRel
  <2> HIDE DEF R, Bad
  <2>4. PICK m \in Bad : \A k \in Bad : ~(<<k, m>> \in R)
    BY <2>1, <2>2, WFMin
  <2>5. m - 1 \in Bad /\ m \in Nat /\ m - 1 \in Nat
    BY <1>3, <2>2
  <2>6. <<m - 1, m>> \in R
    BY <2>3, <2>5
  <2> QED BY <2>4, <2>5, <2>6
<1>5. \E f : Good(f, Len(lines))
  <2>1. Len(lines) \notin Bad
    BY <1>4
  <2> HIDE DEF Good
  <2> QED BY <1>1, <2>1
<1> QED BY <1>5 DEF IsOthers

LEMMA OthersStep ==
    ASSUME NEW lines \in Seq(Text), NEW n \in 0..Len(lines)
    PROVE  OthersAmong(lines)[n] = Step(OthersAmong(lines), lines, n)
<1>1. OthersAmong(lines) = CHOOSE f : IsOthers(f, lines)
  BY Zenon DEF OthersAmong, IsOthers, Step
<1>2. IsOthers(OthersAmong(lines), lines)
  BY <1>1, OthersExist
<1> QED BY <1>2, Zenon DEF IsOthers

(* What build_http_header has collected after n lines of the client.       *)
HeardHost(c, n) == \E k \in 1..n : request[c].headers[k] = "Host"
Collected(c, n) ==
    /\ other_hdr = OthersAmong(request[c].headers)[n]
    /\ host_hdr = IF HeardHost(c, n) THEN "client" ELSE "none"
Built(c) ==
    header = <<"request", IF HeardHost(c, Lines(c)) THEN "Host" ELSE "Host: dest">>
             \o <<"Connection: close", "Proxy-Connection: close", "User-Agent: Mozilla">>
             \o Others(c) \o <<"blank">>

HeaderInv ==
    /\ pc = "connect" => nread[serving] = 1
    /\ pc = "headers" => /\ nread[serving] \in 1..Lines(serving)
                         /\ Collected(serving, nread[serving] - 1)
    /\ pc = "forward" => \E n \in 0..Lines(serving) :
          Collected(serving, n) /\ (hung[serving] \/ n = Lines(serving))
    /\ pc = "relay" => hung[serving] \/ Built(serving) \/ ~Fits(request[serving])
    /\ other_hdr \in Seq(Text)

LEMMA HeaderLines ==
    ASSUME TypeInv, NEW c \in Clients
    PROVE  /\ request[c].headers \in Seq(Text) /\ Lines(c) \in Nat /\ Lines(c) > 0
           /\ \A k \in 1..Lines(c) : request[c].headers[k] = "blank" <=> k = Lines(c)
<1>1. request[c] \in Requests
  BY DEF TypeInv
<1>2. /\ request[c].headers \in Seq(Text) /\ Len(request[c].headers) > 0
      /\ \A k \in DOMAIN request[c].headers :
            request[c].headers[k] = "blank" <=> k = Len(request[c].headers)
  BY <1>1, ProxyAssumption DEF Text
<1> QED BY <1>2 DEF Lines

(* One more line.                                                          *)
LEMMA LineCollected == ASSUME IInv, HeaderInv, ReadHeader PROVE HeaderInv'
<1> DEFINE c == serving
           h == request[c].headers
           n == nread[c]
           line == h[n]
<1>1. /\ pc = "headers" /\ UNCHANGED <<request, serving, hung>>
      /\ nread' = [nread EXCEPT ![c] = @ + 1]
      /\ pc' = IF line = "blank" THEN "forward" ELSE "headers"
      /\ host_hdr' = IF line = "Host" THEN "client" ELSE host_hdr
      /\ other_hdr' = IF line \in Dropped \union {"Host", "blank"} THEN other_hdr
                      ELSE Append(other_hdr, line)
  BY DEF ReadHeader, ReadsLine, EndOfHeader
<1>2. c \in Clients /\ TypeInv
  BY <1>1 DEF IInv, QueueInv
<1>3. /\ h \in Seq(Text) /\ Lines(c) \in Nat /\ Len(h) = Lines(c)
      /\ \A k \in 1..Lines(c) : h[k] = "blank" <=> k = Lines(c)
  BY <1>2, HeaderLines DEF Lines
<1>4. n \in 1..Lines(c) /\ Collected(c, n - 1) /\ other_hdr \in Seq(Text)
  BY <1>1 DEF HeaderInv
<1>5. n \in 0..Len(h) /\ n > 0 /\ line \in Text
  BY <1>3, <1>4
<1>6. OthersAmong(h)[n] = IF line \in Replaced THEN OthersAmong(h)[n - 1]
                                               ELSE Append(OthersAmong(h)[n - 1], line)
  <2>1. OthersAmong(h)[n] = Step(OthersAmong(h), h, n)
    BY <1>3, <1>5, OthersStep
  <2> QED BY <1>5, <2>1 DEF Step
<1>7. HeardHost(c, n) <=> HeardHost(c, n - 1) \/ line = "Host"
  <2>1. n \in 1..n /\ \A k \in 1..n : k = n \/ k \in 1..(n - 1)
    BY <1>5
  <2>2. \A k \in 1..(n - 1) : k \in 1..n
    BY <1>5
  <2> HIDE DEF n
  <2> QED BY <2>1, <2>2 DEF HeardHost, n
<1>8. other_hdr' = OthersAmong(h)[n] /\ other_hdr' \in Seq(Text)
  <2>1. Replaced = Dropped \union {"Host", "blank"}
    BY DEF Replaced, Dropped
  <2>2. other_hdr = OthersAmong(h)[n - 1]
    BY <1>4 DEF Collected
  <2>3. other_hdr' = IF line \in Replaced THEN other_hdr ELSE Append(other_hdr, line)
    BY <1>1, <2>1
  <2>4. other_hdr \in Seq(Text) /\ line \in Text
    BY <1>4, <1>5
  <2> HIDE DEF h, n, line
  <2>5. CASE line \in Replaced
    BY <1>6, <2>2, <2>3, <2>4, <2>5
  <2>6. CASE line \notin Replaced
    <3>1. Append(other_hdr, line) \in Seq(Text)
      BY <2>4
    <3> QED BY <1>6, <2>2, <2>3, <2>6, <3>1
  <2> QED BY <2>5, <2>6
<1>9. host_hdr' = IF HeardHost(c, n) THEN "client" ELSE "none"
  BY <1>1, <1>4, <1>7 DEF Collected
<1>10. nread'[c] = n + 1 /\ nread'[c] - 1 = n
  BY <1>1, <1>2, <1>4 DEF TypeInv
<1>11. \A k : Collected(c, k)' <=> /\ other_hdr' = OthersAmong(h)[k]
                                   /\ host_hdr' = IF HeardHost(c, k) THEN "client" ELSE "none"
  BY <1>1 DEF Collected, HeardHost
<1>12. Lines(serving)' = Lines(c) /\ serving' = c /\ nread[serving]' = nread'[c]
  BY <1>1 DEF Lines
<1>13. CASE line = "blank"
  <2>1. n = Lines(c) /\ pc' = "forward"
    BY <1>1, <1>3, <1>4, <1>13
  <2>2. other_hdr' = OthersAmong(h)[Lines(c)]
        /\ host_hdr' = IF HeardHost(c, Lines(c)) THEN "client" ELSE "none"
    BY <1>8, <1>9, <2>1
  <2>3. Collected(serving, Lines(serving))'
    BY <1>1, <2>2 DEF Collected, HeardHost, Lines
  <2>4. Lines(serving)' \in 0..Lines(serving)'
    BY <1>3, <1>12
  <2> QED BY <1>8, <2>1, <2>3, <2>4 DEF HeaderInv
<1>14. CASE line # "blank"
  <2>1. n # Lines(c) /\ pc' = "headers"
    BY <1>1, <1>3, <1>4, <1>14
  <2>2. nread'[c] \in 1..Lines(c)
    BY <1>3, <1>4, <1>10, <2>1
  <2>3. Collected(serving, nread[serving] - 1)'
    BY <1>1, <1>8, <1>9, <1>10 DEF Collected, HeardHost
  <2> QED BY <1>8, <1>12, <2>1, <2>2, <2>3 DEF HeaderInv
<1> QED BY <1>13, <1>14

LEMMA ConnectCollects == ASSUME IInv, HeaderInv, Connect PROVE HeaderInv'
<1>1. /\ pc = "connect" /\ pc' \in {"headers", "dead"} /\ UNCHANGED <<request, serving, nread>>
      /\ host_hdr' = "none" /\ other_hdr' = <<>>
  BY DEF Connect, Dies, clients
<1>2. serving \in Clients /\ TypeInv
  BY <1>1 DEF IInv, QueueInv
<1>3. request[serving].headers \in Seq(Text) /\ Lines(serving) \in Nat /\ Lines(serving) > 0
  BY <1>2, HeaderLines
<1>4. nread[serving] = 1
  BY <1>1 DEF HeaderInv
<1>5. OthersAmong(request[serving].headers)[0] = <<>>
  <2>1. 0 \in 0..Len(request[serving].headers)
    BY <1>3
  <2> QED BY <1>3, <2>1, OthersStep DEF Step
<1>6. Collected(serving, 0)'
  BY <1>1, <1>5 DEF Collected, HeardHost
<1>7. Collected(serving, nread[serving] - 1)'
  BY <1>1, <1>4, <1>6 DEF Collected, HeardHost
<1>8. nread[serving]' \in 1..Lines(serving)'
  BY <1>1, <1>3, <1>4 DEF Lines
<1> QED BY <1>1, <1>7, <1>8 DEF HeaderInv

(* Nothing gets too long unless the request does not fit.                  *)
LEMMA TooLongSeen ==
    ASSUME IInv, HeaderInv, pc \in {"headers", "forward"},
           OthersTooLong \/ (pc = "forward" /\ HeaderTooLong)
    PROVE  ~Fits(request[serving])
<1> SUFFICES ASSUME Fits(request[serving]) PROVE FALSE
  OBVIOUS
<1> DEFINE r == request[serving]
<1>1. serving \in Clients /\ TypeInv
  BY DEF IInv, QueueInv
<1>2. Lines(serving) \in Nat /\ Lines(serving) = Len(r.headers)
  BY <1>1, HeaderLines DEF Lines
<1>3. PICK n \in 0..Lines(serving) : Collected(serving, n)
  <2>1. pc = "headers" => nread[serving] - 1 \in 0..Lines(serving)
    BY <1>2 DEF HeaderInv
  <2> QED BY <2>1 DEF HeaderInv
<1>4. dest = r.target
  BY DEF IInv, ReadInv, Asked
<1>5. other_hdr = OthersAmong(r.headers)[n] /\ host_hdr = HostAfter(r.headers, n)
  BY <1>3 DEF Collected, HeardHost, HostAfter
<1>6. /\ ~(Size(OthersAmong(r.headers)[n]) >= MAXLINE)
      /\ ~(HeaderSize(r.target, HostAfter(r.headers, n), OthersAmong(r.headers)[n]) >= MAXLINE)
  <2>1. n \in 0..Len(r.headers)
    BY <1>2
  <2>2. ~TooLong(r)
    BY DEF Fits
  <2> HIDE DEF r
  <2> QED BY <2>1, <2>2, Zenon DEF TooLong
<1> QED BY <1>4, <1>5, <1>6 DEF OthersTooLong, HeaderTooLong

LEMMA OverflowKeeps == ASSUME IInv, HeaderInv, [Next]_vars, Overflow PROVE IInv'
<1>0. /\ pc \in {"connect", "headers", "forward"} /\ pc' = "dead" /\ alive' = FALSE
      /\ UNCHANGED <<request, nsent, nread, hung, closed, queue, got, serving, broken,
                     dest, reply, nreply, cut, origins>>
  BY DEF Overflow, Dies, clients, build, upstream
<1>7. ~Fits(request[serving])
  <2>1. CASE pc = "connect"
    BY <2>1 DEF Overflow, Fits, TooLong
  <2>2. CASE pc # "connect"
    BY <2>2, TooLongSeen DEF Overflow
  <2> QED BY <2>1, <2>2
<1>1. TypeInv'
  BY <1>0 DEF IInv, TypeInv, Stages, Lines
<1>2. QueueInv'
  BY <1>0 DEF IInv, QueueInv
<1>3. ReadInv' /\ ReplyInv'
  BY <1>0 DEF ReadInv, ReplyInv
<1>5. GotInv'
  BY <1>0, GotKeeps
<1>6. DeathInv'
  BY <1>0, <1>7 DEF IInv, DeathInv
<1> QED BY <1>1, <1>2, <1>3, <1>5, <1>6 DEF IInv

LEMMA ForwardBuilds == ASSUME IInv, HeaderInv, Forward PROVE HeaderInv'
<1>1. /\ pc = "forward" /\ pc' \in {"relay", "dead"}
      /\ UNCHANGED <<request, serving, hung, other_hdr>>
      /\ \/ header' = <<"request", IF host_hdr = "none" THEN "Host: dest" ELSE "Host">>
                      \o <<"Connection: close", "Proxy-Connection: close",
                           "User-Agent: Mozilla">>
                      \o other_hdr \o <<"blank">>
         \/ OthersTooLong \/ HeaderTooLong
  BY DEF Forward, Dies, clients, OwnLines
<1>2. ASSUME Collected(serving, Lines(serving)), ~(OthersTooLong \/ HeaderTooLong)
      PROVE  Built(serving)'
  BY <1>1, <1>2 DEF Collected, Built, HeardHost, Lines, Others
<1>3. OthersTooLong \/ HeaderTooLong => ~Fits(request[serving])
  BY <1>1, TooLongSeen
<1>4. hung[serving] \/ Collected(serving, Lines(serving))
  BY <1>1 DEF HeaderInv
<1> QED BY <1>1, <1>2, <1>3, <1>4 DEF HeaderInv

LEMMA HeaderStep == ASSUME IInv, HeaderInv, [Next]_vars PROVE HeaderInv'
<1>1. CASE ReadHeader
  BY <1>1, LineCollected
<1>2. CASE Connect
  BY <1>2, ConnectCollects
<1>3. CASE Forward
  BY <1>3, ForwardBuilds
<1>4. CASE HeadersAtEnd
  <2>1. /\ pc = "headers" /\ hung[serving] /\ pc' = "forward"
        /\ UNCHANGED <<request, nread, serving, hung, host_hdr, other_hdr>>
    BY <1>4 DEF HeadersAtEnd, AtEnd, clients, build
  <2>2. nread[serving] - 1 \in 0..Lines(serving) /\ Collected(serving, nread[serving] - 1)
    <3>1. Lines(serving) \in Nat
      BY <2>1, HeaderLines DEF IInv, QueueInv
    <3> QED BY <2>1, <3>1 DEF HeaderInv
  <2>3. Collected(serving, nread[serving] - 1)' /\ Lines(serving)' = Lines(serving)
    BY <2>1, <2>2 DEF Collected, HeardHost, Lines
  <2> QED BY <2>1, <2>2, <2>3 DEF HeaderInv
<1>5. CASE ReadRequest
  <2>1. /\ pc = "request" /\ pc' \in {"connect", "501"} /\ serving' = serving
        /\ nread' = [nread EXCEPT ![serving] = @ + 1] /\ other_hdr' = other_hdr
    BY <1>5 DEF ReadRequest, ReadsLine
  <2>2. nread[serving] = 0 /\ serving \in Clients /\ nread \in [Clients -> Nat]
    BY <2>1 DEF IInv, ReadInv, QueueInv, TypeInv
  <2> QED BY <2>1, <2>2 DEF HeaderInv
<1>6. CASE Accept \/ ReadNothing \/ ClientError \/ Overflow \/ RelayEnds \/ RelayFails \/ Close
  <2>1. pc' \in {"request", "close", "501", "accept", "dead"} /\ other_hdr' = other_hdr
    BY <1>6 DEF Accept, ReadNothing, ClientError, Overflow, RelayEnds, RelayFails, Close,
          Write, Dies, build
  <2> QED BY <2>1 DEF HeaderInv
<1>7. CASE Relay
  <2>1. /\ pc = "relay" /\ pc' \in {"relay", "dead"}
        /\ UNCHANGED <<request, serving, hung, header, other_hdr>>
    BY <1>7 DEF Relay, Write, Dies, clients, build
  <2> QED BY <2>1 DEF HeaderInv, Built, HeardHost, Lines, Others
<1>8. CASE OriginStep \/ (\E o \in DOMAIN Origins : OriginKilled(o)) \/ UNCHANGED vars
  <2>1. UNCHANGED <<request, nread, serving, pc, hung, host_hdr, other_hdr, header>>
    BY <1>8 DEF OriginStep, OriginSends, OriginCloses, OriginKilled, vars, clients,
          build
  <2> QED BY <2>1 DEF HeaderInv, Built, Collected, HeardHost, Lines, Others
<1>9. CASE \E c \in Clients : SendLine(c) \/ HangUp(c)
  <2>1. /\ UNCHANGED <<request, nread, serving, pc, host_hdr, other_hdr, header>>
        /\ hung' = hung \/ \E c \in Clients : hung' = [hung EXCEPT ![c] = TRUE]
    BY <1>9 DEF SendLine, HangUp, build
  <2>2. pc # "accept" => serving \in Clients /\ (hung[serving] => hung'[serving])
    BY <2>1 DEF IInv, TypeInv, QueueInv
  <2> QED BY <2>1, <2>2 DEF HeaderInv, Built, Collected, HeardHost, Lines, Others
<1> QED BY <1>1, <1>2, <1>3, <1>4, <1>5, <1>6, <1>7, <1>8, <1>9 DEF Next, ProxyStep

LEMMA Inductive == ASSUME ParsesBack, IInv, HeaderInv, [Next]_vars PROVE IInv'
<1>6. Forward => IInv'
  <2> SUFFICES ASSUME Forward PROVE IInv'
    OBVIOUS
  <2>1. OthersTooLong \/ HeaderTooLong => ~Fits(request[serving])
    BY TooLongSeen DEF Forward
  <2> QED BY <2>1, ForwardKeeps
<1>1. CASE ProxyStep
  BY <1>1, <1>6, OverflowKeeps, AcceptKeeps, ReadRequestKeeps, ReadNothingKeeps, ClientErrorKeeps,
        ConnectKeeps,
     ReadHeaderKeeps, HeadersAtEndKeeps, RelayKeeps, RelayEndsKeeps,
     RelayFailsKeeps, CloseKeeps DEF ProxyStep
<1>2. CASE OriginStep
  BY <1>2, OriginSendsKeeps, OriginClosesKeeps DEF OriginStep
<1>3. CASE \E c \in Clients : SendLine(c) \/ HangUp(c)
  BY <1>3, SendLineKeeps, HangUpKeeps
<1>4. CASE \E o \in DOMAIN Origins : OriginKilled(o)
  BY <1>4, OriginKilledKeeps
<1>5. CASE UNCHANGED vars
  BY <1>5, StutterKeeps
<1> QED BY <1>1, <1>2, <1>3, <1>4, <1>5 DEF Next

LEMMA OthersType ==
    ASSUME NEW lines \in Seq(Text) PROVE OthersAmong(lines)[Len(lines)] \in Seq(Text)
<1> DEFINE R == OpToRel(<, Nat)
           Bad == {n \in 0..Len(lines) : OthersAmong(lines)[n] \notin Seq(Text)}
<1>1. ASSUME NEW n \in Bad PROVE n > 0 /\ n - 1 \in Bad
  <2>1. n \in 0..Len(lines) /\ n \in Nat /\ OthersAmong(lines)[n] \notin Seq(Text)
    OBVIOUS
  <2>2. OthersAmong(lines)[n] = Step(OthersAmong(lines), lines, n)
    BY <2>1, OthersStep
  <2>3. n # 0
    <3> SUFFICES ASSUME n = 0 PROVE FALSE
      OBVIOUS
    <3>1. OthersAmong(lines)[n] = <<>>
      BY <2>2 DEF Step
    <3>2. <<>> \in Seq(Text)
      OBVIOUS
    <3> QED BY <2>1, <3>1, <3>2
  <2>4. lines[n] \in Text /\ n - 1 \in 0..Len(lines)
    BY <2>1, <2>3
  <2>5. OthersAmong(lines)[n - 1] \notin Seq(Text)
    <3> DEFINE f == OthersAmong(lines)
    <3>1. f[n] = f[n - 1] \/ f[n] = Append(f[n - 1], lines[n])
      BY <2>1, <2>2, <2>3 DEF Step
    <3>2. f[n] \notin Seq(Text)
      BY <2>1
    <3> HIDE DEF f
    <3>3. f[n - 1] \notin Seq(Text)
      <4> SUFFICES ASSUME f[n - 1] \in Seq(Text) PROVE FALSE
        OBVIOUS
      <4>1. Append(f[n - 1], lines[n]) \in Seq(Text)
        BY <2>4, AppendProperties
      <4> QED BY <3>1, <3>2, <4>1
    <3> QED BY <3>3 DEF f
  <2> QED BY <2>1, <2>3, <2>4, <2>5
<1>2. Bad = {}
  <2> SUFFICES ASSUME Bad # {} PROVE FALSE
    OBVIOUS
  <2>1. IsWellFoundedOn(R, Nat)
    BY NatLessThanWellFounded
  <2>2. Bad \subseteq Nat
    OBVIOUS
  <2>3. \A x, y \in Nat : x < y => <<x, y>> \in R
    BY DEF OpToRel
  <2> HIDE DEF R, Bad
  <2>4. PICK m \in Bad : \A k \in Bad : ~(<<k, m>> \in R)
    BY <2>1, <2>2, WFMin
  <2>5. m - 1 \in Bad /\ m \in Nat /\ m - 1 \in Nat
    BY <1>1, <2>2
  <2>6. <<m - 1, m>> \in R
    BY <2>3, <2>5
  <2> QED BY <2>4, <2>5, <2>6
<1>3. Len(lines) \in 0..Len(lines)
  OBVIOUS
<1> QED BY <1>2, <1>3

LEMMA Together ==
    ASSUME NEW p1, NEW p2, NEW p3, NEW p4, NEW p5
    PROVE  <<p1, p2>> \o <<p3, p4, p5>> = <<p1, p2, p3, p4, p5>>
<1> DEFINE S == {p1, p2, p3, p4, p5}
<1>1. /\ <<p1, p2>> \in Seq(S) /\ <<p3, p4, p5>> \in Seq(S)
      /\ <<p1, p2, p3, p4, p5>> \in Seq(S)
  OBVIOUS
<1>2. Len(<<p1, p2>>) = 2 /\ Len(<<p3, p4, p5>>) = 3 /\ Len(<<p1, p2, p3, p4, p5>>) = 5
  OBVIOUS
<1>3. /\ <<p1, p2>>[1] = p1 /\ <<p1, p2>>[2] = p2
      /\ <<p3, p4, p5>>[1] = p3 /\ <<p3, p4, p5>>[2] = p4 /\ <<p3, p4, p5>>[3] = p5
  OBVIOUS
<1>4. LET w == <<p1, p2, p3, p4, p5>>
      IN  w[1] = p1 /\ w[2] = p2 /\ w[3] = p3 /\ w[4] = p4 /\ w[5] = p5
  OBVIOUS
<1> DEFINE a == <<p1, p2>>
           b == <<p3, p4, p5>>
           w == <<p1, p2, p3, p4, p5>>
<1>5. /\ a \in Seq(S) /\ b \in Seq(S) /\ w \in Seq(S) /\ Len(a) = 2 /\ Len(b) = 3 /\ Len(w) = 5
      /\ a[1] = w[1] /\ a[2] = w[2] /\ b[1] = w[3] /\ b[2] = w[4] /\ b[3] = w[5]
  BY <1>1, <1>2, <1>3, <1>4
<1> HIDE DEF a, b, w, S
<1>6. a \o b \in Seq(S) /\ Len(a \o b) = 5
      /\ \A k \in 1..5 : (a \o b)[k] = IF k <= 2 THEN a[k] ELSE b[k - 2]
  <2>1. a \o b \in Seq(S) /\ Len(a \o b) = Len(a) + Len(b)
        /\ \A k \in 1..(Len(a) + Len(b)) :
              (a \o b)[k] = IF k <= Len(a) THEN a[k] ELSE b[k - Len(a)]
    BY <1>5, ConcatProperties
  <2> QED BY <1>5, <2>1
<1>7. \A k \in 1..5 : (a \o b)[k] = w[k]
  <2> SUFFICES ASSUME NEW k \in 1..5 PROVE (a \o b)[k] = w[k]
    OBVIOUS
  <2>1. (a \o b)[k] = IF k <= 2 THEN a[k] ELSE b[k - 2]
    BY <1>6
  <2> QED BY <1>5, <2>1
<1>8. a \o b = w
  BY <1>5, <1>6, <1>7, SeqEqual
<1> QED BY <1>8 DEF a, b, w

LEMMA FirstOfThree ==
    ASSUME NEW S, NEW u \in Seq(S), NEW w \in Seq(S), NEW x \in Seq(S), NEW k \in 1..Len(u)
    PROVE  (u \o w \o x)[k] = u[k]
<1> DEFINE y == u \o w
<1>1. Len(u) \in Nat /\ Len(w) \in Nat /\ Len(x) \in Nat
  OBVIOUS
<1>2. /\ y \in Seq(S) /\ Len(y) = Len(u) + Len(w)
      /\ \A m \in 1..(Len(u) + Len(w)) : y[m] = IF m <= Len(u) THEN u[m] ELSE w[m - Len(u)]
  BY ConcatProperties
<1> HIDE DEF y
<1>3. \A m \in 1..(Len(y) + Len(x)) : (y \o x)[m] = IF m <= Len(y) THEN y[m] ELSE x[m - Len(y)]
  BY <1>2, ConcatProperties
<1>4. y[k] = u[k] /\ (y \o x)[k] = y[k]
  BY <1>1, <1>2, <1>3
<1> QED BY <1>4 DEF y

LEMMA HeaderIs == ASSUME IInv, HeaderInv PROVE HeaderBuilt
<1> SUFFICES ASSUME pc = "relay", ~hung[serving], Fits(request[serving])
             PROVE  /\ header = <<header[1], header[2], "Connection: close",
                                  "Proxy-Connection: close", "User-Agent: Mozilla">>
                                \o Others(serving) \o <<"blank">>
                    /\ header[2] = IF Contains(request[serving].headers, "Host")
                                   THEN "Host" ELSE "Host: dest"
  BY DEF HeaderBuilt
<1>1. serving \in Clients /\ TypeInv
  BY DEF IInv, QueueInv
<1>2. request[serving].headers \in Seq(Text) /\ Lines(serving) = Len(request[serving].headers)
  BY <1>1, HeaderLines DEF Lines
<1>3. Others(serving) \in Seq(Text)
  BY <1>2, OthersType DEF Others
<1> DEFINE host == IF HeardHost(serving, Lines(serving)) THEN "Host" ELSE "Host: dest"
           others == Others(serving)
           five == <<"request", host, "Connection: close", "Proxy-Connection: close",
                     "User-Agent: Mozilla">>
<1>4. header = <<"request", host>>
               \o <<"Connection: close", "Proxy-Connection: close", "User-Agent: Mozilla">>
               \o others \o <<"blank">>
  BY DEF HeaderInv, Built
<1>5. <<"request", host>>
          \o <<"Connection: close", "Proxy-Connection: close", "User-Agent: Mozilla">> = five
  <2> HIDE DEF host
  <2> QED BY Together
<1>6. header = five \o others \o <<"blank">>
  BY <1>4, <1>5
<1>7. host = IF Contains(request[serving].headers, "Host") THEN "Host" ELSE "Host: dest"
  BY <1>2 DEF HeardHost, Contains
<1> HIDE DEF host
<1> DEFINE S == Text \union {"request", host, "Connection: close", "Proxy-Connection: close",
                             "User-Agent: Mozilla", "blank"}
<1>10. five \in Seq(S) /\ Len(five) = 5 /\ five[1] = "request" /\ five[2] = host
       /\ <<"blank">> \in Seq(S)
  OBVIOUS
<1>11. others \in Seq(S)
  <2>1. Text \subseteq S
    OBVIOUS
  <2>2. others \in [1..Len(others) -> Text] /\ Len(others) \in Nat
    BY <1>3
  <2> HIDE DEF S
  <2>3. others \in [1..Len(others) -> S]
    BY <2>1, <2>2
  <2> QED BY <2>2, <2>3
<1> HIDE DEF others, five, S
<1>9. header[1] = "request" /\ header[2] = host
  <2>1. 1 \in 1..Len(five) /\ 2 \in 1..Len(five)
    BY <1>10
  <2> DEFINE last == <<"blank">>
  <2>2. last \in Seq(S)
    BY <1>10
  <2> HIDE DEF last
  <2>3. \A k \in 1..Len(five) : (five \o others \o last)[k] = five[k]
    <3> SUFFICES ASSUME NEW k \in 1..Len(five) PROVE (five \o others \o last)[k] = five[k]
      OBVIOUS
    <3>1. five \in Seq(S) /\ others \in Seq(S) /\ last \in Seq(S) /\ k \in 1..Len(five)
      BY <1>10, <1>11, <2>2
    <3> QED BY ONLY <3>1, FirstOfThree, Zenon
  <2> QED BY <1>6, <1>10, <2>1, <2>3 DEF last
<1> QED BY <1>6, <1>7, <1>9 DEF five, others

LEMMA RelayIs == IInv => RelayIntact
<1>1. IInv => RelayIntact
  <2> SUFFICES ASSUME IInv, NEW c \in Clients, request[c].method = "GET", Fits(request[c])
               PROVE  /\ IsPrefix(got[c], Answer(c))
                      /\ closed[c] /\ ~hung[c] /\ Status(Asked(c)) # "down" => got[c] = Answer(c)
    BY DEF RelayIntact
  <2>1. PICK m \in 0..Chunks : got[c] = Sent(Asked(c), 0, m)
    BY DEF IInv, GotInv, Gets
  <2>2. closed[c] => hung[c] \/ Status(Asked(c)) = "down" \/ got[c] = Sent(Asked(c), 0, Chunks)
    BY DEF IInv, GotInv, Gets, Down
  <2>3. m \in Nat /\ Chunks \in Nat /\ m <= Chunks
    BY ProxyAssumption
  <2>4. Answer(c) = Sent(Asked(c), 0, Chunks)
    BY <2>3 DEF Answer, Sent
  <2>5. IsPrefix(got[c], Answer(c))
    <3>1. \A n \in Nat : /\ Sent(Asked(c), 0, n) \in Seq(Pieces(Asked(c)))
                         /\ Len(Sent(Asked(c), 0, n)) = n
                         /\ \A i \in 1..n : Sent(Asked(c), 0, n)[i] = Chunk(Asked(c), i)
      <4> SUFFICES ASSUME NEW n \in Nat
                   PROVE  /\ Sent(Asked(c), 0, n) \in Seq(Pieces(Asked(c)))
                          /\ Len(Sent(Asked(c), 0, n)) = n
                          /\ \A i \in 1..n : Sent(Asked(c), 0, n)[i] = Chunk(Asked(c), i)
        OBVIOUS
      <4>1. 0 \in Nat /\ 0 <= n /\ n - 0 = n /\ \A i \in 1..n : 0 + i = i
        OBVIOUS
      <4>2. /\ Sent(Asked(c), 0, n) \in Seq(Pieces(Asked(c))) /\ Len(Sent(Asked(c), 0, n)) = n - 0
            /\ \A i \in 1..(n - 0) : Sent(Asked(c), 0, n)[i] = Chunk(Asked(c), 0 + i)
        BY <4>1, SentType
      <4> QED BY <4>1, <4>2
    <3>2. /\ got[c] \in Seq(Pieces(Asked(c))) /\ Len(got[c]) = m
          /\ Answer(c) \in Seq(Pieces(Asked(c))) /\ Len(Answer(c)) = Chunks
          /\ \A i \in 1..m : got[c][i] = Chunk(Asked(c), i)
          /\ \A i \in 1..Chunks : Answer(c)[i] = Chunk(Asked(c), i)
      BY <2>1, <2>3, <2>4, <3>1
    <3>3. \A i \in 1..m : i \in 1..Chunks /\ got[c][i] = Answer(c)[i]
      BY <2>3, <3>2
    <3>4. SubSeq(got[c], 1, m) = SubSeq(Answer(c), 1, m)
      BY <2>3, <3>2, <3>3
    <3> QED BY <2>3, <3>2, <3>4 DEF IsPrefix
  <2> QED BY <2>2, <2>4, <2>5
<1> QED BY <1>1

(* A client of the proxy whose request names an origin and fits its arrays *)
(* gets a prefix of what that origin sends, never a chunk of another       *)
(* client's response, and all of it if it stays until the connection is    *)
(* closed and the origin is up, whatever has been asked before it; the     *)
(* header that an origin gets for such a request has one Host line, the    *)
(* proxy's own three lines, and the other lines of this client in their    *)
(* order; and the proxy ends only when the client it serves has hung up,   *)
(* when the origin that this client has named is down, or when the request *)
(* of this client lacks a word or is too long for authority, other_hdr or  *)
(* http_header, which the code writes to without looking at their size.    *)
THEOREM ProxyIsSound == ServersSpec => []ProxySound
<1> DEFINE Inv == system = "proxy" => IInv /\ HeaderInv
<1>0. ParsesBack
  BY Assumptions
<1>1. AnyInit => Inv
  <2>1. Init => HeaderInv
    BY DEF Init, HeaderInv
  <2> QED BY <2>1, Initially DEF AnyInit
<1>2. Inv /\ [ServersNext]_serversvars => Inv'
  <2> SUFFICES ASSUME Inv, [ServersNext]_serversvars, system' = "proxy"
               PROVE  (IInv /\ HeaderInv)'
    OBVIOUS
  <2>1. system = "proxy" /\ [Next]_vars
    <3>1. CASE EchoNext
      BY <3>1 DEF EchoNext
    <3>2. CASE TinyNext
      BY <3>2 DEF TinyNext
    <3>3. CASE ProxyNext
      BY <3>3 DEF ProxyNext
    <3>4. CASE UNCHANGED serversvars
      BY <3>4 DEF serversvars
    <3> QED BY <3>1, <3>2, <3>3, <3>4 DEF ServersNext
  <2>2. IInv /\ HeaderInv
    BY <2>1
  <2>3. IInv'
    BY <1>0, <2>1, <2>2, Inductive
  <2>4. HeaderInv'
    BY <2>1, <2>2, HeaderStep
  <2> QED BY <2>3, <2>4
<1>3. Inv => ProxySound
  <2> SUFFICES ASSUME IInv, HeaderInv PROVE RelayIntact /\ HeaderBuilt /\ DiesOnlyOf
    BY DEF ProxySound
  <2>1. RelayIntact
    BY RelayIs
  <2>2. HeaderBuilt
    BY HeaderIs
  <2>3. DiesOnlyOf
    BY DEF IInv, DeathInv, DiesOnlyOf, Down
  <2> QED BY <2>1, <2>2, <2>3
<1> QED BY <1>1, <1>2, <1>3, PTL DEF ServersSpec

-----------------------------------------------------------------------------
(* The inductive invariant of the echo programs.                           *)
Conn(x) == pc[x] \in {"typing", "waiting"} /\ cut[x] = "no"
Complete(t) == E!LineComplete(EchoMax, t)

EchoTypes ==
    /\ pc \in [Clients -> {"start", "typing", "waiting", "done"}]
    /\ stdin \in [Clients -> Seq(Bytes)] /\ buf \in [Clients -> Seq(Bytes)]
    /\ up \in [Clients -> Seq(Bytes)] /\ down \in [Clients -> Seq(Bytes)]
    /\ sent \in [Clients -> Seq(Bytes)] /\ echoed \in [Clients -> Seq(Bytes)]
    /\ printed \in [Clients -> Seq(Bytes)]
    /\ gone \in [Clients -> {"no", "fin", "rst"}]
    /\ cut \in [Clients -> {"no", "fin", "broken", "rst"}]
    /\ running \in BOOLEAN /\ serving \in Clients \union {Nobody} /\ queue \in Seq(Clients)

(* A client that has not connected has left no trace, and only a client    *)
(* that is done has gone away.                                             *)
StartInv ==
    \A x \in Clients :
        /\ pc[x] = "start" => /\ cut[x] = "no" /\ up[x] = <<>> /\ down[x] = <<>>
                              /\ sent[x] = <<>> /\ echoed[x] = <<>> /\ printed[x] = <<>>
        /\ pc[x] # "done" => gone[x] = "no"

(* At most one line is under way, and it is complete only as a whole: so   *)
(* the server echoes it, and the client reads it, in one piece.            *)
OneLine(t) ==
    /\ \A k \in 1..(Len(t) - 1) : ~Complete(E!First(t, k))
    /\ \A k \in 1..Len(t) : t[k] # NUL

UnderWay(x, t) ==
    /\ OneLine(t) /\ sent[x] = printed[x] \o t
    /\ \/ up[x] = t /\ down[x] = <<>> /\ echoed[x] = printed[x]
       \/ down[x] = t /\ up[x] = <<>> /\ echoed[x] = sent[x]

TalkInv ==
    \A x \in Clients : Conn(x) =>
        /\ pc[x] = "typing" => /\ up[x] = <<>> /\ down[x] = <<>>
                               /\ printed[x] = sent[x] /\ echoed[x] = sent[x]
        /\ pc[x] = "waiting" => \E t \in Seq(Bytes) : UnderWay(x, t)

(* Who has connected is served or queues, once.                            *)
LineUp ==
    /\ running => /\ \A k \in 1..Len(queue) : pc[queue[k]] # "start" /\ queue[k] # serving
                  /\ \A k, m \in 1..Len(queue) : queue[k] = queue[m] => k = m
                  /\ serving # Nobody => pc[serving] # "start"
                  /\ \A x \in Clients : Conn(x) =>
                        serving = x \/ \E k \in 1..Len(queue) : queue[k] = x
    /\ ~running => serving = Nobody /\ queue = <<>>

EchoInv == EchoTypes /\ StartInv /\ TalkInv /\ LineUp

-----------------------------------------------------------------------------
(* The beginnings of a sequence of bytes, and the lines of it.             *)
LEMMA FirstIs ==
    ASSUME NEW t \in Seq(Bytes), NEW k \in 0..Len(t)
    PROVE  /\ E!First(t, k) \in Seq(Bytes) /\ Len(E!First(t, k)) = k
           /\ \A m \in 1..k : E!First(t, k)[m] = t[m]
           /\ E!Without(t, k) \in Seq(Bytes) /\ Len(E!Without(t, k)) = Len(t) - k
<1>0. Len(t) \in Nat /\ k \in Int /\ \A m \in 1..Len(t) : t[m] \in Bytes
  BY LenProperties, ElementOfSeq
<1>1. /\ SubSeq(t, 1, k) \in Seq(Bytes) /\ Len(SubSeq(t, 1, k)) = IF 1 <= k THEN k - 1 + 1 ELSE 0
      /\ \A m \in 1..(k - 1 + 1) : SubSeq(t, 1, k)[m] = t[1 + m - 1]
  <2>1. \A m \in 1..k : t[m] \in Bytes
    BY <1>0
  <2> QED BY <1>0, <2>1, SubSeqProperties
<1>2. /\ SubSeq(t, k + 1, Len(t)) \in Seq(Bytes)
      /\ Len(SubSeq(t, k + 1, Len(t))) = IF k + 1 <= Len(t) THEN Len(t) - (k + 1) + 1 ELSE 0
  <2>1. \A m \in (k + 1)..Len(t) : t[m] \in Bytes
    BY <1>0
  <2>2. k + 1 \in Int /\ Len(t) \in Int
    BY <1>0
  <2> QED BY <2>1, <2>2, SubSeqProperties
<1>3. E!First(t, k) = SubSeq(t, 1, k) /\ E!Without(t, k) = SubSeq(t, k + 1, Len(t))
  BY DEF E!First, E!Without
<1> QED BY <1>0, <1>1, <1>2, <1>3

LEMMA FirstOfFirst ==
    ASSUME NEW t \in Seq(Bytes), NEW m \in 0..Len(t), NEW k \in 0..m
    PROVE  E!First(E!First(t, m), k) = E!First(t, k)
<1> DEFINE f == E!First(t, m)
           a == E!First(f, k)
           b == E!First(t, k)
<1>0. Len(t) \in Nat /\ m \in Nat /\ k \in Nat /\ k \in 0..Len(t)
  BY LenProperties
<1>1. f \in Seq(Bytes) /\ Len(f) = m /\ \A n \in 1..m : f[n] = t[n]
  BY FirstIs
<1> HIDE DEF f
<1>2. a \in Seq(Bytes) /\ Len(a) = k /\ \A n \in 1..k : a[n] = f[n]
  BY <1>1, FirstIs
<1>3. b \in Seq(Bytes) /\ Len(b) = k /\ \A n \in 1..k : b[n] = t[n]
  BY <1>0, FirstIs
<1> HIDE DEF a, b
<1>4. \A n \in 1..Len(a) : a[n] = b[n]
  BY <1>0, <1>1, <1>2, <1>3
<1>5. a = b
  BY <1>2, <1>3, <1>4, SeqEqual
<1> QED BY <1>5 DEF a, b, f

LEMMA FirstOfAll == ASSUME NEW t \in Seq(Bytes) PROVE E!First(t, Len(t)) = t
BY SubSeqFull DEF E!First

LEMMA NothingLeft == ASSUME NEW t \in Seq(Bytes) PROVE E!Without(t, Len(t)) = <<>>
<1>1. Len(t) \in Nat
  BY LenProperties
<1>2. Len(t) \in 0..Len(t)
  BY <1>1
<1>3. E!Without(t, Len(t)) \in Seq(Bytes) /\ Len(E!Without(t, Len(t))) = Len(t) - Len(t)
  BY <1>2, FirstIs
<1> QED BY <1>1, <1>3, EmptySeq

LEMMA LeastExists ==
    ASSUME NEW N, N \subseteq Nat, N # {}
    PROVE  \E x \in N : \A y \in N : x <= y
<1> DEFINE R == OpToRel(<, Nat)
<1>1. IsWellFoundedOn(R, Nat)
  BY NatLessThanWellFounded
<1>2. \A x, y \in Nat : x < y => <<x, y>> \in R
  BY DEF OpToRel
<1> HIDE DEF R
<1>3. \E x \in N : \A y \in N : ~ (<<y, x>> \in R)
  BY <1>1, WFMin
<1>4. \E x \in N : \A y \in N : ~ (y < x)
  BY <1>2, <1>3
<1> QED BY <1>4

LEMMA MinIs ==
    ASSUME NEW N, N \subseteq Nat, N # {}
    PROVE  E!Min(N) \in N /\ \A y \in N : E!Min(N) <= y
BY LeastExists DEF E!Min

LEMMA NextLineIs ==
    ASSUME NEW t \in Seq(Bytes), NEW e \in BOOLEAN, NEW l \in E!NextLine(t, e)
    PROVE  /\ l \in Seq(Bytes) /\ Len(l) \in 0..Len(t) /\ l = E!First(t, Len(l))
           /\ E!Without(t, Len(l)) \in Seq(Bytes)
           /\ \A k \in 1..(Len(l) - 1) : ~Complete(E!First(l, k))
           /\ ~e => Len(l) # 0 /\ Complete(l)
<1> DEFINE N == {k \in 1..Len(t) : Complete(E!First(t, k))}
<1>0. Len(t) \in Nat
  BY LenProperties
<1>1. l \in IF N # {} THEN {E!First(t, E!Min(N))} ELSE IF e THEN {t} ELSE {}
  BY Zenon DEF E!NextLine, Complete
<1>2. N \subseteq Nat /\ \A k \in N : k \in 1..Len(t) /\ Complete(E!First(t, k))
  OBVIOUS
<1>3. \A k \in 1..Len(t) : k \notin N => ~Complete(E!First(t, k))
  OBVIOUS
<1> HIDE DEF N
<1>4. CASE N # {}
  <2>1. PICK m \in N : m = E!Min(N) /\ \A y \in N : m <= y
    BY <1>2, <1>4, MinIs
  <2>2. m \in 1..Len(t) /\ m \in 0..Len(t) /\ Complete(E!First(t, m)) /\ l = E!First(t, m)
    BY <1>0, <1>1, <1>2, <1>4, <2>1
  <2>3. l \in Seq(Bytes) /\ Len(l) = m /\ E!Without(t, m) \in Seq(Bytes)
    BY <2>2, FirstIs
  <2>4. ASSUME NEW k \in 1..(m - 1) PROVE ~Complete(E!First(l, k))
    <3>1. k \in 0..m /\ k \in 1..Len(t)
      BY <1>0, <2>2
    <3>2. ~(k \in N)
      BY <2>1, <2>2, <2>4
    <3>3. E!First(l, k) = E!First(t, k)
      BY <2>2, <3>1, FirstOfFirst
    <3> QED BY <1>3, <3>1, <3>2, <3>3
  <2> QED BY <2>2, <2>3, <2>4
<1>5. CASE N = {}
  <2>1. l = t /\ e
    BY <1>1, <1>5
  <2>2. Len(t) \in 0..Len(t)
    BY <1>0
  <2>3. E!Without(t, Len(t)) \in Seq(Bytes)
    BY <2>2, FirstIs
  <2>4. \A k \in 1..(Len(t) - 1) : ~Complete(E!First(t, k))
    BY <1>0, <1>3, <1>5
  <2> QED BY <2>1, <2>2, <2>3, <2>4, FirstOfAll
<1> QED BY <1>4, <1>5

LEMMA StringIs ==
    ASSUME NEW t \in Seq(Bytes)
    PROVE  /\ E!String(t) \in Seq(Bytes) /\ Len(E!String(t)) \in 0..Len(t)
           /\ E!String(t) = E!First(t, Len(E!String(t)))
           /\ \A k \in 1..Len(E!String(t)) : E!String(t)[k] # NUL
           /\ (\A k \in 1..Len(t) : t[k] # NUL) => E!String(t) = t
<1> DEFINE N == {k \in 1..Len(t) : t[k] = NUL}
<1>0. Len(t) \in Nat
  BY LenProperties
<1>1. E!String(t) = IF N = {} THEN t ELSE E!First(t, E!Min(N) - 1)
  BY DEF E!String
<1>2. N \subseteq Nat /\ \A k \in N : k \in 1..Len(t) /\ t[k] = NUL
  OBVIOUS
<1>3. \A k \in 1..Len(t) : k \notin N => t[k] # NUL
  OBVIOUS
<1> HIDE DEF N
<1>4. CASE N # {}
  <2>1. PICK m \in N : m = E!Min(N) /\ \A y \in N : m <= y
    BY <1>2, <1>4, MinIs
  <2>2. m \in 1..Len(t) /\ t[m] = NUL /\ m - 1 \in 0..Len(t)
    BY <1>0, <1>2, <2>1
  <2>3. PICK q \in 0..Len(t) : q = m - 1 /\ E!String(t) = E!First(t, q)
    BY <1>1, <1>4, <2>1, <2>2
  <2>4. /\ E!String(t) \in Seq(Bytes) /\ Len(E!String(t)) = q
        /\ \A k \in 1..q : E!String(t)[k] = t[k]
    <3>1. /\ E!First(t, q) \in Seq(Bytes) /\ Len(E!First(t, q)) = q
          /\ \A k \in 1..q : E!First(t, q)[k] = t[k]
      BY FirstIs
    <3> QED BY <2>3, <3>1
  <2>5. ASSUME NEW k \in 1..q PROVE t[k] # NUL
    <3>1. ~(k \in N) /\ k \in 1..Len(t)
      BY <1>0, <2>1, <2>2, <2>3
    <3> QED BY <1>3, <3>1
  <2> QED BY <2>2, <2>3, <2>4, <2>5
<1>5. CASE N = {}
  <2>1. E!String(t) = t /\ Len(t) \in 0..Len(t)
    BY <1>0, <1>1, <1>5
  <2> QED BY <1>3, <1>5, <2>1, FirstOfAll
<1> QED BY <1>4, <1>5

(* What is sent for a line that was typed.                                 *)
LEMMA OutgoingIs ==
    ASSUME NEW t \in Seq(Bytes), NEW l \in E!NextLine(t, TRUE)
    PROVE  E!Outgoing(l) \in Seq(Bytes) /\ OneLine(E!Outgoing(l))
<1> DEFINE o == E!Outgoing(l)
<1>1. /\ l \in Seq(Bytes) /\ Len(l) \in Nat
      /\ \A k \in 1..(Len(l) - 1) : ~Complete(E!First(l, k))
  BY NextLineIs, LenProperties
<1>2. /\ o \in Seq(Bytes) /\ Len(o) \in 0..Len(l) /\ o = E!First(l, Len(o))
      /\ \A k \in 1..Len(o) : o[k] # NUL
  BY <1>1, StringIs DEF E!Outgoing
<1> HIDE DEF o
<1>3. ASSUME NEW k \in 1..(Len(o) - 1) PROVE ~Complete(E!First(o, k))
  <2>1. k \in 1..(Len(l) - 1) /\ k \in 0..Len(o)
    BY <1>1, <1>2
  <2>2. E!First(E!First(l, Len(o)), k) = E!First(l, k)
    BY <1>1, <1>2, <2>1, FirstOfFirst
  <2> QED BY <1>1, <1>2, <2>1, <2>2
<1>4. o \in Seq(Bytes) /\ OneLine(o)
  BY <1>2, <1>3 DEF OneLine
<1> QED BY <1>4 DEF o

(* One line under way is read whole, as soon as it can be read.            *)
LEMMA WholeLine ==
    ASSUME NEW t \in Seq(Bytes), OneLine(t), NEW l \in E!NextLine(t, FALSE)
    PROVE  l = t /\ E!String(l) = t /\ l # <<>> /\ E!Without(t, Len(l)) = <<>>
<1>1. /\ l \in Seq(Bytes) /\ Len(l) \in 0..Len(t) /\ l = E!First(t, Len(l))
      /\ Len(l) # 0 /\ Complete(l) /\ Len(t) \in Nat
  BY NextLineIs, LenProperties
<1>2. Len(l) = Len(t)
  <2>1. SUFFICES ASSUME Len(l) \in 1..(Len(t) - 1) PROVE FALSE
    BY <1>1
  <2>2. ~Complete(E!First(t, Len(l)))
    BY <2>1 DEF OneLine
  <2> QED BY <1>1, <2>2
<1>3. l = t
  BY <1>1, <1>2, FirstOfAll
<1>4. E!String(t) = t
  BY StringIs DEF OneLine
<1> QED BY <1>1, <1>3, <1>4, NothingLeft

LEMMA NoLine == E!NextLine(<<>>, FALSE) = {}
BY DEF E!NextLine

-----------------------------------------------------------------------------
LEMMA EchoInit == ASSUME E!EchoAssumption, E!Init PROVE EchoInv
<1>0. /\ pc = [x \in Clients |-> "start"] /\ stdin \in [Clients -> Typed]
      /\ buf = [x \in Clients |-> <<>>]
      /\ up = buf /\ down = buf /\ sent = buf /\ echoed = buf /\ printed = buf
      /\ gone = [x \in Clients |-> "no"] /\ cut = gone
      /\ running = TRUE /\ serving = Nobody /\ queue = <<>>
  BY DEF E!Init
<1>1. EchoTypes
  <2>1. stdin \in [Clients -> Seq(Bytes)]
    BY <1>0 DEF E!EchoAssumption
  <2>2. <<>> \in Seq(Bytes) /\ <<>> \in Seq(Clients)
    BY EmptySeq
  <2> QED BY <1>0, <2>1, <2>2 DEF EchoTypes
<1>2. StartInv
  BY <1>0 DEF StartInv
<1>3. TalkInv
  BY <1>0 DEF TalkInv, Conn
<1>4. LineUp
  <2>1. Len(queue) = 0
    BY <1>0
  <2> QED BY <1>0, <2>1 DEF LineUp, Conn
<1> QED BY <1>1, <1>2, <1>3, <1>4 DEF EchoInv

(* Where nothing that a client's dialogue consists of has changed.         *)
LEMMA TalkStays ==
    ASSUME NEW x \in Clients, EchoInv, Conn(x)',
           UNCHANGED <<pc[x], cut[x], up[x], down[x], sent[x], echoed[x], printed[x]>>
    PROVE  /\ pc'[x] = "typing" => /\ up'[x] = <<>> /\ down'[x] = <<>>
                                   /\ printed'[x] = sent'[x] /\ echoed'[x] = sent'[x]
           /\ pc'[x] = "waiting" => \E t \in Seq(Bytes) : UnderWay(x, t)'
<1>1. Conn(x)
  BY DEF Conn
<1>2. CASE pc[x] = "typing"
  BY <1>1, <1>2 DEF EchoInv, TalkInv
<1>3. CASE pc[x] = "waiting"
  <2>1. PICK t \in Seq(Bytes) : UnderWay(x, t)
    BY <1>1, <1>3 DEF EchoInv, TalkInv
  <2>2. UnderWay(x, t)'
    BY <2>1 DEF UnderWay
  <2> QED BY <1>3, <2>2
<1> QED BY <1>1, <1>2, <1>3 DEF Conn

(* The queue stays as it is, and so do those who wait in it.               *)
LEMMA QueueStays ==
    ASSUME LineUp, UNCHANGED <<running, serving, queue>>,
           \A x \in Clients : /\ pc[x] # "start" => pc'[x] # "start"
                              /\ Conn(x)' => Conn(x),
           EchoTypes
    PROVE  LineUp'
<1>1. \A k \in 1..Len(queue) : queue[k] \in Clients
  BY ElementOfSeq DEF EchoTypes
<1>2. serving # Nobody => serving \in Clients
  BY DEF EchoTypes
<1> QED BY <1>1, <1>2 DEF LineUp

-----------------------------------------------------------------------------
(* One lemma per action.                                                   *)
LEMMA ConnectEcho ==
    ASSUME E!EchoAssumption, EchoInv, NEW x \in Clients, E!Connect(x) PROVE EchoInv'
<1>0. EchoTypes /\ StartInv /\ TalkInv /\ LineUp
  BY DEF EchoInv
<1>1. /\ pc[x] = "start"
      /\ UNCHANGED <<stdin, buf, up, down, gone, cut, running, serving, sent, echoed, printed>>
      /\ IF running THEN pc' = [pc EXCEPT ![x] = "typing"] /\ queue' = Append(queue, x)
                    ELSE pc' = [pc EXCEPT ![x] = "done"] /\ queue' = queue
  BY DEF E!Connect, E!conn
<1>2. queue \in Seq(Clients) /\ queue' \in Seq(Clients)
  <2>1. queue \in Seq(Clients)
    BY <1>0 DEF EchoTypes
  <2>2. Append(queue, x) \in Seq(Clients)
    BY <2>1, AppendProperties
  <2> QED BY <1>1, <2>1, <2>2
<1>3. EchoTypes'
  BY <1>0, <1>1, <1>2 DEF EchoTypes
<1>4. \A y \in Clients : y # x => pc'[y] = pc[y]
  BY <1>0, <1>1 DEF EchoTypes
<1>5. pc'[x] = IF running THEN "typing" ELSE "done"
  BY <1>0, <1>1 DEF EchoTypes
<1>6. StartInv'
  BY <1>0, <1>1, <1>4, <1>5 DEF StartInv
<1>7. TalkInv'
  <2>1. ASSUME NEW y \in Clients, Conn(y)', y # x
        PROVE  /\ pc'[y] = "typing" => /\ up'[y] = <<>> /\ down'[y] = <<>>
                                       /\ printed'[y] = sent'[y] /\ echoed'[y] = sent'[y]
               /\ pc'[y] = "waiting" => \E t \in Seq(Bytes) : UnderWay(y, t)'
    BY <1>1, <1>4, <2>1, TalkStays
  <2>2. Conn(x)' => /\ pc'[x] = "typing" /\ up'[x] = <<>> /\ down'[x] = <<>>
                    /\ printed'[x] = sent'[x] /\ echoed'[x] = sent'[x]
    BY <1>0, <1>1, <1>5 DEF StartInv, Conn
  <2> QED BY <2>1, <2>2 DEF TalkInv
<1>8. LineUp'
  <2>1. CASE ~running
    BY <1>0, <1>1, <2>1 DEF LineUp
  <2>2. CASE running
    <3>1. /\ Len(queue) \in Nat /\ Len(queue') = Len(queue) + 1 /\ queue'[Len(queue) + 1] = x
          /\ \A k \in 1..Len(queue) : queue'[k] = queue[k]
      <4>1. queue' = Append(queue, x)
        BY <1>1, <2>2
      <4>2. Len(queue) \in Nat
        BY <1>2, LenProperties
      <4>3. /\ Len(Append(queue, x)) = Len(queue) + 1 /\ Append(queue, x)[Len(queue) + 1] = x
            /\ \A k \in 1..Len(queue) : Append(queue, x)[k] = queue[k]
        BY <1>2, AppendProperties
      <4> QED BY <4>1, <4>2, <4>3
    <3>2. \A k \in 1..Len(queue) : queue[k] \in Clients /\ pc[queue[k]] # "start"
                                   /\ queue[k] # serving /\ queue[k] # x
      BY <1>0, <1>1, <2>2, ElementOfSeq, ZenonT(40) DEF EchoTypes, LineUp
    <3>3. x # serving
      BY <1>0, <1>1, <2>2 DEF LineUp, E!EchoAssumption
    <3>4. \A k \in 1..Len(queue') : pc'[queue'[k]] # "start" /\ queue'[k] # serving'
      <4>1. ASSUME NEW k \in 1..Len(queue') PROVE pc'[queue'[k]] # "start" /\ queue'[k] # serving'
        <5>1. CASE k = Len(queue) + 1
          BY <1>1, <1>5, <3>1, <3>3, <5>1
        <5>2. CASE k # Len(queue) + 1
          <6>1. k \in 1..Len(queue)
            BY <3>1, <5>2
          <6> QED BY <1>1, <1>4, <3>1, <3>2, <6>1
        <5> QED BY <5>1, <5>2
      <4> QED BY <4>1
    <3>5. ASSUME NEW k \in 1..Len(queue'), NEW m \in 1..Len(queue'), queue'[k] = queue'[m]
          PROVE  k = m
      BY <1>0, <2>2, <3>1, <3>2, <3>5 DEF LineUp
    <3>6. ASSUME NEW y \in Clients, Conn(y)'
          PROVE  serving' = y \/ \E k \in 1..Len(queue') : queue'[k] = y
      <4>1. CASE y = x
        <5>1. Len(queue) + 1 \in 1..Len(queue')
          BY <3>1
        <5> QED BY <3>1, <4>1, <5>1
      <4>2. CASE y # x
        <5>1. Conn(y)
          BY <1>1, <1>4, <3>6, <4>2 DEF Conn
        <5>2. serving = y \/ \E k \in 1..Len(queue) : queue[k] = y
          BY <1>0, <2>2, <5>1 DEF LineUp
        <5>3. 1..Len(queue) \subseteq 1..Len(queue')
          BY <3>1
        <5> QED BY <1>1, <3>1, <5>2, <5>3
      <4> QED BY <4>1, <4>2
    <3>7. serving' # Nobody => pc'[serving'] # "start"
      BY <1>0, <1>1, <1>4, <2>2, <3>3 DEF LineUp, EchoTypes
    <3> QED BY <1>1, <2>2, <3>4, <3>5, <3>6, <3>7 DEF LineUp
  <2> QED BY <2>1, <2>2
<1> QED BY <1>3, <1>6, <1>7, <1>8 DEF EchoInv

LEMMA TypeEcho ==
    ASSUME EchoInv, NEW x \in Clients, E!Type(x) PROVE EchoInv'
<1>0. EchoTypes /\ StartInv /\ TalkInv /\ LineUp
  BY DEF EchoInv
<1>1. PICK l \in E!NextLine(stdin[x], TRUE) :
        /\ stdin' = [stdin EXCEPT ![x] = E!Without(stdin[x], Len(l))]
        /\ buf' = [buf EXCEPT ![x] = l]
        /\ sent' = [sent EXCEPT ![x] = sent[x] \o E!Outgoing(l)]
        /\ up' = IF cut[x] = "no" THEN [up EXCEPT ![x] = up[x] \o E!Outgoing(l)] ELSE up
  BY DEF E!Type
<1>2. PICK o : o = E!Outgoing(l)
  OBVIOUS
<1>3. /\ pc[x] = "typing" /\ UNCHANGED <<down, gone, running, serving, queue, echoed, printed>>
      /\ IF cut[x] \in {"broken", "rst"}
         THEN pc' = [pc EXCEPT ![x] = "done"] /\ cut' = cut
         ELSE /\ pc' = [pc EXCEPT ![x] = "waiting"]
              /\ \/ cut' = cut
                 \/ cut[x] = "fin" /\ cut' = [cut EXCEPT ![x] = "broken"]
  BY DEF E!Type, E!server
<1>4. stdin[x] \in Seq(Bytes) /\ sent[x] \in Seq(Bytes) /\ up[x] \in Seq(Bytes)
  BY <1>0 DEF EchoTypes
<1>5. l \in Seq(Bytes) /\ E!Without(stdin[x], Len(l)) \in Seq(Bytes)
  BY <1>4, NextLineIs
<1>6. o \in Seq(Bytes) /\ OneLine(o)
  BY <1>2, <1>4, OutgoingIs
<1>7. sent[x] \o o \in Seq(Bytes) /\ up[x] \o o \in Seq(Bytes)
  BY <1>4, <1>6, ConcatProperties
<1>8. EchoTypes'
  BY <1>0, <1>1, <1>2, <1>3, <1>5, <1>7 DEF EchoTypes
<1>9. /\ \A y \in Clients : y # x =>
            UNCHANGED <<pc[y], cut[y], up[y], down[y], sent[y], echoed[y], printed[y]>>
      /\ pc'[x] \in {"waiting", "done"} /\ sent'[x] = sent[x] \o o
      /\ cut[x] = "no" => cut'[x] = "no" /\ up'[x] = up[x] \o o
      /\ cut[x] # "no" => cut'[x] # "no"
  BY <1>0, <1>1, <1>2, <1>3 DEF EchoTypes
<1>10. StartInv'
  BY <1>0, <1>3, <1>9 DEF StartInv
<1>11. TalkInv'
  <2>1. ASSUME NEW y \in Clients, Conn(y)', y # x
        PROVE  /\ pc'[y] = "typing" => /\ up'[y] = <<>> /\ down'[y] = <<>>
                                       /\ printed'[y] = sent'[y] /\ echoed'[y] = sent'[y]
               /\ pc'[y] = "waiting" => \E t \in Seq(Bytes) : UnderWay(y, t)'
    BY <1>9, <2>1, TalkStays
  <2>2. ASSUME Conn(x)' PROVE pc'[x] = "waiting" /\ UnderWay(x, o)'
    <3>1. Conn(x) /\ pc'[x] = "waiting" /\ cut[x] = "no"
      BY <1>3, <1>9, <2>2 DEF Conn
    <3>2. up[x] = <<>> /\ down[x] = <<>> /\ printed[x] = sent[x] /\ echoed[x] = sent[x]
      BY <1>0, <1>3, <3>1 DEF TalkInv
    <3>3. up'[x] = o
      BY <1>6, <1>9, <3>1, <3>2, ConcatEmptySeq
    <3> QED BY <1>3, <1>6, <1>9, <3>1, <3>2, <3>3 DEF UnderWay
  <2> QED BY <1>6, <2>1, <2>2 DEF TalkInv
<1>12. LineUp'
  <2>1. \A y \in Clients : (pc[y] # "start" => pc'[y] # "start") /\ (Conn(y)' => Conn(y))
    BY <1>3, <1>9 DEF Conn
  <2> QED BY <1>0, <1>3, <2>1, QueueStays
<1> QED BY <1>8, <1>10, <1>11, <1>12 DEF EchoInv

LEMMA ReceiveEcho ==
    ASSUME EchoInv, NEW x \in Clients, E!Receive(x) PROVE EchoInv'
<1>0. EchoTypes /\ StartInv /\ TalkInv /\ LineUp
  BY DEF EchoInv
<1>1. PICK l \in E!NextLine(down[x], cut[x] \in {"fin", "broken"}) :
        /\ down' = [down EXCEPT ![x] = E!Without(down[x], Len(l))]
        /\ buf' = [buf EXCEPT ![x] = IF l = <<>> THEN buf[x] ELSE l]
        /\ printed' = [printed EXCEPT ![x] = printed[x] \o E!String(buf'[x])]
  BY DEF E!Receive
<1>2. /\ pc[x] = "waiting" /\ pc' = [pc EXCEPT ![x] = "typing"]
      /\ UNCHANGED <<stdin, up, gone, cut, running, serving, queue, sent, echoed>>
  BY DEF E!Receive, E!server, E!conn
<1>3. down[x] \in Seq(Bytes) /\ buf[x] \in Seq(Bytes) /\ printed[x] \in Seq(Bytes)
  BY <1>0 DEF EchoTypes
<1>4. l \in Seq(Bytes) /\ E!Without(down[x], Len(l)) \in Seq(Bytes)
  <2>1. (cut[x] \in {"fin", "broken"}) \in BOOLEAN
    OBVIOUS
  <2> QED BY <1>3, <2>1, NextLineIs
<1>5. PICK b \in Seq(Bytes) : b = (IF l = <<>> THEN buf[x] ELSE l) /\ buf' = [buf EXCEPT ![x] = b]
  BY <1>1, <1>3, <1>4
<1>6. buf'[x] = b
  BY <1>0, <1>5 DEF EchoTypes
<1>7. PICK o \in Seq(Bytes) : o = E!String(b) /\ printed' = [printed EXCEPT ![x] = printed[x] \o o]
  BY <1>1, <1>6, StringIs
<1>8. printed[x] \o o \in Seq(Bytes)
  BY <1>3, ConcatProperties
<1>9. EchoTypes'
  <2>1. down' \in [Clients -> Seq(Bytes)]
    BY <1>0, <1>1, <1>4 DEF EchoTypes
  <2>2. printed' \in [Clients -> Seq(Bytes)] /\ buf' \in [Clients -> Seq(Bytes)]
    BY <1>0, <1>5, <1>7, <1>8 DEF EchoTypes
  <2> QED BY <1>0, <1>2, <2>1, <2>2 DEF EchoTypes
<1>10. /\ \A y \in Clients : y # x =>
             UNCHANGED <<pc[y], cut[y], up[y], down[y], sent[y], echoed[y], printed[y]>>
       /\ pc'[x] = "typing" /\ printed'[x] = printed[x] \o o
       /\ down'[x] = E!Without(down[x], Len(l))
  BY <1>0, <1>1, <1>2, <1>7 DEF EchoTypes
<1>11. StartInv'
  BY <1>0, <1>2, <1>10 DEF StartInv
<1>12. TalkInv'
  <2>1. ASSUME NEW y \in Clients, Conn(y)', y # x
        PROVE  /\ pc'[y] = "typing" => /\ up'[y] = <<>> /\ down'[y] = <<>>
                                       /\ printed'[y] = sent'[y] /\ echoed'[y] = sent'[y]
               /\ pc'[y] = "waiting" => \E t \in Seq(Bytes) : UnderWay(y, t)'
    BY <1>10, <2>1, TalkStays
  <2>2. ASSUME Conn(x)'
        PROVE  /\ up'[x] = <<>> /\ down'[x] = <<>>
               /\ printed'[x] = sent'[x] /\ echoed'[x] = sent'[x]
    <3>1. Conn(x) /\ cut[x] = "no"
      BY <1>2, <2>2 DEF Conn
    <3>2. PICK t \in Seq(Bytes) : UnderWay(x, t)
      BY <1>0, <1>2, <3>1 DEF TalkInv
    <3>3. l \in E!NextLine(down[x], FALSE)
      <4>1. (cut[x] \in {"fin", "broken"}) = FALSE
        BY <3>1
      <4> QED BY <1>1, <4>1, Zenon
    <3>4. down[x] = t /\ up[x] = <<>> /\ echoed[x] = sent[x]
      <4>1. down[x] # <<>>
        BY <3>3, NoLine
      <4> QED BY <3>2, <4>1 DEF UnderWay
    <3>5. l = t /\ E!String(l) = t /\ l # <<>> /\ E!Without(t, Len(l)) = <<>>
      <4>1. OneLine(t) /\ l \in E!NextLine(t, FALSE)
        BY <3>2, <3>3, <3>4 DEF UnderWay
      <4> QED BY <4>1, WholeLine
    <3>6. o = t
      BY <1>5, <1>7, <3>5
    <3> QED BY <1>2, <1>10, <3>2, <3>4, <3>5, <3>6 DEF UnderWay
  <2> QED BY <1>10, <2>1, <2>2 DEF TalkInv
<1>13. LineUp'
  <2>1. \A y \in Clients : (pc[y] # "start" => pc'[y] # "start") /\ (Conn(y)' => Conn(y))
    BY <1>2, <1>10 DEF Conn
  <2> QED BY <1>0, <1>2, <2>1, QueueStays
<1> QED BY <1>9, <1>11, <1>12, <1>13 DEF EchoInv

LEMMA EndEcho ==
    ASSUME EchoInv, NEW x \in Clients, E!ReceiveFails(x) \/ E!Finish(x) \/ E!Interrupt(x)
    PROVE  EchoInv'
<1>0. EchoTypes /\ StartInv /\ TalkInv /\ LineUp
  BY DEF EchoInv
<1>1. /\ pc' = [pc EXCEPT ![x] = "done"]
      /\ UNCHANGED <<stdin, buf, up, down, cut, running, serving, queue, sent, echoed, printed>>
      /\ \E g \in {"no", "fin", "rst"} : gone' = [gone EXCEPT ![x] = g]
  <2>1. CASE E!ReceiveFails(x)
    <3>1. gone' = [gone EXCEPT ![x] = gone[x]] /\ gone[x] \in {"no", "fin", "rst"}
      BY <1>0, <2>1 DEF E!ReceiveFails, E!conn, EchoTypes
    <3> QED BY <2>1, <3>1 DEF E!ReceiveFails, E!conn, E!server
  <2>2. CASE E!Finish(x) \/ E!Interrupt(x)
    BY <2>2 DEF E!Finish, E!Interrupt, E!Leave, E!server
  <2> QED BY <2>1, <2>2
<1>2. EchoTypes'
  BY <1>0, <1>1 DEF EchoTypes
<1>3. /\ pc'[x] = "done"
      /\ \A y \in Clients : y # x => pc'[y] = pc[y] /\ gone'[y] = gone[y]
  BY <1>0, <1>1 DEF EchoTypes
<1>4. StartInv'
  BY <1>0, <1>1, <1>3 DEF StartInv
<1>5. TalkInv'
  <2>1. ASSUME NEW y \in Clients, Conn(y)'
        PROVE  /\ pc'[y] = "typing" => /\ up'[y] = <<>> /\ down'[y] = <<>>
                                       /\ printed'[y] = sent'[y] /\ echoed'[y] = sent'[y]
               /\ pc'[y] = "waiting" => \E t \in Seq(Bytes) : UnderWay(y, t)'
    <3>1. y # x
      BY <1>3, <2>1 DEF Conn
    <3> QED BY <1>1, <1>3, <2>1, <3>1, TalkStays
  <2> QED BY <2>1 DEF TalkInv
<1>6. LineUp'
  <2>1. \A y \in Clients : (pc[y] # "start" => pc'[y] # "start") /\ (Conn(y)' => Conn(y))
    BY <1>1, <1>3 DEF Conn
  <2> QED BY <1>0, <1>1, <2>1, QueueStays
<1> QED BY <1>2, <1>4, <1>5, <1>6 DEF EchoInv

LEMMA AcceptEcho ==
    ASSUME E!EchoAssumption, EchoInv, E!Accept PROVE EchoInv'
<1>0. EchoTypes /\ StartInv /\ TalkInv /\ LineUp
  BY DEF EchoInv
<1>1. /\ running /\ serving = Nobody /\ queue # <<>> /\ serving' = Head(queue) /\ queue' = Tail(queue)
      /\ UNCHANGED <<pc, stdin, buf, up, down, gone, cut, running, sent, echoed, printed>>
  BY DEF E!Accept, E!conn
<1>2. queue \in Seq(Clients) /\ Len(queue) \in Nat \ {0}
  BY <1>0, <1>1, EmptySeq DEF EchoTypes
<1>3. /\ serving' = queue[1] /\ serving' \in Clients /\ queue' \in Seq(Clients)
      /\ Len(queue') = Len(queue) - 1
      /\ \A k \in 1..Len(queue') : queue'[k] = queue[k + 1]
  <2>1. Head(queue) = queue[1]
    BY <1>1, <1>2
  <2>2. /\ Head(queue) \in Clients /\ Tail(queue) \in Seq(Clients)
        /\ Len(Tail(queue)) = Len(queue) - 1
        /\ \A k \in 1..Len(Tail(queue)) : Tail(queue)[k] = queue[k + 1]
    BY <1>1, <1>2, HeadTailProperties
  <2> QED BY <1>1, <2>1, <2>2
<1>4. EchoTypes'
  BY <1>0, <1>1, <1>3 DEF EchoTypes
<1>5. StartInv'
  BY <1>0, <1>1 DEF StartInv
<1>6. TalkInv'
  BY <1>0, <1>1, TalkStays DEF TalkInv, EchoInv
<1>7. LineUp'
  <2>1. /\ \A k \in 1..Len(queue) : pc[queue[k]] # "start"
        /\ \A k, m \in 1..Len(queue) : queue[k] = queue[m] => k = m
        /\ \A y \in Clients : Conn(y) => \E k \in 1..Len(queue) : queue[k] = y
    BY <1>0, <1>1 DEF LineUp, E!EchoAssumption
  <2>2. \A k \in 1..Len(queue') : k + 1 \in 1..Len(queue) /\ k + 1 # 1
    BY <1>2, <1>3
  <2>3. 1 \in 1..Len(queue)
    BY <1>2
  <2>4. \A k \in 1..Len(queue') : pc'[queue'[k]] # "start" /\ queue'[k] # serving'
    BY <1>1, <1>3, <2>1, <2>2, <2>3
  <2>5. ASSUME NEW k \in 1..Len(queue'), NEW m \in 1..Len(queue'), queue'[k] = queue'[m]
        PROVE  k = m
    <3>1. k + 1 = m + 1
      BY <1>3, <2>1, <2>2, <2>5
    <3> QED BY <3>1
  <2>6. ASSUME NEW y \in Clients, Conn(y)'
        PROVE  serving' = y \/ \E k \in 1..Len(queue') : queue'[k] = y
    <3>1. Conn(y)
      BY <1>1, <2>6 DEF Conn
    <3>2. PICK k \in 1..Len(queue) : queue[k] = y
      BY <2>1, <3>1
    <3>3. CASE k = 1
      BY <1>3, <3>2, <3>3
    <3>4. CASE k # 1
      <4>1. PICK m \in 1..Len(queue') : m + 1 = k
        <5>1. k - 1 \in 1..Len(queue') /\ (k - 1) + 1 = k
          BY <1>2, <1>3, <3>4
        <5> QED BY <5>1
      <4> QED BY <1>3, <3>2, <4>1
    <3> QED BY <3>3, <3>4
  <2>7. pc'[serving'] # "start"
    BY <1>1, <1>3, <2>1, <2>3
  <2> QED BY <1>1, <2>4, <2>5, <2>6, <2>7 DEF LineUp
<1> QED BY <1>4, <1>5, <1>6, <1>7 DEF EchoInv

LEMMA EchoLineEcho ==
    ASSUME EchoInv, E!EchoLine PROVE EchoInv'
<1>0. EchoTypes /\ StartInv /\ TalkInv /\ LineUp
  BY DEF EchoInv
<1>1. PICK x : x = serving
  OBVIOUS
<1>2. x \in Clients /\ serving # Nobody
  BY <1>0, <1>1 DEF E!EchoLine, EchoTypes
<1>3. PICK l \in E!NextLine(up[x], gone[x] = "fin") :
        /\ l # <<>>
        /\ up' = [up EXCEPT ![x] = E!Without(up[x], Len(l))]
        /\ echoed' = [echoed EXCEPT ![x] = echoed[x] \o l]
        /\ down' = IF gone[x] = "no" THEN [down EXCEPT ![x] = down[x] \o l] ELSE down
  BY <1>1 DEF E!EchoLine
<1>4. UNCHANGED <<pc, stdin, buf, gone, cut, running, serving, queue, sent, printed>>
  BY DEF E!EchoLine, E!conn, E!server
<1>5. up[x] \in Seq(Bytes) /\ echoed[x] \in Seq(Bytes) /\ down[x] \in Seq(Bytes)
  BY <1>0, <1>2 DEF EchoTypes
<1>6. l \in Seq(Bytes) /\ E!Without(up[x], Len(l)) \in Seq(Bytes)
  <2>1. (gone[x] = "fin") \in BOOLEAN
    OBVIOUS
  <2> QED BY <1>5, <2>1, NextLineIs
<1>7. echoed[x] \o l \in Seq(Bytes) /\ down[x] \o l \in Seq(Bytes)
  BY <1>5, <1>6, ConcatProperties
<1>8. EchoTypes'
  <2>1. up' \in [Clients -> Seq(Bytes)]
    BY <1>0, <1>3, <1>6 DEF EchoTypes
  <2>2. echoed' \in [Clients -> Seq(Bytes)] /\ down' \in [Clients -> Seq(Bytes)]
    BY <1>0, <1>3, <1>7 DEF EchoTypes
  <2> QED BY <1>0, <1>4, <2>1, <2>2 DEF EchoTypes
<1>9. /\ \A y \in Clients : y # x =>
            UNCHANGED <<pc[y], cut[y], up[y], down[y], sent[y], echoed[y], printed[y]>>
      /\ up'[x] = E!Without(up[x], Len(l)) /\ echoed'[x] = echoed[x] \o l
      /\ gone[x] = "no" => down'[x] = down[x] \o l
  BY <1>0, <1>2, <1>3, <1>4 DEF EchoTypes
<1>10. StartInv'
  <2>1. pc[x] # "start"
    BY <1>0, <1>1, <1>2 DEF LineUp
  <2> QED BY <1>0, <1>4, <1>9, <2>1 DEF StartInv
<1>11. TalkInv'
  <2>1. ASSUME NEW y \in Clients, Conn(y)', y # x
        PROVE  /\ pc'[y] = "typing" => /\ up'[y] = <<>> /\ down'[y] = <<>>
                                       /\ printed'[y] = sent'[y] /\ echoed'[y] = sent'[y]
               /\ pc'[y] = "waiting" => \E t \in Seq(Bytes) : UnderWay(y, t)'
    BY <1>9, <2>1, TalkStays
  <2>2. ASSUME Conn(x)'
        PROVE  pc'[x] = "waiting" /\ \E t \in Seq(Bytes) : UnderWay(x, t)'
    <3>1. Conn(x) /\ gone[x] = "no"
      BY <1>0, <1>2, <1>4, <2>2 DEF Conn, StartInv
    <3>2. l \in E!NextLine(up[x], FALSE)
      <4>1. (gone[x] = "fin") = FALSE
        BY <3>1
      <4> QED BY <1>3, <4>1, Zenon
    <3>3. up[x] # <<>>
      BY <3>2, NoLine
    <3>4. pc[x] = "waiting"
      BY <1>0, <1>2, <3>1, <3>3 DEF TalkInv, Conn
    <3>5. PICK t \in Seq(Bytes) : UnderWay(x, t)
      BY <1>0, <1>2, <3>1, <3>4 DEF TalkInv
    <3>6. up[x] = t /\ down[x] = <<>> /\ echoed[x] = printed[x] /\ OneLine(t) /\ sent[x] = printed[x] \o t
      BY <3>3, <3>5 DEF UnderWay
    <3>7. l = t /\ E!Without(t, Len(l)) = <<>>
      <4>1. l \in E!NextLine(t, FALSE)
        BY <3>2, <3>6
      <4> QED BY <3>6, <4>1, WholeLine
    <3>8. down'[x] = t
      BY <1>6, <1>9, <3>1, <3>6, <3>7, ConcatEmptySeq
    <3>9. UnderWay(x, t)'
      BY <1>4, <1>9, <3>6, <3>7, <3>8 DEF UnderWay
    <3> QED BY <1>4, <3>4, <3>9
  <2> QED BY <2>1, <2>2 DEF TalkInv
<1>12. LineUp'
  <2>1. \A y \in Clients : (pc[y] # "start" => pc'[y] # "start") /\ (Conn(y)' => Conn(y))
    BY <1>4 DEF Conn
  <2> QED BY <1>0, <1>4, <2>1, QueueStays
<1> QED BY <1>8, <1>10, <1>11, <1>12 DEF EchoInv

LEMMA EchoEndsEcho ==
    ASSUME EchoInv, E!EchoEnds PROVE EchoInv'
<1>0. EchoTypes /\ StartInv /\ TalkInv /\ LineUp
  BY DEF EchoInv
<1>1. /\ serving # Nobody /\ gone[serving] = "fin" /\ serving' = Nobody
      /\ UNCHANGED <<pc, stdin, buf, up, down, gone, cut, running, queue, sent, echoed, printed>>
  BY DEF E!EchoEnds, E!conn
<1>2. serving \in Clients /\ pc[serving] = "done"
  BY <1>0, <1>1 DEF EchoTypes, StartInv
<1>3. EchoTypes'
  BY <1>0, <1>1 DEF EchoTypes
<1>4. StartInv'
  BY <1>0, <1>1 DEF StartInv
<1>5. TalkInv'
  BY <1>0, <1>1, TalkStays DEF TalkInv, EchoInv
<1>6. LineUp'
  <2>1. \A y \in Clients : Conn(y)' => Conn(y) /\ y # serving
    BY <1>1, <1>2 DEF Conn
  <2>2. running /\ \A k \in 1..Len(queue) : queue[k] # Nobody
    <3>1. running
      BY <1>0, <1>1 DEF LineUp
    <3>2. \A k \in 1..Len(queue) : queue[k] \in Clients
      BY <1>0, ElementOfSeq DEF EchoTypes
    <3> QED BY <3>1, <3>2, Assumptions DEF E!EchoAssumption
  <2> QED BY <1>0, <1>1, <2>1, <2>2 DEF LineUp
<1> QED BY <1>3, <1>4, <1>5, <1>6 DEF EchoInv

LEMMA GoneEcho ==
    ASSUME EchoInv, E!ServerGone PROVE EchoInv'
<1>0. EchoTypes /\ StartInv /\ TalkInv /\ LineUp
  BY DEF EchoInv
<1>1. PICK how \in {"fin", "rst"} :
        cut' = [y \in Clients |-> CASE y = serving -> how
                                    [] \E k \in 1..Len(queue) : queue[k] = y -> "rst"
                                    [] OTHER -> cut[y]]
  BY DEF E!ServerGone
<1>2. /\ running' = FALSE /\ serving' = Nobody /\ queue' = <<>>
      /\ UNCHANGED <<pc, stdin, buf, up, down, gone, sent, echoed, printed>>
  BY DEF E!ServerGone
<1>3. \A y \in Clients :
         /\ cut'[y] \in {how, "rst", cut[y]}
         /\ cut'[y] # cut[y] => y = serving \/ \E k \in 1..Len(queue) : queue[k] = y
  BY <1>1
<1>4. EchoTypes'
  <2>1. cut' \in [Clients -> {"no", "fin", "broken", "rst"}]
    BY <1>0, <1>1, <1>3 DEF EchoTypes
  <2>2. <<>> \in Seq(Clients)
    BY EmptySeq
  <2> QED BY <1>0, <1>2, <2>1, <2>2 DEF EchoTypes
<1>5. \A y \in Clients : pc[y] = "start" => cut'[y] = cut[y]
  <2>1. CASE running
    BY <1>0, <1>3, <2>1, Assumptions DEF LineUp, E!EchoAssumption
  <2>2. CASE ~running
    <3>1. serving = Nobody /\ Len(queue) = 0
      BY <1>0, <2>2 DEF LineUp
    <3> QED BY <1>3, <3>1, Assumptions DEF E!EchoAssumption
  <2> QED BY <2>1, <2>2
<1>6. StartInv'
  BY <1>0, <1>2, <1>5 DEF StartInv
<1>7. TalkInv'
  <2>1. ASSUME NEW y \in Clients, Conn(y)' PROVE cut'[y] = cut[y]
    BY <1>3, <2>1 DEF Conn
  <2> QED BY <1>0, <1>2, <2>1, TalkStays DEF TalkInv, EchoInv
<1>8. LineUp'
  BY <1>2 DEF LineUp
<1> QED BY <1>4, <1>6, <1>7, <1>8 DEF EchoInv

LEMMA EchoStep ==
    ASSUME E!EchoAssumption, EchoInv, [E!Next]_(E!vars) PROVE EchoInv'
<1>1. ASSUME NEW x \in Clients, E!ClientStep(x) \/ E!Interrupt(x) PROVE EchoInv'
  BY <1>1, ConnectEcho, TypeEcho, ReceiveEcho, EndEcho, Zenon DEF E!ClientStep
<1>2. CASE E!ServerStep \/ E!Stop
  BY <1>2, AcceptEcho, EchoLineEcho, EchoEndsEcho, GoneEcho, Zenon
     DEF E!ServerStep, E!EchoFails, E!Stop
<1>3. CASE UNCHANGED E!vars
  <2>1. UNCHANGED <<pc, stdin, buf, up, down, gone, cut, running, serving, queue,
                    sent, echoed, printed>>
    BY <1>3 DEF E!vars, E!conn
  <2>2. EchoTypes' /\ StartInv'
    BY <2>1 DEF EchoInv, EchoTypes, StartInv
  <2>3. TalkInv'
    BY <2>1, TalkStays DEF TalkInv, EchoInv
  <2>4. LineUp'
    BY <2>1 DEF LineUp, Conn, EchoInv
  <2> QED BY <2>2, <2>3, <2>4 DEF EchoInv
<1> QED BY <1>1, <1>2, <1>3, Zenon DEF E!Next

LEMMA EchoIs == ASSUME EchoInv PROVE E!EchoIntact /\ E!QueueSound
<1>0. EchoTypes /\ TalkInv /\ LineUp
  BY DEF EchoInv
<1>1. E!EchoIntact
  <2>1. SUFFICES ASSUME NEW x \in Clients, Conn(x)
                 PROVE  /\ printed[x] \o down[x] = echoed[x] /\ echoed[x] \o up[x] = sent[x]
                        /\ pc[x] = "typing" => printed[x] = sent[x]
    BY DEF E!EchoIntact, E!Connected, Conn
  <2>2. printed[x] \in Seq(Bytes) /\ echoed[x] \in Seq(Bytes) /\ sent[x] \in Seq(Bytes)
    BY <1>0 DEF EchoTypes
  <2>3. CASE pc[x] = "typing"
    <3>1. /\ up[x] = <<>> /\ down[x] = <<>> /\ printed[x] = sent[x] /\ echoed[x] = sent[x]
      BY <1>0, <2>1, <2>3 DEF TalkInv
    <3> QED BY <2>2, <3>1, ConcatEmptySeq
  <2>4. CASE pc[x] = "waiting"
    <3>1. PICK t \in Seq(Bytes) : UnderWay(x, t)
      BY <1>0, <2>1, <2>4 DEF TalkInv
    <3>2. CASE up[x] = t /\ down[x] = <<>> /\ echoed[x] = printed[x]
      BY <2>2, <2>4, <3>1, <3>2, ConcatEmptySeq DEF UnderWay
    <3>3. CASE down[x] = t /\ up[x] = <<>> /\ echoed[x] = sent[x]
      BY <2>2, <2>4, <3>1, <3>3, ConcatEmptySeq DEF UnderWay
    <3> QED BY <3>1, <3>2, <3>3 DEF UnderWay
  <2> QED BY <2>1, <2>3, <2>4 DEF Conn
<1>2. E!QueueSound
  <2>1. SUFFICES ASSUME running, NEW x \in Clients
                 PROVE  /\ serving = x => ~E!Contains(queue, x)
                        /\ Conn(x) => serving = x \/ E!Contains(queue, x)
                        /\ E!Cardinality({k \in 1..Len(queue) : queue[k] = x}) <= 1
    BY Zenon DEF E!QueueSound, E!Connected, Conn
  <2>2. E!Contains(queue, x) <=> \E k \in 1..Len(queue) : queue[k] = x
    BY DEF E!Contains
  <2>3. E!Cardinality({k \in 1..Len(queue) : queue[k] = x}) <= 1
    <3> DEFINE N == {k \in 1..Len(queue) : queue[k] = x}
    <3>1. \A Q : E!Cardinality(Q) = Cardinality(Q)
      BY DEF E!Cardinality, Cardinality
    <3>2. \A k, m \in N : k = m
      BY <1>0, <2>1 DEF LineUp
    <3> HIDE DEF N
    <3>3. CASE N = {}
      <4>1. Cardinality(N) = 0
        BY <3>3, FS_EmptySet
      <4> QED BY <3>1, <4>1 DEF N
    <3>4. CASE N # {}
      <4>1. PICK k \in N : N = {k}
        BY <3>2, <3>4
      <4>2. Cardinality({k}) = 1
        BY FS_Singleton
      <4>3. E!Cardinality(N) <= 1
        BY <3>1, <4>1, <4>2
      <4> QED BY <4>3 DEF N
    <3> QED BY <3>3, <3>4
  <2> QED BY <1>0, <2>1, <2>2, <2>3 DEF LineUp
<1> QED BY <1>1, <1>2

(* echoclient.c and echoserveri.c: as long as a client and the server are  *)
(* connected, the bytes the client has printed and those on their way are  *)
(* the bytes it has sent, in order, and a client back at its prompt has    *)
(* seen everything; a connection belongs to one client, which is served or *)
(* queues, once: for any clients, texts and size of the line buffer.       *)
THEOREM EchoIsSound == ServersSpec => []EchoSound
<1> DEFINE Inv == system = "echo" => EchoInv
<1>0. E!EchoAssumption
  BY Assumptions
<1>1. AnyInit => Inv
  BY <1>0, EchoInit DEF AnyInit
<1>2. Inv /\ [ServersNext]_serversvars => Inv'
  <2> SUFFICES ASSUME Inv, [ServersNext]_serversvars, system' = "echo" PROVE EchoInv'
    OBVIOUS
  <2>1. system = "echo" /\ [E!Next]_(E!vars)
    <3>1. CASE EchoNext
      BY <3>1 DEF EchoNext
    <3>2. CASE TinyNext
      BY <3>2 DEF TinyNext
    <3>3. CASE ProxyNext
      BY <3>3 DEF ProxyNext
    <3>4. CASE UNCHANGED serversvars
      BY <3>4 DEF serversvars, vars, echo, E!vars, E!conn, E!server
    <3> QED BY <3>1, <3>2, <3>3, <3>4 DEF ServersNext
  <2> QED BY <1>0, <2>1, EchoStep
<1>3. Inv => EchoSound
  BY EchoIs DEF EchoSound
<1> QED BY <1>1, <1>2, <1>3, PTL DEF ServersSpec

-----------------------------------------------------------------------------
(* The inductive invariant of Tiny.  The response is, at each stage, what  *)
(* has been written so far and nothing else.                               *)
Pages == {"header", "open", "mmap", "body"}
Programs == {"fork", "wait"}
AfterHeaders == {"stat", "404", "403"} \union Pages \union Programs
TinyStages == {"accept", "request", "headers", "501", "close", "dead"} \union AfterHeaders
FileModes == T!Modes \union {"absent"}

ErrorSent(status, parts) == [T!NoResponse EXCEPT !.status = status, !.parts = parts]
HeaderSent(type, length) ==
    [T!NoResponse EXCEPT !.status = "200", !.type = type, !.length = length]
Output(result) == [T!NoResponse EXCEPT !.result = result]

TinyTypes ==
    /\ world \in DOMAIN Worlds
    /\ request \in [T!Browsers -> T!Sendable]
    /\ nsent \in [T!Browsers -> Nat] /\ nread \in [T!Browsers -> Nat]
    /\ hung \in [T!Browsers -> BOOLEAN] /\ closed \in [T!Browsers -> BOOLEAN]
    /\ DOMAIN resp = T!Browsers
    /\ pc \in TinyStages /\ alive = (pc # "dead") /\ left \in Nat /\ src \in Nat
    /\ sbuf \in [mode : FileModes, size : Nat] /\ changes \in Nat
    /\ files \in [DOMAIN T!InitialFiles -> [mode : FileModes, size : Nat]]
    /\ DOMAIN req = {"method", "uri", "header"}
    /\ \A c \in T!Browsers : nsent[c] <= Len(request[c])

TinyQueue ==
    /\ queue \in Seq(T!Browsers)
    /\ \A i, j \in 1..Len(queue) : i # j => queue[i] # queue[j]
    /\ \A i \in 1..Len(queue) :
          LET c == queue[i] IN c # serving /\ resp[c] = T!NoResponse /\ nread[c] = 0 /\ ~closed[c]
    /\ pc = "accept" => serving = Nobody
    /\ pc # "accept" => serving \in T!Browsers /\ ~closed[serving]

(* The request of the client being served, and how much of it is read.     *)
Wants(lines, r) == T!Asks(lines) => r.uri = T!Uri(lines) /\ lines[1].words[1] = "GET"
AllRead == hung[serving] \/ nread[serving] = Len(request[serving])
AskedInv ==
    /\ pc = "request" => nread[serving] = 0
    /\ pc = "501" => (T!Asks(request[serving]) => request[serving][1].words[1] # "GET")
    /\ pc \in {"headers"} \union AfterHeaders => Wants(request[serving], req)
    /\ pc \in AfterHeaders => AllRead
    /\ pc = "headers" => nread[serving] > 0

(* What has been written.                                                  *)
RespInv ==
    /\ pc \in {"request", "headers", "stat", "header", "fork"} => resp[serving] = T!NoResponse
    /\ pc \in {"headers", "stat"} => left = 4
    /\ pc \in T!Errors =>
          /\ left \in 1..4
          /\ resp[serving] = ErrorSent(IF left = 4 THEN "none" ELSE pc, 4 - left)
    /\ pc \in {"open", "mmap", "body"} =>
          resp[serving] = HeaderSent(T!FileType(T!FileName(req.uri)), sbuf.size)
    /\ child # "none" => pc = "wait"
    /\ pc = "wait" =>
          /\ child \in {"forked", "running", "exited"}
          /\ child # "exited" => resp[serving] = T!NoResponse
          /\ child = "exited" => resp[serving] \in {Output(<<>>), Output(<<"log">>),
                                                     Output(T!Adder(T!CgiArgs(req.uri)))}

(* What the server knows about the file, if no file has changed.           *)
Unreadable(uri) ==
    {"directory", "secret"} \union (IF T!IsStatic(uri) THEN {} ELSE {"page"})
Named == T!FileName(req.uri) \in DOMAIN T!InitialFiles
Unchanged == Named /\ sbuf = T!InitialFiles[T!FileName(req.uri)]
FileInv ==
    /\ changes = 0 => files = T!InitialFiles
    /\ pc = "404" => (changes = 0 => ~Named)
    /\ pc = "403" => (changes = 0 => Unchanged /\ sbuf.mode \in Unreadable(req.uri))
    /\ pc \in Pages => T!IsStatic(req.uri) /\ T!Regular(sbuf) /\ T!Readable(sbuf)
    /\ pc \in Programs => ~T!IsStatic(req.uri) /\ T!Executable(sbuf)
    /\ pc \in Pages \union Programs => (changes = 0 => Unchanged)
    /\ pc \in {"mmap", "body"} => (changes = 0 => src = sbuf.size)
    /\ pc = "wait" /\ changes = 0 =>
          /\ child = "running" => sbuf.mode \in {"program", "hanging"}
          /\ child = "exited" =>
                \/ sbuf.mode = "program" /\ resp[serving] = Output(T!Adder(T!CgiArgs(req.uri)))
                \/ sbuf.mode = "broken"

(* The answer to a client that has stayed, when all of it has been sent:   *)
(* it is complete, and right if no file has changed.                       *)
CompleteFor(c) ==
    \/ T!ErrorPage(resp[c])
    \/ T!FilePage(resp[c])
    \/ resp[c].status = "none" /\ resp[c].result # <<>>
    \/ resp[c] = T!NoResponse /\ nread[c] < Len(request[c])
    \/ resp[c] = T!NoResponse /\ (T!Asks(request[c]) => ~T!IsStatic(T!Uri(request[c])))
RightFor(c) ==
    T!Asks(request[c]) =>
        \/ T!Expected(request[c], resp[c])
        \/ request[c][1].words[1] # "GET" /\ resp[c] = T!NoResponse
SentInv ==
    pc = "close" /\ ~hung[serving] =>
        /\ CompleteFor(serving) /\ (changes = 0 => RightFor(serving))
        /\ \/ nread[serving] = Len(request[serving])
           \/ T!Asks(request[serving]) => request[serving][1].words[1] # "GET"
ClosedInv ==
    \A c \in T!Browsers : closed[c] /\ ~hung[c] => CompleteFor(c) /\ (changes = 0 => RightFor(c))
HasPercent(lines, n) == \E k \in 1..n : lines[k].kind = "percent"
DiedInv ==
    pc = "dead" => \/ hung[serving] \/ changes > 0 \/ (sbuf.mode # "absent" /\ sbuf.size = 0)
                   \/ HasPercent(request[serving], nread[serving]) \/ ~T!Fits(req.uri)

TinyInv ==
    /\ TinyTypes /\ TinyQueue /\ AskedInv /\ RespInv
    /\ FileInv /\ SentInv /\ ClosedInv /\ DiedInv
-----------------------------------------------------------------------------
(* What a URI names.                                                       *)
LEMMA LeastOf ==
    ASSUME NEW N, N \subseteq Nat, N # {}
    PROVE  T!Min(N) \in N /\ \A j \in N : T!Min(N) <= j
BY LeastExists DEF T!Min

(* The query mark among the words.                                         *)
Words == STRING \union {"?"}

LEMMA UriIs ==
    ASSUME NEW uri \in T!Uris
    PROVE  uri \in Seq(Words) /\ Len(uri) \in Nat /\ Len(uri) > 0
<1>1. uri \in Seq(STRING) /\ uri # <<>>
  BY DEF T!Uris
<1>2. uri \in Seq(Words)
  BY <1>1, SeqMonotonic DEF Words
<1> QED BY <1>1, <1>2, LenProperties, EmptySeq

(* The first "?" of a URI ends the name of the program.                    *)
LEMMA QueryIs ==
    ASSUME NEW uri \in T!Uris, ~T!IsStatic(uri), T!Contains(uri, "?")
    PROVE  \E k \in 1..Len(uri) :
              /\ uri[k] = "?" /\ \A j \in 1..(k - 1) : uri[j] # "?"
              /\ T!FileName(uri) = SubSeq(uri, 1, k - 1)
              /\ T!CgiArgs(uri) = SubSeq(uri, k + 1, Len(uri))
<1> DEFINE N == {i \in 1..Len(uri) : uri[i] = "?"}
<1>1. N \subseteq Nat /\ N # {}
  BY DEF T!Contains
<1>2. T!Min(N) \in N /\ \A j \in N : T!Min(N) <= j
  BY <1>1, LeastOf
<1>3. /\ T!FileName(uri) = SubSeq(uri, 1, T!Min(N) - 1)
      /\ T!CgiArgs(uri) = SubSeq(uri, T!Min(N) + 1, Len(uri))
  BY <1>1 DEF T!FileName, T!CgiArgs, T!SelectInSeq
<1>4. PICK k : k = T!Min(N)
  OBVIOUS
<1>5. k \in 1..Len(uri) /\ uri[k] = "?"
  BY <1>2, <1>4
<1>6. ASSUME NEW j \in 1..(k - 1) PROVE uri[j] # "?"
  BY <1>2, <1>4, <1>5, UriIs
<1> QED BY <1>3, <1>4, <1>5, <1>6

(* A file that is meant is the one the server looks for, and the rest of   *)
(* the URI is what a program gets.                                         *)
LEMMA MeantIsNamed ==
    ASSUME T!TinyAssumption, world \in DOMAIN Worlds, NEW uri \in T!Uris, NEW f \in T!Meant(uri)
    PROVE  /\ f \in DOMAIN T!InitialFiles /\ f = T!FileName(uri)
           /\ ~T!IsStatic(uri) => T!CgiArgs(uri) = SubSeq(uri, Len(f) + 2, Len(uri))
<1>1. /\ uri \in Seq(Words) /\ Len(uri) \in Nat /\ Len(uri) > 0
      /\ \A k \in 1..Len(uri) : uri[k] \in Words
  BY UriIs, ElementOfSeq
<1>2. f \in DOMAIN T!InitialFiles /\ T!IsName(f)
  BY DEF T!Meant, T!InitialFiles, T!TinyAssumption
<1>3. f \in Seq(Words) /\ Len(f) \in Nat /\ Len(f) > 0 /\ ~T!Contains(f, "?") /\ T!Last(f) # "/"
  BY <1>2, UriIs DEF T!IsName, T!Uris
<1>4. \/ f = uri
      \/ T!IsStatic(uri) /\ T!Last(uri) = "/" /\ f = uri \o <<"home", ".html">>
      \/ ~T!IsStatic(uri) /\ T!IsPrefix(Append(f, "?"), uri)
  BY DEF T!Meant
<1>5. CASE T!IsStatic(uri)
  BY <1>2, <1>3, <1>4, <1>5 DEF T!FileName
<1>6. CASE ~T!IsStatic(uri) /\ f = uri
  <2>1. SubSeq(uri, Len(uri) + 2, Len(uri)) = <<>>
    BY <1>1, SubSeqEmpty
  <2> QED BY <1>2, <1>3, <1>6, <2>1 DEF T!FileName, T!CgiArgs
<1>7. CASE ~T!IsStatic(uri) /\ T!IsPrefix(Append(f, "?"), uri)
  <2> DEFINE g == Append(f, "?")
  <2>1. /\ g \in Seq(Words) /\ Len(g) = Len(f) + 1 /\ g[Len(f) + 1] = "?"
        /\ \A i \in 1..Len(f) : g[i] = f[i]
    <3>1. "?" \in Words
      BY DEF Words
    <3> QED BY <1>3, <3>1, AppendProperties
  <2> HIDE DEF g
  <2>2. Len(g) <= Len(uri) /\ SubSeq(g, 1, Len(g)) = SubSeq(uri, 1, Len(g))
    BY <1>7 DEF T!IsPrefix, g
  <2>3. g = SubSeq(uri, 1, Len(g))
    BY <2>1, <2>2, SubSeqFull
  <2>4. \A i \in 1..Len(g) : g[i] = uri[i]
    <3>1. \A i \in 1..Len(g) : uri[i] \in Words
      BY <1>1, <1>3, <2>1, <2>2
    <3>2. \A i \in 1..(Len(g) - 1 + 1) : SubSeq(uri, 1, Len(g))[i] = uri[1 + i - 1]
      BY <1>3, <2>1, <3>1, SubSeqProperties
    <3> QED BY <1>3, <2>1, <2>3, <3>2
  <2>5. uri[Len(f) + 1] = "?" /\ Len(f) + 1 \in 1..Len(uri) /\ \A i \in 1..Len(f) : uri[i] = f[i]
    BY <1>1, <1>3, <2>1, <2>2, <2>4
  <2>6. T!Contains(uri, "?")
    BY <2>5 DEF T!Contains
  <2>7. PICK k \in 1..Len(uri) :
              /\ uri[k] = "?" /\ \A j \in 1..(k - 1) : uri[j] # "?"
              /\ T!FileName(uri) = SubSeq(uri, 1, k - 1)
              /\ T!CgiArgs(uri) = SubSeq(uri, k + 1, Len(uri))
    BY <1>7, <2>6, QueryIs
  <2>8. \A i \in 1..Len(f) : f[i] # "?"
    BY <1>3 DEF T!Contains
  <2>9. k = Len(f) + 1
    <3> DEFINE n == Len(f)
    <3>1. n \in Nat /\ k \in Nat
      BY <1>1, <1>3
    <3>2. ~(k \in 1..n)
      BY <2>5, <2>7, <2>8
    <3>3. ~(n + 1 \in 1..(k - 1))
      BY <2>5, <2>7
    <3> HIDE DEF n
    <3>4. k = n + 1
      BY <3>1, <3>2, <3>3
    <3> QED BY <3>4 DEF n
  <2>10. SubSeq(uri, 1, Len(f)) = f
    <3>1. \A i \in 1..Len(f) : uri[i] \in Words
      BY <1>1, <1>3, <2>5
    <3>2. /\ SubSeq(uri, 1, Len(f)) \in Seq(Words)
          /\ Len(SubSeq(uri, 1, Len(f))) = IF 1 <= Len(f) THEN Len(f) - 1 + 1 ELSE 0
          /\ \A i \in 1..(Len(f) - 1 + 1) : SubSeq(uri, 1, Len(f))[i] = uri[1 + i - 1]
      BY <1>3, <3>1, SubSeqProperties
    <3>3. \A i \in 1..Len(f) : SubSeq(uri, 1, Len(f))[i] = f[i]
      BY <1>3, <2>5, <3>2
    <3> QED BY <1>3, <3>2, <3>3, SeqEqual
  <2>11. k - 1 = Len(f) /\ k + 1 = Len(f) + 2
    BY <1>3, <2>9
  <2> QED BY <1>2, <2>7, <2>10, <2>11
<1> QED BY <1>4, <1>5, <1>6, <1>7

(* And the file the server looks for is meant.                             *)
LEMMA NamedIsMeant ==
    ASSUME NEW uri \in T!Uris, T!FileName(uri) \in DOMAIN T!InitialFiles
    PROVE  T!FileName(uri) \in T!Meant(uri)
<1>1. /\ uri \in Seq(Words) /\ Len(uri) \in Nat /\ Len(uri) > 0
      /\ \A k \in 1..Len(uri) : uri[k] \in Words
  BY UriIs, ElementOfSeq
<1>2. CASE T!IsStatic(uri) \/ ~T!Contains(uri, "?")
  BY <1>2 DEF T!FileName, T!Meant
<1>3. CASE ~T!IsStatic(uri) /\ T!Contains(uri, "?")
  <2>1. PICK k \in 1..Len(uri) : uri[k] = "?" /\ T!FileName(uri) = SubSeq(uri, 1, k - 1)
    BY <1>3, QueryIs
  <2> DEFINE f == SubSeq(uri, 1, k - 1)
             g == Append(f, "?")
             h == SubSeq(uri, 1, k)
  <2>2. /\ f \in Seq(Words) /\ Len(f) = k - 1 /\ \A i \in 1..(k - 1) : f[i] = uri[i]
    <3>1. \A i \in 1..(k - 1) : uri[i] \in Words
      BY <1>1
    <3>2. /\ f \in Seq(Words) /\ Len(f) = IF 1 <= k - 1 THEN (k - 1) - 1 + 1 ELSE 0
          /\ \A i \in 1..((k - 1) - 1 + 1) : f[i] = uri[1 + i - 1]
      BY <1>1, <3>1, SubSeqProperties
    <3> HIDE DEF f
    <3> QED BY <1>1, <3>2
  <2>3. /\ h \in Seq(Words) /\ Len(h) = k /\ \A i \in 1..k : h[i] = uri[i]
    <3>1. \A i \in 1..k : uri[i] \in Words
      BY <1>1
    <3>2. /\ h \in Seq(Words) /\ Len(h) = IF 1 <= k THEN k - 1 + 1 ELSE 0
          /\ \A i \in 1..(k - 1 + 1) : h[i] = uri[1 + i - 1]
      BY <1>1, <3>1, SubSeqProperties
    <3> HIDE DEF h
    <3> QED BY <1>1, <3>2
  <2> HIDE DEF f
  <2>4. /\ g \in Seq(Words) /\ Len(g) = Len(f) + 1 /\ g[Len(f) + 1] = "?"
        /\ \A i \in 1..Len(f) : g[i] = f[i]
    <3>1. "?" \in Words
      BY DEF Words
    <3> QED BY <2>2, <3>1, AppendProperties
  <2> HIDE DEF g, h
  <2>5. \A i \in 1..Len(g) : g[i] = h[i]
    BY <1>1, <2>1, <2>2, <2>3, <2>4
  <2>6. g = h /\ SubSeq(g, 1, Len(g)) = g /\ Len(g) = k
    BY <1>1, <2>2, <2>3, <2>4, <2>5, SeqEqual, SubSeqFull
  <2>7. T!IsPrefix(g, uri)
    BY <1>1, <2>6 DEF T!IsPrefix, h
  <2> QED BY <1>3, <2>1, <2>7 DEF T!Meant, f, g
<1> QED BY <1>2, <1>3

(* The type of a file goes by its extension, which is its last word.       *)
LEMMA TypeIs ==
    ASSUME T!TinyAssumption, world \in DOMAIN Worlds, NEW f \in DOMAIN T!InitialFiles
    PROVE  T!FileType(f) = T!TypeOf(T!Last(f))
<1> DEFINE ext == T!Last(f)
           N == {t \in 1..Len(T!Types) : T!Contains(f, T!Types[t][1])}
<1>1. T!IsName(f)
  BY DEF T!InitialFiles, T!TinyAssumption
<1>2. Len(f) \in Nat /\ Len(f) > 0 /\ ext = f[Len(f)]
  BY <1>1, UriIs DEF T!IsName, T!Last
<1>3. \A t \in 1..Len(T!Types) : T!Contains(f, T!Types[t][1]) <=> T!Types[t][1] = ext
  BY <1>1, <1>2 DEF T!IsName, T!Contains
<1>4. N = {t \in 1..Len(T!Types) : T!Types[t][1] = ext}
  BY <1>3
<1>5. T!FileType(f) = IF N = {} THEN "text/plain" ELSE T!Types[T!Min(N)][2]
  BY DEF T!FileType
<1>6. Len(T!Types) = 7 /\ DOMAIN T!Types = 1..7
  BY DEF T!Types
<1>7. T!Range(T!Types) = {T!Types[t] : t \in 1..7}
  BY <1>6 DEF T!Range
<1>8. \A t, u \in 1..7 : T!Types[t][1] = T!Types[u][1] => t = u
  BY DEF T!Types
<1> HIDE DEF ext
<1>9. CASE N = {}
  <2>1. \A t \in 1..7 : T!Types[t][1] # ext
    BY <1>4, <1>6, <1>9
  <2>2. ~\E t \in T!Range(T!Types) : t[1] = ext
    BY <1>7, <2>1
  <2>3. T!TypeOf(ext) = "text/plain"
    BY <2>2 DEF T!TypeOf
  <2> QED BY <1>5, <1>9, <2>3 DEF ext
<1>10. CASE N # {}
  <2>1. N \subseteq Nat
    OBVIOUS
  <2>2. PICK m : m = T!Min(N) /\ m \in N
    BY <1>10, <2>1, LeastOf
  <2>3. m \in 1..7 /\ T!Types[m][1] = ext
    BY <1>4, <1>6, <2>2
  <2>4. T!TypeOf(ext) = (CHOOSE t \in T!Range(T!Types) : t[1] = ext)[2]
    BY <1>7, <2>3 DEF T!TypeOf
  <2>5. (CHOOSE t \in T!Range(T!Types) : t[1] = ext) = T!Types[m]
    BY <1>7, <1>8, <2>3
  <2> QED BY <1>5, <1>10, <2>2, <2>4, <2>5 DEF ext
<1> QED BY <1>9, <1>10

LEMMA NothingMeant ==
    ASSUME T!TinyAssumption, world \in DOMAIN Worlds, NEW uri \in T!Uris,
           T!FileName(uri) \notin DOMAIN T!InitialFiles
    PROVE  T!Meant(uri) = {}
BY MeantIsNamed

LEMMA OneMeant ==
    ASSUME T!TinyAssumption, world \in DOMAIN Worlds, NEW uri \in T!Uris,
           T!FileName(uri) \in DOMAIN T!InitialFiles
    PROVE  T!Meant(uri) = {T!FileName(uri)}
BY MeantIsNamed, NamedIsMeant

(* The reference answer, for a file that exists, and one that does not.    *)
LEMMA ExpectNone ==
    ASSUME T!TinyAssumption, world \in DOMAIN Worlds, NEW lines, T!Uri(lines) \in T!Uris,
           T!FileName(T!Uri(lines)) \notin DOMAIN T!InitialFiles,
           NEW r, r.status = "404"
    PROVE  T!Expected(lines, r)
<1>1. PICK uri \in T!Uris : uri = T!Uri(lines)
  OBVIOUS
<1>2. T!Meant(uri) = {}
  BY <1>1, NothingMeant
<1> QED BY <1>1, <1>2 DEF T!Expected

Suits(uri, f, r) ==
    LET mode == T!InitialFiles[f].mode
    IN  \/ mode \in Unreadable(uri) /\ r.status = "403"
        \/ /\ T!IsStatic(uri) /\ mode \in {"page", "program", "broken", "hanging"}
           /\ r.status = "200" /\ r.type = T!FileType(f)
           /\ r.length = T!InitialFiles[f].size /\ r.zeros = 0
        \/ ~T!IsStatic(uri) /\ mode = "program" /\ r.result = T!Adder(T!CgiArgs(uri))
        \/ ~T!IsStatic(uri) /\ mode = "broken" /\ r.status = "none"

LEMMA ExpectFile ==
    ASSUME T!TinyAssumption, world \in DOMAIN Worlds, NEW lines, T!Uri(lines) \in T!Uris,
           T!FileName(T!Uri(lines)) \in DOMAIN T!InitialFiles,
           NEW r, Suits(T!Uri(lines), T!FileName(T!Uri(lines)), r)
    PROVE  T!Expected(lines, r)
<1>1. PICK uri \in T!Uris : uri = T!Uri(lines)
  OBVIOUS
<1>2. PICK f \in DOMAIN T!InitialFiles : f = T!FileName(uri)
  BY <1>1
<1>3. T!Meant(uri) = {f}
  BY <1>1, <1>2, OneMeant
<1>4. ~T!IsStatic(uri) => T!CgiArgs(uri) = SubSeq(uri, Len(f) + 2, Len(uri))
  BY <1>3, MeantIsNamed
<1>5. T!FileType(f) = T!TypeOf(T!Last(f))
  BY TypeIs
<1>6. PICK mode : mode = T!InitialFiles[f].mode
  OBVIOUS
<1>7. (CHOOSE m \in {T!InitialFiles[n].mode : n \in T!Meant(uri)} : TRUE) = mode
  BY <1>3, <1>6
<1>8. f \in T!Meant(uri) /\ T!Meant(uri) # {}
  BY <1>3
<1>9. Suits(uri, f, r)
  BY <1>1, <1>2
<1>10. mode \in Unreadable(uri) <=>
          mode \in {"directory", "secret"} \union (IF T!IsStatic(uri) THEN {} ELSE {"page"})
  BY DEF Unreadable
<1> QED BY <1>1, <1>4, <1>5, <1>6, <1>7, <1>8, <1>9, <1>10 DEF T!Expected, Suits

-----------------------------------------------------------------------------
LEMMA SameWorld ==
    ASSUME world' = world
    PROVE  T!Browsers' = T!Browsers /\ T!Sendable' = T!Sendable /\ T!InitialFiles' = T!InitialFiles
BY DEF T!Browsers, T!Sendable, T!InitialFiles

(* A line of a request, and what it asks for.                              *)
LEMMA LineIs ==
    ASSUME T!TinyAssumption, world \in DOMAIN Worlds, NEW lines \in T!Sendable
    PROVE  /\ T!IsRequest(lines) /\ Len(lines) \in Nat
           /\ \A k \in 1..Len(lines) :
                 /\ Len(lines[k].words) \in 0..2
                 /\ Len(lines[k].words) >= 2 => lines[k].words[2] \in T!Uris
<1>1. T!IsRequest(lines)
  BY DEF T!Sendable, T!TinyAssumption
<1>2. lines \in Seq(T!Lines) /\ Len(lines) \in Nat
  BY <1>1, LenProperties DEF T!IsRequest
<1>3. ASSUME NEW k \in 1..Len(lines)
      PROVE  /\ Len(lines[k].words) \in 0..2
             /\ Len(lines[k].words) >= 2 => lines[k].words[2] \in T!Uris
  <2>1. lines[k] \in T!Lines
    BY <1>2, ElementOfSeq
  <2>2. PICK w : w = lines[k].words
    OBVIOUS
  <2>3. w \in {<<>>} \union {<<m>> : m \in T!Methods} \union (T!Methods \X T!Uris)
    BY <2>1, <2>2 DEF T!Lines
  <2>4. CASE w = <<>>
    BY <2>2, <2>4
  <2>5. CASE w \in {<<m>> : m \in T!Methods}
    BY <2>2, <2>5
  <2>6. CASE w \in T!Methods \X T!Uris
    <3>1. PICK m \in T!Methods, u \in T!Uris : w = <<m, u>>
      BY <2>6
    <3>2. Len(w) = 2 /\ w[2] = u
      BY <3>1
    <3> QED BY <2>2, <3>1, <3>2
  <2> QED BY <2>3, <2>4, <2>5, <2>6
<1> QED BY <1>1, <1>2, <1>3

(* An answer stays what it is when neither it nor the request changes.     *)
LEMMA ExpectedStays ==
    ASSUME world' = world, NEW lines, NEW r, T!Expected(lines, r)
    PROVE  T!Expected(lines, r)'
<1>1. T!InitialFiles' = T!InitialFiles
  BY SameWorld
<1>2. PICK uri : uri = T!Uri(lines)
  OBVIOUS
<1>3. T!Meant(uri)' = T!Meant(uri)
  BY <1>1 DEF T!Meant
<1>4. PICK m : m = T!Meant(uri)
  OBVIOUS
<1>5. {T!InitialFiles[n].mode : n \in m}' = {T!InitialFiles[n].mode : n \in m}
  BY <1>1
<1> QED BY <1>1, <1>2, <1>3, <1>4, <1>5 DEF T!Expected

LEMMA RightStays ==
    ASSUME world' = world, NEW c, request'[c] = request[c], resp'[c] = resp[c], RightFor(c)
    PROVE  RightFor(c)'
<1>1. PICK lines, r : lines = request[c] /\ r = resp[c]
  OBVIOUS
<1>2. T!Expected(lines, r) => T!Expected(lines, r)'
  BY ExpectedStays
<1> QED BY <1>1, <1>2 DEF RightFor

LEMMA CompleteStays ==
    ASSUME NEW c, request'[c] = request[c], resp'[c] = resp[c], nread'[c] = nread[c], CompleteFor(c)
    PROVE  CompleteFor(c)'
BY DEF CompleteFor, T!ErrorPage, T!FilePage, T!Asks, T!IsStatic, T!Uri, T!Contains

(* A response of which nothing has been written.                           *)
LEMMA NothingSent ==
    /\ ErrorSent("none", 0) = T!NoResponse /\ Output(<<>>) = T!NoResponse
    /\ T!NoResponse.status = "none" /\ T!NoResponse.result = <<>>
    /\ DOMAIN T!NoResponse = {"status", "type", "length", "body", "zeros", "result", "parts"}
<1>1. PICK r : r = T!NoResponse
  OBVIOUS
<1>2. /\ r.status = "none" /\ r.parts = 0 /\ r.result = <<>>
      /\ r = [x \in DOMAIN r |-> r[x]]
      /\ DOMAIN r = {"status", "type", "length", "body", "zeros", "result", "parts"}
  BY <1>1 DEF T!NoResponse
<1>3. [r EXCEPT !.status = "none", !.parts = 0] = r
  BY <1>2
<1>4. [r EXCEPT !.result = <<>>] = r
  BY <1>2
<1> QED BY <1>1, <1>2, <1>3, <1>4 DEF ErrorSent, Output

LEMMA RightNow ==
    ASSUME world' = world, NEW c, request'[c] = request[c],
           NEW r, resp'[c] = r, T!Asks(request[c]) => T!Expected(request[c], r)
    PROVE  RightFor(c)'
<1>1. PICK lines : lines = request[c]
  OBVIOUS
<1>2. T!Expected(lines, r) => T!Expected(lines, r)'
  BY ExpectedStays
<1>3. T!Asks(lines)' = T!Asks(lines)
  BY DEF T!Asks
<1> QED BY <1>1, <1>2, <1>3 DEF RightFor

LEMMA OutputIs == ASSUME NEW t PROVE Output(t).status = "none" /\ Output(t).result = t
BY DEF Output, T!NoResponse

LEMMA LogIs == Output(<<"log">>).result # <<>>
<1>1. <<"log">> # <<>>
  OBVIOUS
<1>2. Output(<<"log">>).result = <<"log">>
  BY OutputIs
<1> QED BY <1>1, <1>2

(* What a step of a client or of the file system leaves as it is.          *)
Outside ==
    /\ UNCHANGED <<world, request, nread, resp, closed, queue, serving, pc, req, sbuf, left, child>>
    /\ \A c \in T!Browsers : hung[c] => hung'[c]
    /\ changes' \in Nat /\ changes <= changes'
    /\ changes' = 0 => UNCHANGED <<files, src>>

LEMMA OutsideKeeps ==
    ASSUME TinyInv, Outside
    PROVE  TinyQueue' /\ AskedInv' /\ RespInv' /\ FileInv' /\ SentInv' /\ ClosedInv' /\ DiedInv'
<1>0. /\ UNCHANGED <<world, request, nread, resp, closed, queue, serving, pc, req, sbuf,
                     left, child>>
      /\ \A c \in T!Browsers : hung[c] => hung'[c]
      /\ changes' \in Nat /\ changes <= changes' /\ changes \in Nat
      /\ changes' = 0 => changes = 0 /\ files' = files /\ src' = src
      /\ pc # "accept" => serving \in T!Browsers
      /\ T!Browsers' = T!Browsers /\ T!InitialFiles' = T!InitialFiles
      /\ DOMAIN resp = T!Browsers
  BY SameWorld DEF Outside, TinyInv, TinyTypes, TinyQueue
<1>1. TinyQueue'
  BY <1>0 DEF TinyInv, TinyQueue
<1>2. AskedInv'
  BY <1>0 DEF TinyInv, AskedInv, Wants, AllRead, T!Asks, T!Uri, AfterHeaders, Pages, Programs
<1>3. RespInv'
  BY <1>0 DEF TinyInv, RespInv
<1>4. FileInv'
  BY <1>0 DEF TinyInv, FileInv, Named, Unchanged
<1>5. SentInv'
  BY <1>0, RightStays, CompleteStays DEF TinyInv, SentInv, T!Asks
<1>6. ClosedInv'
  <2> SUFFICES ASSUME NEW c \in T!Browsers, closed[c], ~hung'[c]
               PROVE  CompleteFor(c)' /\ (changes' = 0 => RightFor(c)')
    BY <1>0 DEF ClosedInv
  <2>1. CompleteFor(c) /\ (changes = 0 => RightFor(c))
    BY <1>0 DEF TinyInv, ClosedInv
  <2> QED BY <1>0, <2>1, RightStays, CompleteStays
<1>7. DiedInv'
  BY <1>0 DEF TinyInv, DiedInv
<1> QED BY <1>1, <1>2, <1>3, <1>4, <1>5, <1>6, <1>7

LEMMA SendLineTiny ==
    ASSUME TinyInv, NEW c \in T!Browsers, T!SendLine(c), T!TinyAssumption
    PROVE  TinyInv'
<1>0. /\ nsent[c] < Len(request[c]) /\ nsent' = [nsent EXCEPT ![c] = @ + 1]
      /\ UNCHANGED <<world, request, nread, hung, resp, closed, queue, alive, serving, pc, req,
                     sbuf, left, src, child, files, changes>>
  BY DEF T!SendLine, T!local, T!disk
<1>1. TinyTypes'
  <2>1. request[c] \in T!Sendable /\ nsent[c] \in Nat
    BY DEF TinyInv, TinyTypes
  <2>2. Len(request[c]) \in Nat
    BY <2>1, LineIs DEF TinyInv, TinyTypes
  <2>3. nsent' \in [T!Browsers -> Nat] /\ nsent'[c] = nsent[c] + 1
    BY <1>0, <2>1 DEF TinyInv, TinyTypes
  <2>4. \A x \in T!Browsers : nsent'[x] <= Len(request[x])
    BY <1>0, <2>1, <2>2, <2>3 DEF TinyInv, TinyTypes
  <2>5. T!Browsers' = T!Browsers /\ T!Sendable' = T!Sendable /\ T!InitialFiles' = T!InitialFiles
    BY <1>0, SameWorld
  <2>6. TinyTypes
    BY DEF TinyInv
  <2> QED BY ONLY <1>0, <2>3, <2>4, <2>5, <2>6 DEF TinyTypes
<1>2. Outside
  BY <1>0 DEF Outside, TinyInv, TinyTypes
<1> QED BY <1>1, <1>2, OutsideKeeps DEF TinyInv

LEMMA HangUpTiny ==
    ASSUME TinyInv, NEW c \in T!Browsers, T!HangUp(c)
    PROVE  TinyInv'
<1>0. /\ hung' = [hung EXCEPT ![c] = TRUE]
      /\ UNCHANGED <<world, request, nsent, nread, resp, closed, queue, alive, serving, pc, req,
                     sbuf, left, src, child, files, changes>>
  BY DEF T!HangUp, T!local, T!disk
<1>1. TinyTypes'
  BY <1>0, SameWorld DEF TinyInv, TinyTypes
<1>2. Outside
  BY <1>0 DEF Outside, TinyInv, TinyTypes
<1> QED BY <1>1, <1>2, OutsideKeeps DEF TinyInv

LEMMA UnlinkTiny ==
    ASSUME TinyInv, NEW name \in DOMAIN T!InitialFiles, T!Unlink(name)
    PROVE  TinyInv'
<1>0. /\ files' = [files EXCEPT ![name] = T!NoFile] /\ changes' = changes + 1
      /\ UNCHANGED <<world, request, nsent, nread, hung, resp, closed, queue, alive, serving, pc,
                     req, sbuf, left, src, child>>
  BY DEF T!Unlink, T!local, T!wire
<1>1. TinyTypes'
  <2>1. T!NoFile \in [mode : FileModes, size : Nat]
    BY DEF T!NoFile, FileModes
  <2>2. files' \in [DOMAIN T!InitialFiles -> [mode : FileModes, size : Nat]]
    BY <1>0, <2>1 DEF TinyInv, TinyTypes
  <2>3. changes' \in Nat
    BY <1>0 DEF TinyInv, TinyTypes
  <2> QED BY <1>0, <2>2, <2>3, SameWorld DEF TinyInv, TinyTypes
<1>2. Outside
  BY <1>0 DEF Outside, TinyInv, TinyTypes
<1> QED BY <1>1, <1>2, OutsideKeeps DEF TinyInv

LEMMA CutTiny ==
    ASSUME TinyInv, NEW name \in DOMAIN T!InitialFiles, T!Cut(name)
    PROVE  TinyInv'
<1>1. PICK k \in 0..(files[name].size - 1) :
          /\ files' = [files EXCEPT ![name].size = k]
          /\ src' = k \/ src' = src
  BY DEF T!Cut
<1>2. /\ changes' = changes + 1
      /\ UNCHANGED <<world, request, nsent, nread, hung, resp, closed, queue, alive, serving, pc,
                     req, sbuf, left, child>>
  BY DEF T!Cut, T!wire
<1>3. TinyTypes'
  <2>1. k \in Nat /\ src' \in Nat
    BY <1>1 DEF TinyInv, TinyTypes
  <2>2. files' \in [DOMAIN T!InitialFiles -> [mode : FileModes, size : Nat]]
    BY <1>1, <2>1 DEF TinyInv, TinyTypes
  <2> QED BY <1>2, <2>1, <2>2, SameWorld DEF TinyInv, TinyTypes
<1>4. Outside
  BY <1>2 DEF Outside, TinyInv, TinyTypes
<1> QED BY <1>3, <1>4, OutsideKeeps DEF TinyInv

(* Names do not change with the files.                                     *)
LEMMA SameNames ==
    ASSUME world' = world, req' = req
    PROVE  /\ Named' = Named /\ T!FileName(req.uri)' = T!FileName(req.uri)
           /\ T!IsStatic(req.uri)' = T!IsStatic(req.uri)
           /\ Unreadable(req.uri)' = Unreadable(req.uri)
           /\ T!FileType(T!FileName(req.uri))' = T!FileType(T!FileName(req.uri))
           /\ T!Adder(T!CgiArgs(req.uri))' = T!Adder(T!CgiArgs(req.uri))
           /\ T!InitialFiles[T!FileName(req.uri)]' = T!InitialFiles[T!FileName(req.uri)]
<1>1. T!InitialFiles' = T!InitialFiles
  BY SameWorld
<1>2. T!FileName(req.uri)' = T!FileName(req.uri)
  BY DEF T!FileName, T!IsStatic, T!Contains, T!SelectInSeq, T!Min, T!Last
<1>3. T!CgiArgs(req.uri)' = T!CgiArgs(req.uri)
  BY DEF T!CgiArgs, T!IsStatic, T!Contains, T!SelectInSeq, T!Min, T!Last
<1>4. T!IsStatic(req.uri)' = T!IsStatic(req.uri) /\ Unreadable(req.uri)' = Unreadable(req.uri)
  BY DEF T!IsStatic, Unreadable, T!Contains
<1>5. T!FileType(T!FileName(req.uri))' = T!FileType(T!FileName(req.uri))
  BY <1>2 DEF T!FileType, T!Contains, T!Types, T!Min
<1>6. T!Adder(T!CgiArgs(req.uri))' = T!Adder(T!CgiArgs(req.uri))
  BY <1>3 DEF T!Adder, T!SelectInSeq, T!Min
<1> QED BY <1>1, <1>2, <1>4, <1>5, <1>6 DEF Named

LEMMA TinyInit == ASSUME T!TinyAssumption, T!Init PROVE TinyInv
<1>1. /\ world \in DOMAIN Worlds /\ IsFiniteSet(T!Browsers) /\ Nobody \notin T!Browsers
      /\ T!InitialFiles \in [DOMAIN T!InitialFiles -> [mode : T!Modes, size : Nat]]
  <2>1. PICK w \in DOMAIN Worlds : w = world
    BY DEF T!Init
  <2>2. /\ T!IsFiniteSet(Worlds[w].clients) /\ Nobody \notin Worlds[w].clients
        /\ Worlds[w].files \in [DOMAIN Worlds[w].files -> [mode : T!Modes, size : Nat]]
    BY DEF T!TinyAssumption
  <2>3. IsFiniteSet(Worlds[w].clients)
    BY <2>2 DEF T!IsFiniteSet, IsFiniteSet
  <2> QED BY <2>1, <2>2, <2>3 DEF T!Browsers, T!InitialFiles
<1>2. queue \in Seq(T!Browsers) /\ \A i, j \in 1..Len(queue) : i # j => queue[i] # queue[j]
  <2>1. Cardinality(T!Browsers) \in Nat
    BY <1>1, FS_CardinalityType
  <2>2. /\ queue \in [1..Cardinality(T!Browsers) -> T!Browsers]
        /\ \A i, j \in 1..Cardinality(T!Browsers) : i # j => queue[i] # queue[j]
    <3>1. T!Cardinality(T!Browsers) = Cardinality(T!Browsers)
      BY DEF T!Cardinality, Cardinality
    <3> QED BY <3>1 DEF T!Init, T!SetToSeqs
  <2> QED BY <2>1, <2>2
<1>3. /\ pc = "accept" /\ alive = TRUE /\ child = "none" /\ serving = Nobody
      /\ files = T!InitialFiles /\ changes = 0 /\ left = 0 /\ src = 0
      /\ \A c \in T!Browsers : resp[c] = T!NoResponse /\ nread[c] = 0 /\ ~closed[c]
  BY DEF T!Init
<1>4. TinyTypes
  <2>1. /\ request \in [T!Browsers -> T!Sendable] /\ world \in DOMAIN Worlds
        /\ nsent = [c \in T!Browsers |-> 0] /\ nread = [c \in T!Browsers |-> 0]
        /\ hung \in [T!Browsers -> BOOLEAN] /\ closed \in [T!Browsers -> BOOLEAN]
        /\ DOMAIN resp = T!Browsers /\ DOMAIN req = {"method", "uri", "header"}
    BY DEF T!Init, T!NoRequest
  <2>2. sbuf \in [mode : FileModes, size : Nat]
    BY DEF T!Init, T!NoFile, FileModes
  <2>3. files \in [DOMAIN T!InitialFiles -> [mode : FileModes, size : Nat]]
    BY <1>1, <1>3 DEF FileModes
  <2>4. \A c \in T!Browsers : nsent[c] <= Len(request[c])
    BY <2>1, LineIs
  <2> QED BY <1>3, <2>1, <2>2, <2>3, <2>4 DEF TinyTypes, TinyStages
<1>5. TinyQueue
  <2>1. \A i \in 1..Len(queue) : queue[i] \in T!Browsers
    BY <1>2
  <2> QED BY <1>1, <1>2, <1>3, <2>1 DEF TinyQueue
<1>6. AskedInv /\ RespInv /\ FileInv /\ SentInv /\ ClosedInv /\ DiedInv
  BY <1>3 DEF AskedInv, RespInv, FileInv, SentInv, ClosedInv, DiedInv, AfterHeaders, Pages,
        Programs, T!Errors
<1> QED BY <1>4, <1>5, <1>6 DEF TinyInv

(* The next connection.                                                    *)
LEMMA AcceptTiny == ASSUME TinyInv, T!Accept, T!TinyAssumption PROVE TinyInv'
<1>0. /\ alive /\ pc = "accept" /\ queue # <<>>
      /\ serving' = Head(queue) /\ queue' = Tail(queue) /\ pc' = "request"
      /\ UNCHANGED <<world, request, nsent, nread, hung, resp, closed, alive, req,
                     sbuf, left, src, child, files, changes>>
  BY DEF T!Accept, T!local, T!disk
<1>1. T!Browsers' = T!Browsers /\ T!Sendable' = T!Sendable /\ T!InitialFiles' = T!InitialFiles
  BY <1>0, SameWorld
<1>2. /\ queue \in Seq(T!Browsers) /\ 1 \in 1..Len(queue) /\ Head(queue) = queue[1]
      /\ Head(queue) \in T!Browsers /\ Tail(queue) \in Seq(T!Browsers)
      /\ Len(Tail(queue)) = Len(queue) - 1
      /\ \A i \in 1..Len(Tail(queue)) : i + 1 \in 1..Len(queue) /\ Tail(queue)[i] = queue[i + 1]
  BY <1>0 DEF TinyInv, TinyQueue
<1>3. resp[serving'] = T!NoResponse /\ nread[serving'] = 0 /\ ~closed[serving'] /\ child = "none"
  BY <1>0, <1>2 DEF TinyInv, TinyQueue, RespInv
<1>4. TinyTypes'
  BY <1>0, <1>1 DEF TinyInv, TinyTypes, TinyStages
<1>5. TinyQueue'
  <2>1. \A i, j \in 1..Len(queue') : i # j => queue'[i] # queue'[j]
    <3> SUFFICES ASSUME NEW i \in 1..Len(queue'), NEW j \in 1..Len(queue'), i # j
                 PROVE  queue'[i] # queue'[j]
      OBVIOUS
    <3>1. i + 1 \in 1..Len(queue) /\ j + 1 \in 1..Len(queue) /\ i + 1 # j + 1
      BY <1>0, <1>2
    <3> QED BY <1>0, <1>2, <3>1 DEF TinyInv, TinyQueue
  <2>2. ASSUME NEW i \in 1..Len(queue')
        PROVE  /\ queue'[i] # serving' /\ resp[queue'[i]] = T!NoResponse
               /\ nread[queue'[i]] = 0 /\ ~closed[queue'[i]]
    <3>1. i + 1 \in 1..Len(queue) /\ i + 1 # 1 /\ queue'[i] = queue[i + 1]
      BY <1>0, <1>2
    <3> QED BY <1>0, <1>2, <3>1 DEF TinyInv, TinyQueue
  <2>3. T!NoResponse' = T!NoResponse
    BY DEF T!NoResponse
  <2> QED BY <1>0, <1>1, <1>2, <1>3, <2>1, <2>2, <2>3 DEF TinyQueue
<1>6. AskedInv' /\ RespInv' /\ FileInv' /\ SentInv' /\ DiedInv'
  BY <1>0, <1>1, <1>3 DEF TinyInv, AskedInv, RespInv, FileInv, SentInv, DiedInv, AfterHeaders,
        Pages, Programs, T!Errors
<1>7. ClosedInv'
  <2> SUFFICES ASSUME NEW c \in T!Browsers, closed[c], ~hung[c]
               PROVE  CompleteFor(c)' /\ (changes = 0 => RightFor(c)')
    BY <1>0, <1>1 DEF ClosedInv
  <2>1. CompleteFor(c) /\ (changes = 0 => RightFor(c))
    BY DEF TinyInv, ClosedInv
  <2> QED BY <1>0, <2>1, RightStays, CompleteStays
<1> QED BY <1>4, <1>5, <1>6, <1>7 DEF TinyInv

(* What a step of the server, within one connection, leaves as it is.      *)
Within ==
    /\ UNCHANGED <<world, request, nsent, hung, closed, queue, serving, files, changes>>
    /\ pc # "accept" /\ pc' # "accept"
    /\ \A c \in T!Browsers : c # serving => resp'[c] = resp[c] /\ nread'[c] = nread[c]

LEMMA WithinKeeps == ASSUME TinyInv, Within PROVE TinyQueue' /\ ClosedInv'
<1>0. T!Browsers' = T!Browsers /\ serving \in T!Browsers /\ ~closed[serving]
  BY SameWorld DEF Within, TinyInv, TinyQueue
<1>1. TinyQueue'
  <2>1. \A i \in 1..Len(queue) : queue[i] \in T!Browsers
    BY DEF TinyInv, TinyQueue
  <2> QED BY <1>0, <2>1 DEF Within, TinyInv, TinyQueue
<1>2. ClosedInv'
  <2> SUFFICES ASSUME NEW c \in T!Browsers, closed[c], ~hung[c]
               PROVE  CompleteFor(c)' /\ (changes = 0 => RightFor(c)')
    BY <1>0 DEF ClosedInv, Within
  <2>1. c # serving /\ CompleteFor(c) /\ (changes = 0 => RightFor(c))
    BY <1>0 DEF TinyInv, ClosedInv
  <2> QED BY <2>1, RightStays, CompleteStays DEF Within
<1> QED BY <1>1, <1>2

LEMMA ReadRequestTiny == ASSUME TinyInv, T!ReadRequest, T!TinyAssumption PROVE TinyInv'
<1> DEFINE lines == request[serving]
<1>0. /\ pc = "request" /\ nread[serving] < nsent[serving] /\ left' = 4
      /\ nread' = [nread EXCEPT ![serving] = @ + 1]
      /\ UNCHANGED <<world, request, nsent, hung, closed, queue, resp, alive, serving, broken,
                     sbuf, src, child, files, changes>>
  BY DEF T!ReadRequest, T!ReadsLine, T!ErrorParts, T!disk
<1>1. /\ serving \in T!Browsers /\ nread[serving] = 0 /\ resp[serving] = T!NoResponse
      /\ child = "none" /\ lines \in T!Sendable /\ alive
      /\ nread \in [T!Browsers -> Nat] /\ nsent[serving] \in Nat /\ nsent[serving] <= Len(lines)
  BY <1>0 DEF TinyInv, TinyTypes, TinyQueue, AskedInv, RespInv
<1>2. /\ Len(lines) \in Nat /\ 1 \in 1..Len(lines) /\ Len(lines[1].words) \in 0..2
      /\ T!Line = lines[1]
  <2>1. Len(lines) \in Nat
    BY <1>1, LineIs DEF TinyInv, TinyTypes
  <2>2. 1 \in 1..Len(lines)
    BY <1>0, <1>1, <2>1
  <2>3. Len(lines[1].words) \in 0..2
    BY <1>1, <2>2, LineIs DEF TinyInv, TinyTypes
  <2>4. T!Line = lines[1]
    BY <1>1 DEF T!Line
  <2> QED BY <2>1, <2>2, <2>3, <2>4
<1>3. PICK method \in {"GET", "POST"}, uri \in T!Leftovers :
          /\ Len(lines[1].words) >= 1 => method = lines[1].words[1]
          /\ req' = [method |-> method, header |-> FALSE,
                     uri |-> IF Len(lines[1].words) >= 2 THEN lines[1].words[2] ELSE uri]
          /\ pc' = IF method = "GET" THEN "headers" ELSE "501"
  BY <1>2 DEF T!ReadRequest
<1>4. /\ T!Browsers' = T!Browsers /\ T!Sendable' = T!Sendable /\ T!InitialFiles' = T!InitialFiles
      /\ T!NoResponse' = T!NoResponse
  BY <1>0, SameWorld DEF T!NoResponse
<1>5. nread' \in [T!Browsers -> Nat] /\ nread'[serving] = 1
      /\ \A c \in T!Browsers : c # serving => nread'[c] = nread[c]
  BY <1>0, <1>1
<1>6. pc' \in {"headers", "501"} /\ DOMAIN req' = {"method", "uri", "header"}
  BY <1>3
<1>7. TinyTypes'
  BY <1>0, <1>4, <1>5, <1>6, <1>1 DEF TinyInv, TinyTypes, TinyStages
<1>8. Within
  BY <1>0, <1>5, <1>6 DEF Within
<1>9. AskedInv'
  <2>1. T!Asks(lines) => /\ T!Uri(lines) = lines[1].words[2] /\ method = lines[1].words[1]
                         /\ req'.uri = T!Uri(lines)
    BY <1>2, <1>3 DEF T!Asks, T!Uri
  <2>2. T!Asks(request[serving])' = T!Asks(lines) /\ T!Uri(request[serving])' = T!Uri(lines)
    BY <1>0 DEF T!Asks, T!Uri
  <2> QED BY <1>0, <1>3, <1>5, <1>6, <2>1, <2>2 DEF AskedInv, Wants, AfterHeaders, Pages, Programs
<1>10. RespInv'
  <2>1. ErrorSent("none", 0) = T!NoResponse /\ 4 - 4 = 0
    BY NothingSent
  <2>2. pc' \in T!Errors =>
          /\ left' \in 1..4
          /\ resp'[serving] = ErrorSent(IF left' = 4 THEN "none" ELSE pc', 4 - left')
    BY <1>0, <1>1, <2>1
  <2>3. ErrorSent(IF left = 4 THEN "none" ELSE pc, 4 - left)'
            = ErrorSent(IF left' = 4 THEN "none" ELSE pc', 4 - left')
    BY DEF ErrorSent, T!NoResponse
  <2> QED BY <1>0, <1>1, <1>4, <1>6, <2>2, <2>3 DEF RespInv
<1>11. FileInv' /\ SentInv' /\ DiedInv'
  BY <1>0, <1>4, <1>6 DEF TinyInv, FileInv, SentInv, DiedInv, Pages, Programs
<1> QED BY <1>7, <1>8, <1>9, <1>10, <1>11, WithinKeeps DEF TinyInv

LEMMA ReadNothingTiny == ASSUME TinyInv, T!ReadNothing PROVE TinyInv'
<1>0. /\ pc = "request" /\ hung[serving] /\ pc' = "close"
      /\ UNCHANGED <<world, request, nsent, nread, hung, closed, queue, resp, alive, serving,
                     broken, req, sbuf, left, src, child, files, changes>>
  BY DEF T!ReadNothing, T!AtEnd, T!wire, T!local, T!disk
<1>1. T!Browsers' = T!Browsers /\ T!Sendable' = T!Sendable /\ T!InitialFiles' = T!InitialFiles
  BY <1>0, SameWorld
<1>2. TinyTypes'
  BY <1>0, <1>1 DEF TinyInv, TinyTypes, TinyStages
<1>3. Within
  BY <1>0 DEF Within
<1>4. AskedInv' /\ RespInv' /\ FileInv' /\ SentInv' /\ DiedInv'
  BY <1>0, <1>1 DEF TinyInv, AskedInv, RespInv, FileInv, SentInv, DiedInv, AfterHeaders, Pages,
        Programs, T!Errors
<1> QED BY <1>2, <1>3, <1>4, WithinKeeps DEF TinyInv

LEMMA ReadHeaderTiny == ASSUME TinyInv, T!ReadHeader, T!TinyAssumption PROVE TinyInv'
<1> DEFINE lines == request[serving]
           n == nread[serving] + 1
<1>0. /\ pc = "headers" /\ nread[serving] < nsent[serving]
      /\ pc' = IF T!EndOfHeaders(T!Line) THEN "stat" ELSE "headers"
      /\ nread' = [nread EXCEPT ![serving] = @ + 1] /\ req' = [req EXCEPT !.header = TRUE]
      /\ UNCHANGED <<world, request, nsent, hung, closed, queue, resp, alive, serving, broken,
                     sbuf, left, src, child, files, changes>>
  BY DEF T!ReadHeader, T!ReadsLine, T!disk
<1>1. /\ serving \in T!Browsers /\ lines \in T!Sendable /\ Wants(lines, req)
      /\ resp[serving] = T!NoResponse /\ left = 4 /\ child = "none" /\ alive
      /\ nread \in [T!Browsers -> Nat] /\ nsent[serving] \in Nat /\ nsent[serving] <= Len(lines)
      /\ DOMAIN req = {"method", "uri", "header"}
  BY <1>0 DEF TinyInv, TinyTypes, TinyQueue, AskedInv, RespInv
<1>2. Len(lines) \in Nat /\ n \in 1..Len(lines) /\ (lines[n].kind = "blank" => n = Len(lines))
  <2>1. Len(lines) \in Nat /\ T!IsRequest(lines)
    BY <1>1, LineIs DEF TinyInv, TinyTypes
  <2>2. n \in 1..Len(lines)
    BY <1>0, <1>1, <2>1
  <2> QED BY <2>1, <2>2 DEF T!IsRequest
<1>3. /\ T!Browsers' = T!Browsers /\ T!Sendable' = T!Sendable /\ T!InitialFiles' = T!InitialFiles
      /\ T!NoResponse' = T!NoResponse
  BY <1>0, SameWorld DEF T!NoResponse
<1>4. nread' \in [T!Browsers -> Nat] /\ nread'[serving] = n /\ n > 0
      /\ \A c \in T!Browsers : c # serving => nread'[c] = nread[c]
  BY <1>0, <1>1
<1>5. /\ pc' \in {"headers", "stat"} /\ DOMAIN req' = {"method", "uri", "header"}
      /\ req'.uri = req.uri
  BY <1>0, <1>1
<1>6. pc' = "stat" => n = Len(lines)
  BY <1>0, <1>2 DEF T!EndOfHeaders, T!Line
<1>7. TinyTypes'
  BY <1>0, <1>1, <1>3, <1>4, <1>5 DEF TinyInv, TinyTypes, TinyStages, AfterHeaders
<1>8. Within
  BY <1>0, <1>4, <1>5 DEF Within
<1>9. AskedInv'
  <2>1. T!Asks(request[serving])' = T!Asks(lines) /\ T!Uri(request[serving])' = T!Uri(lines)
    BY <1>0 DEF T!Asks, T!Uri
  <2> QED BY <1>0, <1>1, <1>4, <1>5, <1>6, <2>1 DEF AskedInv, Wants, AllRead, AfterHeaders, Pages, Programs
<1>10. RespInv'
  BY <1>0, <1>1, <1>3, <1>5 DEF RespInv, T!Errors
<1>11. FileInv' /\ SentInv' /\ DiedInv'
  BY <1>0, <1>3, <1>5 DEF TinyInv, FileInv, SentInv, DiedInv, Pages, Programs
<1> QED BY <1>7, <1>8, <1>9, <1>10, <1>11, WithinKeeps DEF TinyInv

LEMMA PrintDiesTiny == ASSUME TinyInv, T!PrintDies PROVE TinyInv'
<1> DEFINE n == nread[serving] + 1
<1>0. /\ pc = "headers" /\ pc' = "dead" /\ alive' = FALSE
      /\ nread' = [nread EXCEPT ![serving] = @ + 1] /\ request[serving][n].kind = "percent"
      /\ UNCHANGED <<world, request, nsent, hung, closed, queue, resp, serving, broken,
                     req, sbuf, left, src, child, files, changes>>
  BY DEF T!PrintDies, T!ReadsLine, T!Line, T!local, T!disk
<1>1. serving \in T!Browsers /\ nread \in [T!Browsers -> Nat] /\ child = "none"
  BY <1>0 DEF TinyInv, TinyTypes, TinyQueue, RespInv
<1>2. T!Browsers' = T!Browsers /\ T!Sendable' = T!Sendable /\ T!InitialFiles' = T!InitialFiles
  BY <1>0, SameWorld
<1>3. /\ nread' \in [T!Browsers -> Nat] /\ nread'[serving] = n /\ n \in Nat /\ n > 0
      /\ \A c \in T!Browsers : c # serving => nread'[c] = nread[c]
  BY <1>0, <1>1
<1>4. TinyTypes'
  BY <1>0, <1>2, <1>3 DEF TinyInv, TinyTypes, TinyStages
<1>5. Within
  BY <1>0, <1>3 DEF Within
<1>6. HasPercent(request[serving], nread[serving])'
  <2>1. n \in 1..n
    BY <1>3
  <2> QED BY <1>0, <1>3, <2>1 DEF HasPercent
<1>7. AskedInv' /\ RespInv' /\ FileInv' /\ SentInv' /\ DiedInv'
  BY <1>0, <1>1, <1>2, <1>6 DEF TinyInv, AskedInv, RespInv, FileInv, SentInv, DiedInv,
        AfterHeaders, Pages, Programs, T!Errors
<1> QED BY <1>4, <1>5, <1>7, WithinKeeps DEF TinyInv

LEMMA OverflowTiny == ASSUME TinyInv, T!Overflow PROVE TinyInv'
<1>0. /\ pc = "stat" /\ pc' = "dead" /\ alive' = FALSE /\ ~T!Fits(req.uri)
      /\ UNCHANGED <<world, request, nsent, nread, hung, closed, queue, resp, serving,
                     broken, req, sbuf, left, src, child, files, changes>>
  BY DEF T!Overflow, T!wire, T!local, T!disk
<1>1. T!Browsers' = T!Browsers /\ T!Sendable' = T!Sendable /\ T!InitialFiles' = T!InitialFiles
  BY <1>0, SameWorld
<1>2. TinyTypes'
  BY <1>0, <1>1 DEF TinyInv, TinyTypes, TinyStages
<1>3. Within
  BY <1>0 DEF Within
<1>4. child = "none"
  BY <1>0 DEF TinyInv, RespInv
<1>5. (~T!Fits(req.uri))'
  BY <1>0
<1>6. AskedInv' /\ RespInv' /\ FileInv' /\ SentInv' /\ DiedInv'
  BY <1>0, <1>1, <1>4, <1>5 DEF TinyInv, AskedInv, RespInv, FileInv, SentInv, DiedInv,
        AfterHeaders, Pages, Programs, T!Errors
<1> QED BY <1>2, <1>3, <1>6, WithinKeeps DEF TinyInv

LEMMA ReadHeaderAtEndTiny == ASSUME TinyInv, T!ReadHeaderAtEnd PROVE TinyInv'
<1>0. /\ pc = "headers" /\ hung[serving] /\ pc' = "stat"
      /\ UNCHANGED <<world, request, nsent, nread, hung, closed, queue, resp, alive, serving,
                     broken, req, sbuf, left, src, child, files, changes>>
  BY DEF T!ReadHeaderAtEnd, T!AtEnd, T!wire, T!local, T!disk
<1>1. /\ T!Browsers' = T!Browsers /\ T!Sendable' = T!Sendable /\ T!InitialFiles' = T!InitialFiles
      /\ T!NoResponse' = T!NoResponse
  BY <1>0, SameWorld DEF T!NoResponse
<1>2. TinyTypes'
  BY <1>0, <1>1 DEF TinyInv, TinyTypes, TinyStages, AfterHeaders
<1>3. Within
  BY <1>0 DEF Within
<1>4. AskedInv'
  BY <1>0 DEF TinyInv, AskedInv, Wants, AllRead, AfterHeaders, Pages, Programs, T!Asks, T!Uri
<1>5. RespInv' /\ FileInv' /\ SentInv' /\ DiedInv'
  BY <1>0, <1>1 DEF TinyInv, RespInv, FileInv, SentInv, DiedInv, Pages, Programs, T!Errors
<1> QED BY <1>2, <1>3, <1>4, <1>5, WithinKeeps DEF TinyInv

LEMMA StatTiny == ASSUME TinyInv, T!Stat, T!TinyAssumption PROVE TinyInv'
<1> DEFINE uri == req.uri
<1>0. /\ pc = "stat" /\ sbuf' = T!File(T!FileName(uri))
      /\ UNCHANGED <<world, request, nsent, nread, hung, closed, queue, resp, alive, serving,
                     broken, req, left, src, child, files, changes>>
  BY DEF T!Stat, T!wire, T!disk
<1>1. pc' = CASE sbuf'.mode = "absent" -> "404"
              [] sbuf'.mode # "absent" /\ T!IsStatic(uri) ->
                    IF T!Regular(sbuf') /\ T!Readable(sbuf') THEN "header" ELSE "403"
              [] OTHER -> IF T!Regular(sbuf') /\ T!Executable(sbuf') THEN "fork" ELSE "403"
  BY DEF T!Stat
<1>2. /\ T!Browsers' = T!Browsers /\ T!Sendable' = T!Sendable /\ T!InitialFiles' = T!InitialFiles
      /\ T!NoResponse' = T!NoResponse
  BY <1>0, SameWorld DEF T!NoResponse
<1>3. /\ resp[serving] = T!NoResponse /\ left = 4 /\ child = "none" /\ alive = TRUE
      /\ files \in [DOMAIN T!InitialFiles -> [mode : FileModes, size : Nat]]
      /\ changes = 0 => files = T!InitialFiles
  BY <1>0 DEF TinyInv, TinyTypes, RespInv, FileInv
<1>4. T!InitialFiles \in [DOMAIN T!InitialFiles -> [mode : T!Modes, size : Nat]]
  BY DEF TinyInv, TinyTypes, T!TinyAssumption, T!InitialFiles
<1>5. sbuf' \in [mode : FileModes, size : Nat]
  BY <1>0, <1>3 DEF T!File, T!NoFile, FileModes
<1>6. /\ changes = 0 /\ Named => sbuf' = T!InitialFiles[T!FileName(uri)] /\ sbuf'.mode # "absent"
      /\ changes = 0 /\ ~Named => sbuf'.mode = "absent"
  BY <1>0, <1>3, <1>4 DEF T!File, T!NoFile, Named, T!Modes
<1>7. \/ pc' = "404" /\ sbuf'.mode = "absent"
      \/ /\ pc' = "403"
         /\ sbuf'.mode \in Unreadable(uri)
      \/ pc' = "header" /\ T!IsStatic(uri) /\ T!Regular(sbuf') /\ T!Readable(sbuf')
      \/ pc' = "fork" /\ ~T!IsStatic(uri) /\ T!Executable(sbuf')
  BY <1>1, <1>5 DEF Unreadable, T!Regular, T!Readable, T!Executable, FileModes, T!Modes
<1>8. /\ Named' = Named /\ T!FileName(req.uri)' = T!FileName(uri)
      /\ T!IsStatic(req.uri)' = T!IsStatic(uri)
      /\ Unreadable(req.uri)' = Unreadable(uri)
      /\ T!Regular(sbuf)' = T!Regular(sbuf') /\ T!Readable(sbuf)' = T!Readable(sbuf')
      /\ T!Executable(sbuf)' = T!Executable(sbuf')
  <2>1. req' = req
    BY <1>0
  <2> QED BY <1>2, <2>1 DEF Named, Unreadable, T!FileName, T!IsStatic, T!Contains, T!SelectInSeq, T!Min,
          T!Last, T!Regular, T!Readable, T!Executable
<1>9. pc' # "404" => sbuf'.mode # "absent"
  BY <1>7 DEF Unreadable, T!Regular, T!Executable
<1>10. Unchanged' <=> Named /\ sbuf' = T!InitialFiles[T!FileName(uri)]
  BY <1>0, <1>2, <1>8 DEF Unchanged
<1>11. TinyTypes'
  BY <1>0, <1>2, <1>5, <1>7 DEF TinyInv, TinyTypes, TinyStages, AfterHeaders, Pages, Programs
<1>12. Within
  BY <1>0, <1>7 DEF Within
<1>13. AskedInv'
  BY <1>0, <1>7 DEF TinyInv, AskedInv, Wants, AllRead, AfterHeaders, Pages, Programs, T!Asks, T!Uri
<1>14. RespInv'
  <2>1. ErrorSent(IF left = 4 THEN "none" ELSE pc, 4 - left)' = T!NoResponse
    <3>1. ErrorSent(IF left = 4 THEN "none" ELSE pc, 4 - left)'
              = ErrorSent(IF left' = 4 THEN "none" ELSE pc', 4 - left')
      BY DEF ErrorSent, T!NoResponse
    <3> QED BY <1>0, <1>3, <3>1, NothingSent
  <2> QED BY <1>0, <1>2, <1>3, <1>7, <2>1 DEF RespInv
<1>15. FileInv'
  <2>1. pc' # "404" /\ changes = 0 => Unchanged'
    BY <1>6, <1>9, <1>10
  <2>2. pc' = "404" /\ changes = 0 => ~Named'
    BY <1>6, <1>7, <1>8
  <2>3. changes' = changes /\ files' = files
    BY <1>0
  <2> QED BY <1>2, <1>3, <1>7, <1>8, <2>1, <2>2, <2>3 DEF FileInv, Pages, Programs
<1>16. SentInv' /\ DiedInv'
  BY <1>7 DEF SentInv, DiedInv
<1> QED BY <1>11, <1>12, <1>13, <1>14, <1>15, <1>16, WithinKeeps DEF TinyInv

LEMMA ClientErrorTiny == ASSUME TinyInv, T!ClientError, T!TinyAssumption PROVE TinyInv'
<1>0. /\ pc \in {"501", "404", "403"} /\ left' = left - 1
      /\ UNCHANGED <<world, request, nsent, nread, hung, closed, queue, serving, req, sbuf, src,
                     child, files, changes>>
  BY DEF T!ClientError, T!wire, T!disk
<1>1. PICK c \in T!Browsers : c = serving
  BY <1>0 DEF TinyInv, TinyQueue
<1>2. PICK lines, r : lines = request[c] /\ r = [resp[c] EXCEPT !.status = pc, !.parts = @ + 1]
  OBVIOUS
<1>3. \/ hung[c] /\ alive' = FALSE /\ pc' = "dead" /\ UNCHANGED resp
      \/ /\ resp' = [resp EXCEPT ![c] = r] /\ UNCHANGED alive
         /\ pc' = IF left = 1 THEN "close" ELSE pc
  BY <1>1, <1>2, Zenon DEF T!ClientError, T!Write
<1>4. /\ T!Browsers' = T!Browsers /\ T!Sendable' = T!Sendable /\ T!InitialFiles' = T!InitialFiles
      /\ T!NoResponse' = T!NoResponse
  BY <1>0, SameWorld DEF T!NoResponse
<1>5. /\ left \in 1..4 /\ child = "none" /\ DOMAIN resp = T!Browsers /\ alive = TRUE
      /\ resp[c] = ErrorSent(IF left = 4 THEN "none" ELSE pc, 4 - left)
  BY <1>0, <1>1 DEF TinyInv, TinyTypes, RespInv, T!Errors
<1>6. r = ErrorSent(pc, 4 - left') /\ (left = 1 => T!ErrorPage(r)) /\ r.status = pc
  <2>1. PICK s, k : s = (IF left = 4 THEN "none" ELSE pc) /\ k = 4 - left
    OBVIOUS
  <2>2. resp[c] = ErrorSent(s, k) /\ k + 1 = 4 - left'
    BY <1>0, <1>5, <2>1
  <2>3. r = ErrorSent(pc, k + 1) /\ r.status = pc /\ r.parts = k + 1
    BY <1>2, <2>2 DEF ErrorSent, T!NoResponse
  <2> QED BY <1>0, <1>5, <2>1, <2>2, <2>3 DEF T!ErrorPage, T!Errors
<1>7. pc' \in {"501", "404", "403", "close", "dead"} /\ (pc' \in {"501", "404", "403"} => pc' = pc)
  BY <1>0, <1>3
<1>8. TinyTypes'
  <2>1. alive' = (pc' # "dead")
    BY <1>0, <1>3, <1>5
  <2>2. left' \in Nat /\ DOMAIN resp' = T!Browsers
    <3>1. left' \in Nat
      BY <1>0, <1>5
    <3>2. DOMAIN resp' = T!Browsers
      BY <1>3, <1>5
    <3> QED BY <3>1, <3>2
  <2> QED BY <1>0, <1>4, <1>7, <2>1, <2>2 DEF TinyInv, TinyTypes, TinyStages, AfterHeaders
<1>9. Within
  BY <1>0, <1>1, <1>3, <1>5, <1>7 DEF Within
<1>10. AskedInv'
  <2>1. T!Asks(request[serving])' = T!Asks(request[serving])
        /\ Wants(request[serving], req)' = Wants(request[serving], req)
    BY <1>0 DEF Wants, T!Asks, T!Uri
  <2> QED BY <1>0, <1>7, <2>1 DEF TinyInv, AskedInv, AllRead, AfterHeaders, Pages, Programs
<1>11. RespInv'
  <2>1. ASSUME pc' \in T!Errors
        PROVE  left' \in 1..4 /\ left' # 4 /\ resp'[c] = ErrorSent(pc', 4 - left')
    <3>1. pc' = pc /\ left # 1 /\ resp' = [resp EXCEPT ![c] = r]
      BY <1>0, <1>3, <1>7, <2>1 DEF T!Errors
    <3> QED BY <1>0, <1>5, <1>6, <3>1
  <2>2. ErrorSent(IF left = 4 THEN "none" ELSE pc, 4 - left)'
            = ErrorSent(IF left' = 4 THEN "none" ELSE pc', 4 - left')
    BY DEF ErrorSent, T!NoResponse
  <2> QED BY <1>0, <1>1, <1>5, <1>7, <2>1, <2>2 DEF RespInv
<1>12. FileInv'
  <2>1. Named' = Named /\ Unreadable(req.uri)' = Unreadable(req.uri) /\ Unchanged' = Unchanged
    BY <1>0, SameNames DEF Unchanged
  <2> QED BY <1>0, <1>4, <1>7, <2>1 DEF TinyInv, FileInv, Pages, Programs
<1>13. SentInv'
  <2> SUFFICES ASSUME pc' = "close", ~hung[c]
               PROVE  /\ CompleteFor(serving)' /\ (changes = 0 => RightFor(serving)')
                      /\ \/ nread[serving] = Len(request[serving])
                         \/ (T!Asks(request[serving]) => request[serving][1].words[1] # "GET")'
    BY <1>0, <1>1 DEF SentInv
  <2>1. left = 1 /\ resp'[c] = r
    BY <1>0, <1>3, <1>5
  <2>2. CompleteFor(c)'
    BY <1>6, <2>1 DEF CompleteFor, T!ErrorPage, T!Errors
  <2>3. \/ nread[serving] = Len(request[serving])
        \/ (T!Asks(request[serving]) => request[serving][1].words[1] # "GET")'
    BY <1>0, <1>1 DEF TinyInv, AskedInv, AllRead, AfterHeaders, T!Asks
  <2>4. ASSUME changes = 0, T!Asks(lines) PROVE T!Expected(lines, r)
    <3>1. CASE pc = "501"
      <4>1. lines[1].words[1] # "GET"
        BY <1>1, <1>2, <2>4, <3>1 DEF TinyInv, AskedInv
      <4> QED BY <1>6, <3>1, <4>1 DEF T!Expected
    <3>2. CASE pc \in {"404", "403"}
      <4>1. req.uri = T!Uri(lines)
        BY <1>1, <1>2, <2>4, <3>2 DEF TinyInv, AskedInv, Wants, AfterHeaders
      <4>2. T!Uri(lines) \in T!Uris
        <5>1. lines \in T!Sendable /\ world \in DOMAIN Worlds
          BY <1>2 DEF TinyInv, TinyTypes
        <5>2. Len(lines) \in Nat /\ Len(lines) > 0 /\ Len(lines[1].words) >= 2
          BY <2>4, <5>1, LineIs DEF T!Asks
        <5> QED BY <5>1, <5>2, LineIs DEF T!Uri
      <4>3. CASE pc = "404"
        <5>1. T!FileName(T!Uri(lines)) \notin DOMAIN T!InitialFiles
          BY <2>4, <4>1, <4>3 DEF TinyInv, FileInv, Named
        <5> QED BY <1>6, <4>2, <4>3, <5>1, ExpectNone DEF TinyInv, TinyTypes
      <4>4. CASE pc = "403"
        <5>1. /\ T!FileName(T!Uri(lines)) \in DOMAIN T!InitialFiles
              /\ T!InitialFiles[T!FileName(T!Uri(lines))].mode \in Unreadable(T!Uri(lines))
          BY <2>4, <4>1, <4>4 DEF TinyInv, FileInv, Named, Unchanged
        <5>2. Suits(T!Uri(lines), T!FileName(T!Uri(lines)), r)
          BY <1>6, <4>4, <5>1 DEF Suits
        <5> QED BY <4>2, <5>1, <5>2, ExpectFile DEF TinyInv, TinyTypes
      <4> QED BY <3>2, <4>3, <4>4
    <3> QED BY <1>0, <3>1, <3>2
  <2>5. changes = 0 => RightFor(c)'
    BY <1>0, <1>2, <2>1, <2>4, RightNow
  <2> QED BY <1>0, <1>1, <2>2, <2>3, <2>5
<1>14. DiedInv'
  BY <1>0, <1>1, <1>3, <1>7 DEF TinyInv, DiedInv
<1> QED BY <1>8, <1>9, <1>10, <1>11, <1>12, <1>13, <1>14, WithinKeeps DEF TinyInv

LEMMA SendHeaderTiny == ASSUME TinyInv, T!SendHeader PROVE TinyInv'
<1> DEFINE uri == req.uri
<1>0. /\ pc = "header"
      /\ UNCHANGED <<world, request, nsent, nread, hung, closed, queue, serving, req, sbuf, left,
                     src, child, files, changes>>
  BY DEF T!SendHeader, T!wire, T!local, T!disk
<1>1. PICK c \in T!Browsers : c = serving
  BY <1>0 DEF TinyInv, TinyQueue
<1>2. PICK r : r = [resp[c] EXCEPT !.status = "200", !.length = sbuf.size,
                                  !.type = T!FileType(T!FileName(uri))]
  OBVIOUS
<1>3. \/ hung[c] /\ alive' = FALSE /\ pc' = "dead" /\ UNCHANGED resp
      \/ resp' = [resp EXCEPT ![c] = r] /\ UNCHANGED alive /\ pc' = "open"
  BY <1>1, <1>2, Zenon DEF T!SendHeader, T!Write
<1>4. /\ T!Browsers' = T!Browsers /\ T!Sendable' = T!Sendable /\ T!InitialFiles' = T!InitialFiles
      /\ T!NoResponse' = T!NoResponse
  BY <1>0, SameWorld DEF T!NoResponse
<1>5. /\ child = "none" /\ DOMAIN resp = T!Browsers /\ alive = TRUE /\ resp[c] = T!NoResponse
  BY <1>0, <1>1 DEF TinyInv, TinyTypes, RespInv
<1>6. r = HeaderSent(T!FileType(T!FileName(uri)), sbuf.size)
  BY <1>2, <1>5 DEF HeaderSent, T!NoResponse
<1>7. pc' \in {"open", "dead"}
  BY <1>3
<1>8. TinyTypes'
  BY <1>0, <1>3, <1>4, <1>5, <1>7 DEF TinyInv, TinyTypes, TinyStages, AfterHeaders, Pages
<1>9. Within
  BY <1>0, <1>1, <1>3, <1>5, <1>7 DEF Within
<1>10. AskedInv'
  <2>1. T!Asks(request[serving])' = T!Asks(request[serving])
        /\ Wants(request[serving], req)' = Wants(request[serving], req)
    BY <1>0 DEF Wants, T!Asks, T!Uri
  <2> QED BY <1>0, <1>7, <2>1 DEF TinyInv, AskedInv, AllRead, AfterHeaders, Pages, Programs
<1>11. RespInv'
  <2>1. pc' = "open" => resp'[c] = HeaderSent(T!FileType(T!FileName(uri)), sbuf.size)
    BY <1>3, <1>5, <1>6
  <2>2. HeaderSent(T!FileType(T!FileName(req.uri)), sbuf.size)'
            = HeaderSent(T!FileType(T!FileName(uri)), sbuf.size)
    <3>1. T!FileType(T!FileName(req.uri))' = T!FileType(T!FileName(uri))
      BY <1>0, SameNames
    <3> QED BY <1>0, <3>1 DEF HeaderSent, T!NoResponse
  <2> QED BY <1>0, <1>1, <1>5, <1>7, <2>1, <2>2 DEF RespInv, T!Errors
<1>12. FileInv'
  <2>1. Named' = Named /\ Unchanged' = Unchanged /\ T!IsStatic(req.uri)' = T!IsStatic(req.uri)
    BY <1>0, SameNames DEF Unchanged
  <2>2. T!Regular(sbuf)' = T!Regular(sbuf) /\ T!Readable(sbuf)' = T!Readable(sbuf)
    BY <1>0 DEF T!Regular, T!Readable
  <2> QED BY <1>0, <1>4, <1>7, <2>1, <2>2 DEF TinyInv, FileInv, Pages, Programs
<1>13. SentInv' /\ DiedInv'
  BY <1>0, <1>1, <1>3, <1>7 DEF TinyInv, SentInv, DiedInv
<1> QED BY <1>8, <1>9, <1>10, <1>11, <1>12, <1>13, WithinKeeps DEF TinyInv

LEMMA OpenTiny == ASSUME TinyInv, T!Open PROVE TinyInv'
<1> DEFINE f == T!File(T!FileName(req.uri))
<1>0. /\ pc = "open"
      /\ UNCHANGED <<world, request, nsent, nread, hung, closed, queue, resp, serving, req, sbuf,
                     left, child, files, changes>>
      /\ \/ /\ T!Regular(f) /\ T!Readable(f)
            /\ pc' = "mmap" /\ src' = f.size /\ UNCHANGED alive
         \/ /\ ~(T!Regular(f) /\ T!Readable(f))
            /\ pc' = "dead" /\ alive' = FALSE /\ UNCHANGED src
  BY DEF T!Open, T!wire, T!disk
<1>1. PICK c \in T!Browsers : c = serving
  BY <1>0 DEF TinyInv, TinyQueue
<1>2. /\ T!Browsers' = T!Browsers /\ T!Sendable' = T!Sendable /\ T!InitialFiles' = T!InitialFiles
      /\ T!NoResponse' = T!NoResponse
  BY <1>0, SameWorld DEF T!NoResponse
<1>3. /\ child = "none" /\ alive = TRUE /\ src \in Nat /\ changes \in Nat
      /\ files \in [DOMAIN T!InitialFiles -> [mode : FileModes, size : Nat]]
      /\ T!Regular(sbuf) /\ T!Readable(sbuf)
      /\ changes = 0 => files = T!InitialFiles /\ Unchanged
  BY <1>0 DEF TinyInv, TinyTypes, RespInv, FileInv, Pages
<1>4. f \in [mode : FileModes, size : Nat]
  BY <1>3 DEF T!File, T!NoFile, FileModes
<1>5. changes = 0 => f = sbuf
  BY <1>3 DEF T!File, Unchanged, Named
<1>6. pc' \in {"mmap", "dead"} /\ (pc' = "dead" => changes > 0)
  <2>1. changes = 0 => T!Regular(f) /\ T!Readable(f)
    BY <1>3, <1>5 DEF T!Regular, T!Readable
  <2> HIDE DEF f
  <2>2. pc' \in {"mmap", "dead"} /\ (pc' = "dead" => ~(T!Regular(f) /\ T!Readable(f)))
    BY <1>0, Zenon
  <2>3. pc' = "dead" => changes # 0
    BY <2>1, <2>2
  <2> QED BY <1>3, <2>2, <2>3
<1>7. TinyTypes'
  <2>1. src' \in Nat /\ alive' = (pc' # "dead")
    BY <1>0, <1>3, <1>4
  <2> QED BY <1>0, <1>2, <1>6, <2>1 DEF TinyInv, TinyTypes, TinyStages, AfterHeaders, Pages
<1>8. Within
  BY <1>0, <1>6 DEF Within
<1>9. AskedInv'
  <2>1. T!Asks(request[serving])' = T!Asks(request[serving])
        /\ Wants(request[serving], req)' = Wants(request[serving], req)
    BY <1>0 DEF Wants, T!Asks, T!Uri
  <2> QED BY <1>0, <1>6, <2>1 DEF TinyInv, AskedInv, AllRead, AfterHeaders, Pages, Programs
<1>10. RespInv'
  <2>1. HeaderSent(T!FileType(T!FileName(req.uri)), sbuf.size)'
            = HeaderSent(T!FileType(T!FileName(req.uri)), sbuf.size)
    <3>1. T!FileType(T!FileName(req.uri))' = T!FileType(T!FileName(req.uri))
      BY <1>0, SameNames
    <3> QED BY <1>0, <3>1 DEF HeaderSent, T!NoResponse
  <2> QED BY <1>0, <1>6, <2>1 DEF TinyInv, RespInv, T!Errors
<1>11. FileInv'
  <2>1. Named' = Named /\ Unchanged' = Unchanged /\ T!IsStatic(req.uri)' = T!IsStatic(req.uri)
    BY <1>0, SameNames DEF Unchanged
  <2>2. T!Regular(sbuf)' = T!Regular(sbuf) /\ T!Readable(sbuf)' = T!Readable(sbuf)
    BY <1>0 DEF T!Regular, T!Readable
  <2>3. pc' = "mmap" /\ changes = 0 => src' = sbuf.size
    BY <1>0, <1>5
  <2> QED BY <1>0, <1>2, <1>6, <2>1, <2>2, <2>3 DEF TinyInv, FileInv, Pages, Programs
<1>12. SentInv' /\ DiedInv'
  BY <1>0, <1>6 DEF SentInv, DiedInv
<1> QED BY <1>7, <1>8, <1>9, <1>10, <1>11, <1>12, WithinKeeps DEF TinyInv

LEMMA MmapTiny == ASSUME TinyInv, T!Mmap PROVE TinyInv'
<1>0. /\ pc = "mmap"
      /\ UNCHANGED <<world, request, nsent, nread, hung, closed, queue, resp, serving, req, sbuf,
                     left, src, child, files, changes>>
      /\ \/ sbuf.size > 0 /\ pc' = "body" /\ UNCHANGED alive
         \/ ~(sbuf.size > 0) /\ pc' = "dead" /\ alive' = FALSE
  BY DEF T!Mmap, T!wire, T!local, T!disk
<1>1. /\ T!Browsers' = T!Browsers /\ T!Sendable' = T!Sendable /\ T!InitialFiles' = T!InitialFiles
      /\ T!NoResponse' = T!NoResponse
  BY <1>0, SameWorld DEF T!NoResponse
<1>2. /\ child = "none" /\ alive = TRUE /\ sbuf.size \in Nat /\ sbuf.mode # "absent"
  BY <1>0 DEF TinyInv, TinyTypes, RespInv, FileInv, Pages, T!Regular
<1>3. pc' \in {"body", "dead"} /\ (pc' = "dead" => sbuf.size = 0)
  <2>1. pc' \in {"body", "dead"} /\ (pc' = "dead" => ~(sbuf.size > 0))
    BY <1>0, Zenon
  <2> QED BY <1>2, <2>1
<1>4. TinyTypes'
  BY <1>0, <1>1, <1>2, <1>3 DEF TinyInv, TinyTypes, TinyStages, AfterHeaders, Pages
<1>5. Within
  BY <1>0, <1>3 DEF Within
<1>6. AskedInv'
  <2>1. T!Asks(request[serving])' = T!Asks(request[serving])
        /\ Wants(request[serving], req)' = Wants(request[serving], req)
    BY <1>0 DEF Wants, T!Asks, T!Uri
  <2> QED BY <1>0, <1>3, <2>1 DEF TinyInv, AskedInv, AllRead, AfterHeaders, Pages, Programs
<1>7. RespInv'
  <2>1. HeaderSent(T!FileType(T!FileName(req.uri)), sbuf.size)'
            = HeaderSent(T!FileType(T!FileName(req.uri)), sbuf.size)
    <3>1. T!FileType(T!FileName(req.uri))' = T!FileType(T!FileName(req.uri))
      BY <1>0, SameNames
    <3> QED BY <1>0, <3>1 DEF HeaderSent, T!NoResponse
  <2> QED BY <1>0, <1>3, <2>1 DEF TinyInv, RespInv, T!Errors
<1>8. FileInv'
  <2>1. Named' = Named /\ Unchanged' = Unchanged /\ T!IsStatic(req.uri)' = T!IsStatic(req.uri)
    BY <1>0, SameNames DEF Unchanged
  <2>2. T!Regular(sbuf)' = T!Regular(sbuf) /\ T!Readable(sbuf)' = T!Readable(sbuf)
    BY <1>0 DEF T!Regular, T!Readable
  <2> QED BY <1>0, <1>1, <1>3, <2>1, <2>2 DEF TinyInv, FileInv, Pages, Programs
<1>9. SentInv' /\ DiedInv'
  BY <1>0, <1>2, <1>3 DEF SentInv, DiedInv
<1> QED BY <1>4, <1>5, <1>6, <1>7, <1>8, <1>9, WithinKeeps DEF TinyInv

(* The mapping covers the file.                                            *)
LEMMA MappedIs ==
    ASSUME T!TinyAssumption, src \in Nat
    PROVE  T!Mapped >= src /\ T!Mapped \in Nat
<1>1. PICK d : d = PAGE
  OBVIOUS
<1>2. d \in Nat /\ d > 0
  BY <1>1 DEF T!TinyAssumption
<1>3. PICK q : q = (src + d - 1) \div d
  OBVIOUS
<1>4. q \in Nat /\ q * d >= src
  BY <1>2, <1>3
<1>5. q * d \in Nat
  BY <1>2, <1>4
<1> QED BY <1>1, <1>3, <1>4, <1>5 DEF T!Mapped

LEMMA SendBodyTiny == ASSUME TinyInv, T!SendBody, T!TinyAssumption PROVE TinyInv'
<1> DEFINE uri == req.uri
<1>0. /\ pc = "body"
      /\ UNCHANGED <<world, request, nsent, nread, hung, closed, queue, serving, req, sbuf, left,
                     src, child, files, changes>>
  BY DEF T!SendBody, T!wire, T!local, T!disk
<1>1. PICK c \in T!Browsers : c = serving
  BY <1>0 DEF TinyInv, TinyQueue
<1>2. PICK r, p : /\ r = [resp[c] EXCEPT !.body = sbuf.size, !.zeros = T!Max({0, sbuf.size - src})]
                  /\ p = [resp EXCEPT ![c].body = T!Mapped, ![c].zeros = T!Mapped - src]
  OBVIOUS
<1>3. \/ sbuf.size <= T!Mapped /\ hung[c] /\ alive' = FALSE /\ pc' = "dead" /\ UNCHANGED resp
      \/ /\ sbuf.size <= T!Mapped /\ resp' = [resp EXCEPT ![c] = r] /\ UNCHANGED alive
         /\ pc' = "close"
      \/ ~(sbuf.size <= T!Mapped) /\ resp' = p /\ alive' = FALSE /\ pc' = "dead"
  BY <1>1, <1>2, Zenon DEF T!SendBody, T!Write
<1>4. /\ T!Browsers' = T!Browsers /\ T!Sendable' = T!Sendable /\ T!InitialFiles' = T!InitialFiles
      /\ T!NoResponse' = T!NoResponse
  BY <1>0, SameWorld DEF T!NoResponse
<1>5. /\ child = "none" /\ DOMAIN resp = T!Browsers /\ alive = TRUE
      /\ resp[c] = HeaderSent(T!FileType(T!FileName(uri)), sbuf.size)
      /\ sbuf.size \in Nat /\ src \in Nat /\ changes \in Nat
      /\ changes = 0 => src = sbuf.size /\ Unchanged
      /\ T!IsStatic(uri) /\ T!Regular(sbuf) /\ T!Readable(sbuf)
      /\ hung[c] \/ nread[c] = Len(request[c])
  BY <1>0, <1>1 DEF TinyInv, TinyTypes, RespInv, FileInv, AskedInv, AllRead, AfterHeaders, Pages
<1>6. /\ r.status = "200" /\ r.length = sbuf.size /\ r.body = sbuf.size
      /\ r.type = T!FileType(T!FileName(uri)) /\ r.zeros = T!Max({0, sbuf.size - src})
  BY <1>2, <1>5 DEF HeaderSent, T!NoResponse
<1>7. /\ DOMAIN p = T!Browsers /\ \A x \in T!Browsers : x # c => p[x] = resp[x]
  BY <1>2, <1>5
<1>8. pc' \in {"close", "dead"} /\ DOMAIN resp' = T!Browsers
      /\ \A x \in T!Browsers : x # c => resp'[x] = resp[x]
  BY <1>3, <1>5, <1>7
<1>9. TinyTypes'
  BY <1>0, <1>3, <1>4, <1>5, <1>8 DEF TinyInv, TinyTypes, TinyStages
<1>10. Within
  BY <1>0, <1>1, <1>8 DEF Within
<1>11. AskedInv' /\ RespInv' /\ FileInv'
  BY <1>0, <1>4, <1>5, <1>8 DEF TinyInv, AskedInv, RespInv, FileInv, AfterHeaders, Pages, Programs,
        T!Errors
<1>12. SentInv'
  <2> SUFFICES ASSUME pc' = "close", ~hung[c]
               PROVE  /\ CompleteFor(serving)' /\ (changes = 0 => RightFor(serving)')
                      /\ nread[serving] = Len(request[serving])
    BY <1>0, <1>1 DEF SentInv
  <2>1. resp'[c] = r
    BY <1>3, <1>5
  <2>2. CompleteFor(c)'
    BY <1>6, <2>1 DEF CompleteFor, T!FilePage
  <2>3. ASSUME changes = 0, T!Asks(request[c]) PROVE T!Expected(request[c], r)
    <3>1. PICK lines \in T!Sendable : lines = request[c]
      BY DEF TinyInv, TinyTypes
    <3>2. uri = T!Uri(lines)
      BY <1>0, <1>1, <2>3, <3>1 DEF TinyInv, AskedInv, Wants, AfterHeaders, Pages
    <3>3. T!Uri(lines) \in T!Uris
      <4>1. Len(lines) \in Nat /\ Len(lines) > 0 /\ Len(lines[1].words) >= 2
        BY <2>3, <3>1, LineIs DEF T!Asks, TinyInv, TinyTypes
      <4> QED BY <3>1, <4>1, LineIs DEF T!Uri, TinyInv, TinyTypes
    <3>4. T!FileName(uri) \in DOMAIN T!InitialFiles /\ sbuf = T!InitialFiles[T!FileName(uri)]
      BY <1>5, <2>3 DEF Unchanged, Named
    <3>5. r.zeros = 0
      <4>1. sbuf.size - src = 0
        BY <1>5, <2>3
      <4>2. T!Max({0, sbuf.size - src}) = 0
        BY <4>1 DEF T!Max
      <4> QED BY <1>6, <4>2
    <3>6. sbuf.mode \in {"page", "program", "broken", "hanging"}
      BY <1>5 DEF T!Regular, T!Readable, TinyInv, TinyTypes, FileModes, T!Modes
    <3>7. Suits(uri, T!FileName(uri), r)
      BY <1>5, <1>6, <3>4, <3>5, <3>6 DEF Suits
    <3> QED BY <3>1, <3>2, <3>3, <3>4, <3>7, ExpectFile DEF TinyInv, TinyTypes
  <2>4. changes = 0 => RightFor(c)'
    BY <1>0, <2>1, <2>3, RightNow
  <2> QED BY <1>0, <1>1, <1>5, <2>2, <2>4
<1>13. DiedInv'
  <2>1. changes = 0 => sbuf.size <= T!Mapped
    BY <1>5, MappedIs
  <2> QED BY <1>0, <1>1, <1>3, <1>5, <2>1 DEF DiedInv
<1> QED BY <1>9, <1>10, <1>11, <1>12, <1>13, WithinKeeps DEF TinyInv

LEMMA ForkTiny == ASSUME TinyInv, T!Fork PROVE TinyInv'
<1>0. /\ pc = "fork" /\ pc' = "wait" /\ child' = "forked"
      /\ UNCHANGED <<world, request, nsent, nread, hung, closed, queue, resp, alive, serving, req,
                     sbuf, left, src, files, changes>>
  BY DEF T!Fork, T!wire, T!local, T!disk
<1>1. /\ T!Browsers' = T!Browsers /\ T!Sendable' = T!Sendable /\ T!InitialFiles' = T!InitialFiles
      /\ T!NoResponse' = T!NoResponse
  BY <1>0, SameWorld DEF T!NoResponse
<1>2. TinyTypes'
  BY <1>0, <1>1 DEF TinyInv, TinyTypes, TinyStages, AfterHeaders, Programs
<1>3. Within
  BY <1>0 DEF Within
<1>4. AskedInv'
  <2>1. T!Asks(request[serving])' = T!Asks(request[serving])
        /\ Wants(request[serving], req)' = Wants(request[serving], req)
    BY <1>0 DEF Wants, T!Asks, T!Uri
  <2> QED BY <1>0, <2>1 DEF TinyInv, AskedInv, AllRead, AfterHeaders, Pages, Programs
<1>5. RespInv'
  BY <1>0, <1>1 DEF TinyInv, RespInv, T!Errors
<1>6. FileInv'
  <2>1. Named' = Named /\ Unchanged' = Unchanged /\ T!IsStatic(req.uri)' = T!IsStatic(req.uri)
    BY <1>0, SameNames DEF Unchanged
  <2>2. T!Executable(sbuf)' = T!Executable(sbuf)
    BY <1>0 DEF T!Executable
  <2> QED BY <1>0, <1>1, <2>1, <2>2 DEF TinyInv, FileInv, Pages, Programs
<1>7. SentInv' /\ DiedInv'
  BY <1>0 DEF SentInv, DiedInv
<1> QED BY <1>2, <1>3, <1>4, <1>5, <1>6, <1>7, WithinKeeps DEF TinyInv

(* The child has written to the connection.                                *)
Written(c, text) == [resp EXCEPT ![c].result = @ \o text]
IsText(text) == \E S : text \in Seq(S)

LEMMA ChildWrites ==
    ASSUME NEW c \in T!Browsers, resp[c] = T!NoResponse, DOMAIN resp = T!Browsers,
           NEW text, IsText(text), resp' = Written(c, text)
    PROVE  /\ DOMAIN resp' = T!Browsers /\ resp'[c] = Output(text)
           /\ \A x \in T!Browsers : x # c => resp'[x] = resp[x]
<1>1. PICK S : text \in Seq(S)
  BY DEF IsText
<1>2. T!NoResponse.result \o text = text
  BY <1>1, NothingSent, ConcatEmptySeq
<1>3. resp' = [resp EXCEPT ![c] = [T!NoResponse EXCEPT !.result = T!NoResponse.result \o text]]
  BY DEF Written
<1> QED BY <1>2, <1>3 DEF Output

LEMMA TuplesAreText == \A a, b, c : IsText(<<>>) /\ IsText(<<a>>) /\ IsText(<<a, b, c>>)
<1> SUFFICES ASSUME NEW a, NEW b, NEW c PROVE IsText(<<>>) /\ IsText(<<a>>) /\ IsText(<<a, b, c>>)
  OBVIOUS
<1> DEFINE S == {a, b, c}
<1>1. a \in S /\ b \in S /\ c \in S
  OBVIOUS
<1> HIDE DEF S
<1>2. <<>> \in Seq(S) /\ <<a>> \in Seq(S) /\ <<a, b, c>> \in Seq(S)
  BY <1>1
<1> QED BY <1>2 DEF IsText

LEMMA AdderIs == ASSUME NEW args PROVE IsText(T!Adder(args)) /\ T!Adder(args) # <<>>
<1>1. PICK t : t = T!Adder(args)
  OBVIOUS
<1>2. \/ t = <<"usage">>
      \/ \E u, v : t = <<"sum", u, v>>
  BY <1>1 DEF T!Adder
<1>3. t # <<>>
  BY <1>2
<1>4. IsText(t)
  BY <1>2, TuplesAreText
<1> QED BY <1>1, <1>3, <1>4

LEMMA ChildExecsTiny == ASSUME TinyInv, T!ChildExecs PROVE TinyInv'
<1> DEFINE f == T!File(T!FileName(req.uri))
<1>0. /\ child = "forked"
      /\ UNCHANGED <<world, request, nsent, nread, hung, closed, queue, alive, serving, pc, req,
                     sbuf, left, src, files, changes>>
  BY DEF T!ChildExecs, T!wire, T!local, T!disk
<1>1. /\ pc = "wait" /\ resp[serving] = T!NoResponse /\ ~T!IsStatic(req.uri)
      /\ T!Executable(sbuf) /\ DOMAIN resp = T!Browsers
      /\ changes = 0 => files = T!InitialFiles /\ Unchanged
  BY <1>0 DEF TinyInv, TinyTypes, RespInv, FileInv, Programs
<1>2. PICK c \in T!Browsers : c = serving
  BY <1>1 DEF TinyInv, TinyQueue
<1>3. \/ f.mode \in {"program", "hanging"} /\ child' = "running" /\ resp' = resp
      \/ /\ f.mode \notin {"program", "hanging"} /\ child' = "exited"
         /\ \E log \in {<<>>, <<"log">>} : resp' = [resp EXCEPT ![c].result = @ \o log]
  BY <1>2 DEF T!ChildExecs
<1>4. changes = 0 => f = sbuf
  BY <1>1 DEF T!File, Unchanged, Named
<1>5. child' \in {"running", "exited"}
      /\ (child' = "running" =>
            resp' = resp /\ (changes = 0 => sbuf.mode \in {"program", "hanging"}))
  BY <1>3, <1>4
<1>6. child' = "exited" =>
         /\ resp'[c] \in {Output(<<>>), Output(<<"log">>)} /\ DOMAIN resp' = T!Browsers
         /\ \A x \in T!Browsers : x # c => resp'[x] = resp[x]
         /\ changes = 0 => sbuf.mode = "broken"
  <2> SUFFICES ASSUME child' = "exited" PROVE /\ resp'[c] \in {Output(<<>>), Output(<<"log">>)}
                                              /\ DOMAIN resp' = T!Browsers
                                              /\ \A x \in T!Browsers : x # c => resp'[x] = resp[x]
                                              /\ changes = 0 => sbuf.mode = "broken"
    OBVIOUS
  <2>1. PICK log \in {<<>>, <<"log">>} : resp' = [resp EXCEPT ![c].result = @ \o log]
    BY <1>3
  <2>2. IsText(log) /\ resp' = Written(c, log)
    BY <2>1, TuplesAreText DEF Written
  <2>3. /\ resp'[c] = Output(log) /\ DOMAIN resp' = T!Browsers
        /\ \A x \in T!Browsers : x # c => resp'[x] = resp[x]
    BY <1>1, <1>2, <2>2, ChildWrites
  <2>4. changes = 0 => sbuf.mode \notin {"program", "hanging"}
    BY <1>3, <1>4
  <2>5. changes = 0 => sbuf.mode = "broken"
    BY <1>1, <2>4 DEF T!Executable
  <2> QED BY <2>1, <2>3, <2>5
<1>7. DOMAIN resp' = T!Browsers /\ \A x \in T!Browsers : x # c => resp'[x] = resp[x]
  BY <1>1, <1>5, <1>6
<1>8. /\ T!Browsers' = T!Browsers /\ T!Sendable' = T!Sendable /\ T!InitialFiles' = T!InitialFiles
      /\ T!NoResponse' = T!NoResponse
  BY <1>0, SameWorld DEF T!NoResponse
<1>9. TinyTypes'
  BY <1>0, <1>7, <1>8 DEF TinyInv, TinyTypes
<1>10. Within
  BY <1>0, <1>1, <1>2, <1>7 DEF Within
<1>11. AskedInv'
  <2>1. T!Asks(request[serving])' = T!Asks(request[serving])
        /\ Wants(request[serving], req)' = Wants(request[serving], req)
    BY <1>0 DEF Wants, T!Asks, T!Uri
  <2> QED BY <1>0, <2>1 DEF TinyInv, AskedInv, AllRead
<1>12. RespInv'
  <2>1. Output(<<>>)' = Output(<<>>) /\ Output(<<"log">>)' = Output(<<"log">>)
    BY DEF Output, T!NoResponse
  <2> QED BY <1>0, <1>1, <1>2, <1>5, <1>6, <1>8, <2>1 DEF RespInv, T!Errors
<1>13. FileInv'
  <2>1. Named' = Named /\ Unchanged' = Unchanged /\ T!IsStatic(req.uri)' = T!IsStatic(req.uri)
    BY <1>0, SameNames DEF Unchanged
  <2>2. T!Executable(sbuf)' = T!Executable(sbuf)
    BY <1>0 DEF T!Executable
  <2> QED BY <1>0, <1>1, <1>5, <1>6, <1>8, <2>1, <2>2 DEF FileInv, Pages, Programs
<1>14. SentInv' /\ DiedInv'
  BY <1>0, <1>1 DEF SentInv, DiedInv
<1> QED BY <1>9, <1>10, <1>11, <1>12, <1>13, <1>14, WithinKeeps DEF TinyInv

LEMMA ChildEndsTiny == ASSUME TinyInv, T!ChildEnds PROVE TinyInv'
<1>0. /\ child = "running" /\ sbuf.mode # "hanging" /\ child' = "exited"
      /\ UNCHANGED <<world, request, nsent, nread, hung, closed, queue, alive, serving, pc, req,
                     sbuf, left, src, files, changes>>
      /\ resp' = [resp EXCEPT ![serving].result = @ \o T!Adder(T!CgiArgs(req.uri))]
  BY DEF T!ChildEnds, T!wire, T!local, T!disk
<1>1. /\ pc = "wait" /\ resp[serving] = T!NoResponse /\ ~T!IsStatic(req.uri)
      /\ T!Executable(sbuf) /\ DOMAIN resp = T!Browsers
      /\ changes = 0 => files = T!InitialFiles /\ Unchanged /\ sbuf.mode = "program"
  BY <1>0 DEF TinyInv, TinyTypes, RespInv, FileInv, Programs
<1>2. PICK c \in T!Browsers : c = serving
  BY <1>1 DEF TinyInv, TinyQueue
<1>3. PICK text : text = T!Adder(T!CgiArgs(req.uri))
  OBVIOUS
<1>4. /\ resp'[c] = Output(text) /\ DOMAIN resp' = T!Browsers
      /\ \A x \in T!Browsers : x # c => resp'[x] = resp[x]
  <2>1. IsText(text)
    BY <1>3, AdderIs
  <2>2. resp' = Written(c, text)
    BY <1>0, <1>2, <1>3 DEF Written
  <2> QED BY <1>1, <1>2, <2>1, <2>2, ChildWrites
<1>5. /\ T!Browsers' = T!Browsers /\ T!Sendable' = T!Sendable /\ T!InitialFiles' = T!InitialFiles
      /\ T!NoResponse' = T!NoResponse
  BY <1>0, SameWorld DEF T!NoResponse
<1>6. Output(T!Adder(T!CgiArgs(req.uri)))' = Output(text)
  <2>1. T!Adder(T!CgiArgs(req.uri))' = text
    BY <1>0, <1>3, SameNames
  <2> QED BY <2>1 DEF Output, T!NoResponse
<1>7. TinyTypes'
  BY <1>0, <1>4, <1>5 DEF TinyInv, TinyTypes
<1>8. Within
  BY <1>0, <1>1, <1>2, <1>4 DEF Within
<1>9. AskedInv'
  <2>1. T!Asks(request[serving])' = T!Asks(request[serving])
        /\ Wants(request[serving], req)' = Wants(request[serving], req)
    BY <1>0 DEF Wants, T!Asks, T!Uri
  <2> QED BY <1>0, <2>1 DEF TinyInv, AskedInv, AllRead
<1>10. RespInv'
  BY <1>0, <1>1, <1>2, <1>4, <1>6 DEF RespInv, T!Errors
<1>11. FileInv'
  <2>1. Named' = Named /\ Unchanged' = Unchanged /\ T!IsStatic(req.uri)' = T!IsStatic(req.uri)
    BY <1>0, SameNames DEF Unchanged
  <2>2. T!Executable(sbuf)' = T!Executable(sbuf)
    BY <1>0 DEF T!Executable
  <2> QED BY <1>0, <1>1, <1>2, <1>4, <1>5, <1>6, <2>1, <2>2 DEF FileInv, Pages, Programs
<1>12. SentInv' /\ DiedInv'
  BY <1>0, <1>1 DEF SentInv, DiedInv
<1> QED BY <1>7, <1>8, <1>9, <1>10, <1>11, <1>12, WithinKeeps DEF TinyInv

LEMMA WaitTiny == ASSUME TinyInv, T!Wait, T!TinyAssumption PROVE TinyInv'
<1> DEFINE uri == req.uri
<1>0. /\ pc = "wait" /\ child = "exited" /\ child' = "none" /\ pc' = "close"
      /\ UNCHANGED <<world, request, nsent, nread, hung, closed, queue, resp, alive, serving, req,
                     sbuf, left, src, files, changes>>
  BY DEF T!Wait, T!wire, T!local, T!disk
<1>1. PICK c \in T!Browsers : c = serving
  BY <1>0 DEF TinyInv, TinyQueue
<1>2. PICK r, text : r = resp[c] /\ text = T!Adder(T!CgiArgs(uri))
  OBVIOUS
<1>3. /\ r \in {Output(<<>>), Output(<<"log">>), Output(text)}
      /\ ~T!IsStatic(uri) /\ (hung[c] \/ nread[c] = Len(request[c]))
      /\ changes = 0 => /\ Unchanged
                        /\ (sbuf.mode = "program" /\ r = Output(text)) \/ sbuf.mode = "broken"
  BY <1>0, <1>1, <1>2 DEF TinyInv, RespInv, FileInv, AskedInv, AllRead, AfterHeaders, Programs
<1>4. /\ Output(<<>>) = T!NoResponse /\ text # <<>>
  BY <1>2, AdderIs, NothingSent
<1>5. /\ T!Browsers' = T!Browsers /\ T!Sendable' = T!Sendable /\ T!InitialFiles' = T!InitialFiles
      /\ T!NoResponse' = T!NoResponse
  BY <1>0, SameWorld DEF T!NoResponse
<1>6. TinyTypes'
  BY <1>0, <1>5 DEF TinyInv, TinyTypes, TinyStages
<1>7. Within
  BY <1>0 DEF Within
<1>8. AskedInv' /\ RespInv' /\ FileInv' /\ DiedInv'
  BY <1>0, <1>5 DEF TinyInv, AskedInv, RespInv, FileInv, DiedInv, AfterHeaders, Pages, Programs,
        T!Errors
<1>9. ASSUME T!Asks(request[c]) PROVE uri = T!Uri(request[c]) /\ T!Uri(request[c]) \in T!Uris
  <2>1. PICK lines \in T!Sendable : lines = request[c]
    BY DEF TinyInv, TinyTypes
  <2>2. uri = T!Uri(lines)
    BY <1>0, <1>1, <1>9, <2>1 DEF TinyInv, AskedInv, Wants, AfterHeaders, Programs
  <2>3. Len(lines) \in Nat /\ Len(lines) > 0 /\ Len(lines[1].words) >= 2
    BY <1>9, <2>1, LineIs DEF T!Asks, TinyInv, TinyTypes
  <2>4. T!Uri(lines) \in T!Uris
    BY <2>1, <2>3, LineIs DEF T!Uri, TinyInv, TinyTypes
  <2> QED BY <2>1, <2>2, <2>4
<1>10. SentInv'
  <2> SUFFICES ASSUME ~hung[c]
               PROVE  /\ CompleteFor(serving)' /\ (changes = 0 => RightFor(serving)')
                      /\ nread[serving] = Len(request[serving])
    BY <1>0, <1>1 DEF SentInv
  <2>1. CompleteFor(c)
    <3>1. T!Asks(request[c]) => ~T!IsStatic(T!Uri(request[c]))
      BY <1>3, <1>9
    <3>2. r = T!NoResponse \/ (r.status = "none" /\ r.result # <<>>)
      <4>1. CASE r = Output(<<>>)
        BY <1>4, <4>1
      <4>2. CASE r = Output(<<"log">>)
        BY <4>2, LogIs, OutputIs
      <4>3. CASE r = Output(text)
        <5>1. Output(text).status = "none" /\ Output(text).result = text
          BY OutputIs
        <5> QED BY <1>4, <4>3, <5>1
      <4> QED BY <1>3, <4>1, <4>2, <4>3
    <3> QED BY <1>2, <3>1, <3>2 DEF CompleteFor
  <2>2. CompleteFor(c)'
    BY <1>0, <2>1, CompleteStays
  <2>3. ASSUME changes = 0, T!Asks(request[c]) PROVE T!Expected(request[c], r)
    <3>1. PICK lines : lines = request[c] /\ uri = T!Uri(lines) /\ T!Uri(lines) \in T!Uris
      BY <1>9, <2>3
    <3>2. T!FileName(uri) \in DOMAIN T!InitialFiles /\ sbuf = T!InitialFiles[T!FileName(uri)]
      BY <1>3, <2>3 DEF Unchanged, Named
    <3>3. \/ sbuf.mode = "program" /\ r.result = text
          \/ sbuf.mode = "broken" /\ r.status = "none"
      BY <1>3, <2>3, OutputIs
    <3>4. Suits(uri, T!FileName(uri), r)
      BY <1>2, <1>3, <3>2, <3>3 DEF Suits
    <3> QED BY <3>1, <3>2, <3>4, ExpectFile DEF TinyInv, TinyTypes
  <2>4. changes = 0 => RightFor(c)'
    BY <1>0, <1>2, <2>3, RightNow
  <2> QED BY <1>0, <1>1, <1>3, <2>2, <2>4
<1> QED BY <1>6, <1>7, <1>8, <1>10, WithinKeeps DEF TinyInv

LEMMA CloseTiny == ASSUME TinyInv, T!Close, T!TinyAssumption PROVE TinyInv'
<1>0. /\ pc = "close" /\ closed' = [closed EXCEPT ![serving] = TRUE]
      /\ serving' = Nobody /\ pc' = "accept"
      /\ UNCHANGED <<world, request, nsent, nread, hung, queue, alive, req, sbuf, left, src, child,
                     files, changes>>
      /\ \/ UNCHANGED resp
         \/ /\ nread[serving] < Len(request[serving])
            /\ resp' = [resp EXCEPT ![serving] = T!NoResponse]
  BY DEF T!Close, T!local, T!disk
<1>1. PICK c \in T!Browsers : c = serving
  BY <1>0 DEF TinyInv, TinyQueue
<1>2. /\ T!Browsers' = T!Browsers /\ T!Sendable' = T!Sendable /\ T!InitialFiles' = T!InitialFiles
      /\ T!NoResponse' = T!NoResponse
  BY <1>0, SameWorld DEF T!NoResponse
<1>3. /\ child = "none" /\ DOMAIN resp = T!Browsers /\ alive = TRUE
      /\ closed \in [T!Browsers -> BOOLEAN] /\ nread[c] \in Nat
  BY <1>0 DEF TinyInv, TinyTypes, RespInv
<1>4. /\ DOMAIN resp' = T!Browsers /\ \A x \in T!Browsers : x # c => resp'[x] = resp[x]
      /\ \A x \in T!Browsers : x # c => closed'[x] = closed[x]
      /\ closed' \in [T!Browsers -> BOOLEAN]
  BY <1>0, <1>1, <1>3
<1>5. \/ resp'[c] = resp[c]
      \/ resp'[c] = T!NoResponse /\ nread[c] < Len(request[c])
  BY <1>0, <1>1, <1>3
<1>6. TinyTypes'
  BY <1>0, <1>2, <1>4 DEF TinyInv, TinyTypes, TinyStages
<1>7. TinyQueue'
  <2>1. queue \in Seq(T!Browsers) /\ \A i \in 1..Len(queue) : queue[i] \in T!Browsers /\ queue[i] # c
    BY <1>1 DEF TinyInv, TinyQueue
  <2>2. \A x \in T!Browsers : x # Nobody
    BY DEF TinyInv, TinyTypes, T!TinyAssumption, T!Browsers
  <2> QED BY <1>0, <1>2, <1>4, <2>1, <2>2 DEF TinyInv, TinyQueue
<1>8. AskedInv' /\ RespInv' /\ FileInv' /\ SentInv' /\ DiedInv'
  BY <1>0, <1>2, <1>3 DEF TinyInv, AskedInv, RespInv, FileInv, SentInv, DiedInv, AfterHeaders, Pages,
        Programs, T!Errors
<1>9. ClosedInv'
  <2>1. ASSUME NEW x \in T!Browsers, x # c, closed'[x], ~hung[x]
        PROVE  CompleteFor(x)' /\ (changes = 0 => RightFor(x)')
    <3>1. CompleteFor(x) /\ (changes = 0 => RightFor(x))
      BY <1>4, <2>1 DEF TinyInv, ClosedInv
    <3> QED BY <1>0, <1>4, <2>1, <3>1, RightStays, CompleteStays
  <2>2. ASSUME ~hung[c] PROVE CompleteFor(c)' /\ (changes = 0 => RightFor(c)')
    <3>1. /\ CompleteFor(c) /\ (changes = 0 => RightFor(c))
          /\ \/ nread[c] = Len(request[c])
             \/ T!Asks(request[c]) => request[c][1].words[1] # "GET"
      BY <1>0, <1>1, <2>2 DEF TinyInv, SentInv
    <3>2. CASE resp'[c] = resp[c]
      BY <1>0, <3>1, <3>2, RightStays, CompleteStays
    <3>3. CASE resp'[c] = T!NoResponse /\ nread[c] < Len(request[c])
      <4>1. T!Asks(request[c]) => request[c][1].words[1] # "GET"
        BY <1>3, <3>1, <3>3
      <4>2. T!Asks(request[c])' = T!Asks(request[c])
        BY <1>0 DEF T!Asks
      <4>3. RightFor(c)'
        BY <1>0, <1>2, <3>3, <4>1, <4>2 DEF RightFor
      <4>4. CompleteFor(c)'
        BY <1>0, <1>2, <3>3 DEF CompleteFor
      <4> QED BY <4>3, <4>4
    <3> QED BY <1>5, <3>2, <3>3
  <2> QED BY <1>0, <1>2, <2>1, <2>2 DEF ClosedInv
<1> QED BY <1>6, <1>7, <1>8, <1>9 DEF TinyInv

LEMMA StutterTiny ==
  ASSUME TinyInv, UNCHANGED tiny, UNCHANGED both, UNCHANGED <<pc, serving, queue>>
  PROVE TinyInv'
<1>0. UNCHANGED <<world, request, nsent, nread, hung, resp, closed, queue, alive, serving, pc, req,
                  sbuf, left, src, child, files, changes>>
  BY DEF tiny, both
<1>1. TinyTypes'
  BY <1>0, SameWorld DEF TinyInv, TinyTypes
<1>2. Outside
  BY <1>0 DEF Outside, TinyInv, TinyTypes
<1> QED BY <1>1, <1>2, OutsideKeeps DEF TinyInv

LEMMA TinyStep == ASSUME T!TinyAssumption, TinyInv, T!Next PROVE TinyInv'
<1>1. ASSUME T!ServerStep PROVE TinyInv'
  BY <1>1, AcceptTiny, ReadRequestTiny, ReadNothingTiny, ReadHeaderTiny, PrintDiesTiny,
     ReadHeaderAtEndTiny, OverflowTiny,
     StatTiny, ClientErrorTiny, SendHeaderTiny, OpenTiny, MmapTiny, SendBodyTiny, ForkTiny,
     WaitTiny, CloseTiny DEF T!ServerStep
<1>2. ASSUME T!ChildStep PROVE TinyInv'
  BY <1>2, ChildExecsTiny, ChildEndsTiny DEF T!ChildStep
<1>3. ASSUME NEW c \in T!Browsers, T!SendLine(c) \/ T!HangUp(c) PROVE TinyInv'
  BY <1>3, SendLineTiny, HangUpTiny
<1>4. ASSUME NEW name \in DOMAIN T!InitialFiles, T!Unlink(name) \/ T!Cut(name) PROVE TinyInv'
  BY <1>4, UnlinkTiny, CutTiny
<1> QED BY <1>1, <1>2, <1>3, <1>4 DEF T!Next

LEMMA TinyIs ==
    ASSUME TinyInv PROVE T!CompleteAnswer /\ T!RightAnswer /\ T!DiesOnlyOf /\ T!NoZombie
<1>1. T!CompleteAnswer
  BY DEF TinyInv, ClosedInv, CompleteFor, T!CompleteAnswer
<1>2. T!RightAnswer
  BY DEF TinyInv, ClosedInv, RightFor, T!RightAnswer
<1>3. T!DiesOnlyOf
  BY DEF TinyInv, TinyTypes, DiedInv, HasPercent, T!DiesOnlyOf
<1>4. T!NoZombie
  BY DEF TinyInv, RespInv, T!NoZombie
<1> QED BY <1>1, <1>2, <1>3, <1>4

(* Tiny: a client that stays gets a whole error page, as many bytes of a   *)
(* file as were announced, or what a program writes, and nothing only if   *)
(* it asked for a program or for no URI, or left lines unread; while no    *)
(* file changes it gets what it asked for, whatever was served before;     *)
(* Tiny ends only when a client has hung up, a file has changed or is      *)
(* empty, when the request it serves has a header line with a % in it,     *)
(* which printf takes as its format, or when a file name does not fit the  *)
(* array it is written to; and at the next connection no child is left.    *)
(* For any clients, requests, files, size of a page and number of changes. *)
THEOREM TinyIsSound == ServersSpec => []TinySound
<1> DEFINE Inv == system = "tiny" => TinyInv
<1>0. T!TinyAssumption
  BY Assumptions
<1>1. AnyInit => Inv
  BY <1>0, TinyInit DEF AnyInit
<1>2. Inv /\ [ServersNext]_serversvars => Inv'
  <2> SUFFICES ASSUME Inv, [ServersNext]_serversvars, system' = "tiny" PROVE TinyInv'
    OBVIOUS
  <2>1. CASE EchoNext
    BY <2>1 DEF EchoNext
  <2>2. CASE TinyNext
    <3>1. system = "tiny" /\ T!Next
      BY <2>2 DEF TinyNext
    <3> QED BY <1>0, <3>1, TinyStep
  <2>3. CASE ProxyNext
    BY <2>3 DEF ProxyNext
  <2>4. CASE UNCHANGED serversvars
    <3>1. system = "tiny" /\ UNCHANGED <<tiny, both, pc, serving, queue>>
      BY <2>4 DEF serversvars, vars, tiny, both
    <3> QED BY <3>1, StutterTiny
  <2> QED BY <2>1, <2>2, <2>3, <2>4 DEF ServersNext
<1>3. Inv => TinySound
  BY TinyIs DEF TinySound
<1> QED BY <1>1, <1>2, <1>3, PTL DEF ServersSpec
=============================================================================
