-------------------------------- MODULE Echo --------------------------------
(***************************************************************************)
(* The echo programs: clients (echoclient.c) and the iterative server      *)
(* (echoserveri.c, echo.c), which serves one connection at a time.         *)
(*                                                                         *)
(* One step is one call of a Rio or standard I/O function, with the        *)
(* statements up to the next one.  A connection is two streams of bytes;   *)
(* what the server has read ahead into its rio_t still counts as upstream. *)
(* RioStream is about the short counts inside a call.                      *)
(***************************************************************************)
EXTENDS Rio, FiniteSetsExt, SequencesExt

CONSTANTS Clients, Nobody,
          Typed,          \* what a user may type: sequences of bytes
          NUL,            \* the byte '\0'
          MAXLINE,
          ServerCanBeStopped

EchoAssumption ==
    /\ NUL \in Bytes /\ Typed \subseteq Seq(Bytes) /\ Nobody \notin Clients
    /\ MAXLINE \in Nat /\ MAXLINE >= 2 /\ ServerCanBeStopped \in BOOLEAN

VARIABLES
    pc,          \* per client: start, typing, waiting, done
    stdin,       \* per client: what Fgets has not read yet
    buf,         \* per client: the line buffer
    up, down,    \* per client: bytes on their way to and from the server
    gone,        \* per client: how its end went away: no, fin, rst
    cut,         \* per client: how the server's end did: no, fin, broken, rst
    running,     \* the server process exists
    serving,     \* the client whose connection echo() reads
    queue,       \* connections not accepted yet
    sent, echoed, printed      \* histories, per client

conn == <<gone, cut>>
server == <<running, serving, queue>>
vars == <<pc, stdin, buf, up, down, gone, cut, running, serving, queue,
          sent, echoed, printed>>

Init ==
    /\ pc = [c \in Clients |-> "start"]
    /\ stdin \in [Clients -> Typed]
    /\ buf = [c \in Clients |-> <<>>]
    /\ up = buf /\ down = buf /\ sent = buf /\ echoed = buf /\ printed = buf
    /\ gone = [c \in Clients |-> "no"] /\ cut = gone
    /\ running = TRUE /\ serving = Nobody /\ queue = <<>>

-----------------------------------------------------------------------------
(* The line that fgets or rio_readlineb takes from s, if it returns.  What *)
(* is left at end of file is the last line; it is empty for NULL or 0.     *)
NextLine(s, eof) ==
    LET ends == {k \in 1..Len(s) : LineComplete(MAXLINE, First(s, k))}
    IN  IF ends # {} THEN {First(s, Min(ends))} ELSE IF eof THEN {s} ELSE {}

(* What strlen and fputs see of a buffer.                                  *)
String(s) == LET nuls == {k \in 1..Len(s) : s[k] = NUL}
             IN  IF nuls = {} THEN s ELSE First(s, Min(nuls) - 1)

(* A faulty variant of the next definition, for the properties to catch.   *)
Outgoing_with_nul(line) == line

(* Rio_writen(clientfd, buf, strlen(buf))                                  *)
Outgoing(line) == String(line)

-----------------------------------------------------------------------------
(* Open_clientfd: a refused connection ends the client.                    *)
Connect(c) ==
    /\ pc[c] = "start"
    /\ IF running THEN pc' = [pc EXCEPT ![c] = "typing"] /\ queue' = Append(queue, c)
                  ELSE pc' = [pc EXCEPT ![c] = "done"] /\ UNCHANGED queue
    /\ UNCHANGED <<stdin, buf, up, down, conn, running, serving, sent, echoed, printed>>

(* Fgets and Rio_writen.  A write after the server's FIN is answered with  *)
(* a reset ("broken"), and a write after a reset ends the client.          *)
Type(c) ==
    /\ pc[c] = "typing" /\ stdin[c] # <<>>
    /\ \E line \in NextLine(stdin[c], TRUE) :
          /\ stdin' = [stdin EXCEPT ![c] = Without(@, Len(line))]
          /\ buf' = [buf EXCEPT ![c] = line]
          /\ sent' = [sent EXCEPT ![c] = @ \o Outgoing(line)]
          /\ up' = IF cut[c] = "no" THEN [up EXCEPT ![c] = @ \o Outgoing(line)] ELSE up
    /\ IF cut[c] \in {"broken", "rst"}
       THEN pc' = [pc EXCEPT ![c] = "done"] /\ UNCHANGED cut
       ELSE /\ pc' = [pc EXCEPT ![c] = "waiting"]
            /\ \/ UNCHANGED cut
               \/ cut[c] = "fin" /\ cut' = [cut EXCEPT ![c] = "broken"]
    /\ UNCHANGED <<down, gone, server, echoed, printed>>

(* Rio_readlineb, whose result is not looked at, and Fputs: at end of file *)
(* the buffer still holds the line that was typed.                         *)
Receive(c) ==
    /\ pc[c] = "waiting"
    /\ \E line \in NextLine(down[c], cut[c] \in {"fin", "broken"}) :
          /\ down' = [down EXCEPT ![c] = Without(@, Len(line))]
          /\ buf' = [buf EXCEPT ![c] = IF line = <<>> THEN @ ELSE line]
          /\ printed' = [printed EXCEPT ![c] = @ \o String(buf'[c])]
    /\ pc' = [pc EXCEPT ![c] = "typing"]
    /\ UNCHANGED <<stdin, up, conn, server, sent, echoed>>

(* Rio_readlineb fails on a reset connection and its wrapper exits.        *)
ReceiveFails(c) ==
    /\ pc[c] = "waiting" /\ cut[c] = "rst"
    /\ pc' = [pc EXCEPT ![c] = "done"]
    /\ UNCHANGED <<stdin, buf, up, down, conn, server, sent, echoed, printed>>

(* Closing a socket that holds unread bytes sends a reset.                *)
Leave(c) ==
    /\ pc' = [pc EXCEPT ![c] = "done"]
    /\ gone' = [gone EXCEPT ![c] = IF down[c] = <<>> THEN "fin" ELSE "rst"]
    /\ UNCHANGED <<stdin, buf, up, down, cut, server, sent, echoed, printed>>

(* Fgets returns NULL; Close and exit.                                     *)
Finish(c) == pc[c] = "typing" /\ stdin[c] = <<>> /\ Leave(c)

(* The user interrupts the client.                                         *)
Interrupt(c) == pc[c] \in {"typing", "waiting"} /\ Leave(c)

-----------------------------------------------------------------------------

Accept ==
    /\ running /\ serving = Nobody /\ queue # <<>>
    /\ serving' = Head(queue) /\ queue' = Tail(queue)
    /\ UNCHANGED <<pc, stdin, buf, up, down, conn, running, sent, echoed, printed>>

(* The body of the loop of echo().  What is written to a client that has  *)
(* closed is lost.  The reset it causes is never met by a second write: a  *)
(* client sends one line at a time.                                        *)
EchoLine ==
    /\ serving # Nobody /\ gone[serving] # "rst"
    /\ \E line \in NextLine(up[serving], gone[serving] = "fin") :
          /\ line # <<>>
          /\ up' = [up EXCEPT ![serving] = Without(@, Len(line))]
          /\ echoed' = [echoed EXCEPT ![serving] = @ \o line]
          /\ down' = IF gone[serving] = "no"
                     THEN [down EXCEPT ![serving] = @ \o line] ELSE down
    /\ UNCHANGED <<pc, stdin, buf, conn, server, sent, printed>>

(* Rio_readlineb returns 0; main closes the connection.                    *)
EchoEnds ==
    /\ serving # Nobody /\ gone[serving] = "fin" /\ up[serving] = <<>>
    /\ serving' = Nobody
    /\ UNCHANGED <<pc, stdin, buf, up, down, conn, running, queue, sent, echoed, printed>>

(* The process ends and the kernel closes its connections.                 *)
ServerGone ==
    /\ running' = FALSE /\ serving' = Nobody /\ queue' = <<>>
    /\ \E how \in {"fin", "rst"} :
          /\ serving # Nobody /\ up[serving] = <<>> => how = "fin"
          /\ cut' = [c \in Clients |-> CASE c = serving -> how
                                         [] \E i \in 1..Len(queue) : queue[i] = c -> "rst"
                                         [] OTHER -> cut[c]]
    /\ UNCHANGED <<pc, stdin, buf, up, down, gone, sent, echoed, printed>>

(* Rio_readlineb or Rio_writen fails on a reset connection and its wrapper *)
(* exits (or SIGPIPE does it).                                             *)
EchoFails == serving # Nobody /\ gone[serving] = "rst" /\ ServerGone

(* The operator stops the server.                                          *)
Stop == ServerCanBeStopped /\ running /\ ServerGone

ClientStep(c) ==
    Connect(c) \/ Type(c) \/ Receive(c) \/ ReceiveFails(c) \/ Finish(c)
ServerStep == Accept \/ EchoLine \/ EchoEnds \/ EchoFails

Next ==
    \/ \E c \in Clients : ClientStep(c) \/ Interrupt(c)
    \/ ServerStep
    \/ Stop

Spec == Init /\ [][Next]_vars

(* The processes are scheduled, the network delivers, and every user goes  *)
(* on typing to the end of the input.                                      *)
FairSpec == /\ Spec
            /\ \A c \in Clients : WF_vars(ClientStep(c))
            /\ WF_vars(ServerStep)

-----------------------------------------------------------------------------
Connected(c) == pc[c] \in {"typing", "waiting"} /\ cut[c] = "no"

(* As long as client and server are there, what the client has printed, is *)
(* going to print and is waiting for is what it sent, in this order; the   *)
(* server has echoed exactly the bytes that left upstream.  A client back  *)
(* at its prompt has seen everything it sent.                              *)
EchoIntact ==
    \A c \in Clients : Connected(c) =>
        /\ printed[c] \o down[c] = echoed[c]
        /\ echoed[c] \o up[c] = sent[c]
        /\ pc[c] = "typing" => printed[c] = sent[c]

(* A connection belongs to one client: the queue holds each client once,   *)
(* the served one is not in it, and no client is left behind by both.      *)
QueueSound ==
    running => \A c \in Clients :
        /\ serving = c => ~Contains(queue, c)
        /\ Connected(c) => serving = c \/ Contains(queue, c)
        /\ Cardinality({i \in 1..Len(queue) : queue[i] = c}) <= 1

(* If every text that is typed consists of whole lines, then all clients   *)
(* come to their end: client and server never wait for each other.         *)
WholeLines(s) == s = <<>> \/ s[Len(s)] = LF
TypeLines == \A c \in Clients : WholeLines(stdin[c]) /\ ~Contains(stdin[c], NUL)
Finished == \A c \in Clients : pc[c] = "done"
EveryoneFinishes == TypeLines => <>Finished

=============================================================================
