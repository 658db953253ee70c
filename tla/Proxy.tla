-------------------------------- MODULE Proxy --------------------------------
(***************************************************************************)
(* The web proxy (proxy.c) between clients that may hang up and origin     *)
(* servers that answer (Tiny), stay mute (nop-server.py) or go down.  The  *)
(* proxy serves one client at a time.                                      *)
(*                                                                         *)
(* A URI is a sequence of words, ":" and "/".  A request has a method, the *)
(* URI and header lines, each of a kind; the last one is blank.  Words and *)
(* lines have a size in bytes, and the arrays they are copied to a         *)
(* capacity, which the code does not look at: what it writes behind one is *)
(* undefined, the proxy may die of it or send a header that is none.  What *)
(* an origin sends for a path is a sequence of chunks of at most MAXLINE   *)
(* bytes, the units of Rio_readnb.  One step lies between two points where *)
(* another party can act.                                                  *)
(***************************************************************************)
EXTENDS Integers, FiniteSetsExt, SequencesExt

CONSTANTS Clients, Nobody,
          Requests,      \* [method, target, scheme, words, headers]
          WordBytes,     \* size of each word and header line
          MAXLINE,       \* size of other_hdr and http_header
          AUTHORITY,     \* size of authority
          Origins,       \* <<host, port>> -> "answers", "mute" or "down"
          Chunks,        \* chunks of a response
          HangUps, Kills \* may clients hang up, may origins be killed

ASSUME ProxyAssumption ==
    /\ Nobody \notin Clients /\ IsFiniteSet(Clients) /\ Chunks \in Nat \ {0}
    /\ HangUps \in BOOLEAN /\ Kills \in BOOLEAN
    /\ \A r \in Requests :
          /\ r.words \in 0..2   \* of method and URI, those that are on the request line
          /\ r.headers \in Seq(STRING) /\ Len(r.headers) > 0
          /\ \A k \in DOMAIN r.headers : r.headers[k] = "blank" <=> k = Len(r.headers)

VARIABLES
    request,   \* per client
    nsent,     \* per client: lines of it sent (request line, header lines)
    nread,     \* per client: lines of it the proxy has read
    hung,      \* per client: it has closed its end
    got,       \* per client: the chunks received
    closed,    \* per client: the proxy has closed the connection
    queue,     \* connections not accepted yet
    alive, serving, pc,
    broken,    \* a reset has come back for something written to this client
    dest,      \* host, port and path from parse_uri
    host_hdr, other_hdr,       \* of build_http_header
    header,    \* the header lines sent to the origin
    reply,     \* chunks the origin has sent and the proxy not read
    nreply,    \* how many chunks it has sent
    cut,       \* how the origin ended the connection: no, fin, rst
    origins    \* status of each origin

clients == <<request, nsent, nread, hung, closed, queue>>
build == <<dest, host_hdr, other_hdr, header>>
upstream == <<reply, nreply, cut>>
vars == <<request, nsent, nread, hung, closed, queue, got, alive, serving, pc, broken,
          dest, host_hdr, other_hdr, header, reply, nreply, cut, origins>>

NoDest == [host |-> <<>>, port |-> <<>>, path |-> <<>>]

Init ==
    /\ request \in [Clients -> Requests]
    /\ nsent = [c \in Clients |-> 0] /\ nread = nsent
    /\ hung = [c \in Clients |-> FALSE] /\ closed = hung
    /\ got = [c \in Clients |-> <<>>]
    /\ queue \in SetToSeqs(Clients)
    /\ alive = TRUE /\ serving = Nobody /\ pc = "accept" /\ broken = FALSE
    /\ dest = NoDest /\ host_hdr = "none" /\ other_hdr = <<>> /\ header = <<>>
    /\ reply = <<>> /\ nreply = 0 /\ cut = "no"
    /\ origins = Origins

-----------------------------------------------------------------------------
(* strchr: the position of the first w in s, 0 if there is none.           *)
Find(s, w) == SelectInSeq(s, LAMBDA x : x = w)

(* The part after the first "//", or all of it.                            *)
HostStart(uri) ==
    LET doubles == {i \in 1..(Len(uri) - 1) : uri[i] = "/" /\ uri[i + 1] = "/"}
    IN  IF doubles = {} THEN 1 ELSE Min(doubles) + 2

AfterScheme(uri) == SubSeq(uri, HostStart(uri), Len(uri))
Authority(uri) ==
    LET rest == AfterScheme(uri)
        slash == Find(rest, "/")
    IN  IF slash = 0 THEN rest ELSE SubSeq(rest, 1, slash - 1)

parse_uri(uri) ==
    LET rest == AfterScheme(uri)
        slash == Find(rest, "/")
        authority == Authority(uri)
        colon == Find(authority, ":")
    IN  [host |-> IF colon = 0 THEN authority ELSE SubSeq(authority, 1, colon - 1),
         port |-> IF colon = 0 THEN <<"80">> ELSE SubSeq(authority, colon + 1, Len(authority)),
         path |-> IF slash = 0 THEN <<"/">> ELSE SubSeq(rest, slash, Len(rest))]

(* The URI a client writes for a target.                                   *)
Uri(r) ==
    (IF r.scheme THEN <<"http", ":", "/", "/">> ELSE <<>>) \o r.target.host
    \o (IF r.target.port = <<"80">> THEN <<>> ELSE <<":">> \o r.target.port) \o r.target.path

(* What parse_uri makes of each request.                                   *)
Destination == [r \in Requests |-> parse_uri(Uri(r))]
ParsesBack == \A r \in Requests : Destination[r] = r.target

(* What uri may hold when the request line has none: nothing, or the URI   *)
(* of an earlier request.                                                  *)
Leftovers == {parse_uri(<<>>)} \union Range(Destination)

Status(d) == IF <<d.host, d.port>> \in DOMAIN origins THEN origins[<<d.host, d.port>>] ELSE "down"

-----------------------------------------------------------------------------
(* The clients and the origins.                                            *)
SendLine(c) ==
    /\ nsent[c] <= Len(request[c].headers) /\ ~hung[c] /\ ~closed[c] /\ alive
    /\ nsent' = [nsent EXCEPT ![c] = @ + 1]
    /\ UNCHANGED <<request, nread, hung, closed, queue, got, alive, serving, pc, broken,
                   build, upstream, origins>>

(* curl gives up after its --max-time.  Closing a socket that holds unread *)
(* bytes sends a reset.                                                    *)
HangUp(c) ==
    /\ HangUps /\ ~hung[c] /\ ~closed[c] /\ alive
    /\ hung' = [hung EXCEPT ![c] = TRUE]
    /\ IF c = serving /\ got[c] # <<>> THEN broken' \in BOOLEAN ELSE UNCHANGED broken
    /\ UNCHANGED <<request, nsent, nread, closed, queue, got, alive, serving, pc,
                   build, upstream, origins>>

Chunk(d, i) == <<d, i>>

OriginSends ==
    /\ pc = "relay" /\ cut = "no" /\ Status(dest) = "answers" /\ nreply < Chunks
    /\ nreply' = nreply + 1
    /\ reply' = Append(reply, Chunk(dest, nreply + 1))
    /\ UNCHANGED <<clients, got, alive, serving, pc, broken, build, cut, origins>>

OriginCloses ==
    /\ pc = "relay" /\ cut = "no" /\ Status(dest) = "answers" /\ nreply = Chunks
    /\ cut' = "fin"
    /\ UNCHANGED <<clients, got, alive, serving, pc, broken, build, reply, nreply, origins>>

OriginKilled(o) ==
    /\ Kills /\ origins[o] # "down"
    /\ origins' = [origins EXCEPT ![o] = "down"]
    /\ IF o = <<dest.host, dest.port>> /\ pc \in {"headers", "forward", "relay"} /\ cut = "no"
       THEN cut' \in {"fin", "rst"} ELSE UNCHANGED cut
    /\ UNCHANGED <<clients, got, alive, serving, pc, broken, build, reply, nreply>>

-----------------------------------------------------------------------------
(* The proxy.                                                              *)
Dies == alive' = FALSE /\ pc' = "dead"

Accept ==
    /\ alive /\ pc = "accept" /\ queue # <<>>
    /\ serving' = Head(queue) /\ queue' = Tail(queue)
    /\ pc' = "request" /\ broken' = FALSE
    /\ UNCHANGED <<request, nsent, nread, hung, closed, got, alive, build, upstream, origins>>

AtEnd == nread[serving] = nsent[serving] /\ hung[serving]
ReadsLine == /\ nread[serving] < nsent[serving]
             /\ nread' = [nread EXCEPT ![serving] = @ + 1]
             /\ UNCHANGED <<request, nsent, hung, closed, queue>>

(* The request line; parse_uri.  Words that are missing in it leave method *)
(* and uri as they are in memory.                                          *)
Asks(r) == r.words = 2
ReadRequest ==
    /\ pc = "request" /\ ReadsLine
    /\ LET r == request[serving] IN
       \E method \in {"GET", "POST"} :
          /\ r.words > 0 => method = r.method
          /\ IF method = "GET"
             THEN /\ pc' = "connect"
                  /\ dest' \in IF Asks(r) THEN {Destination[r]} ELSE Leftovers
             ELSE pc' = "501" /\ UNCHANGED dest
    /\ UNCHANGED <<got, alive, serving, broken, host_hdr, other_hdr, header, upstream, origins>>

ReadNothing ==
    /\ pc = "request" /\ AtEnd
    /\ pc' = "close"
    /\ UNCHANGED <<clients, got, alive, serving, broken, build, upstream, origins>>

(* A Rio_writen to the client.  A client that has closed answers the first *)
(* write with a reset, soon or late; a write after it ends the proxy.      *)
Write(chunk, next) ==
    IF hung[serving] /\ broken
    THEN Dies /\ UNCHANGED <<got, broken>>
    ELSE /\ got' = [got EXCEPT ![serving] = Append(@, chunk)]
         /\ pc' = next
         /\ IF hung[serving] THEN broken' \in BOOLEAN ELSE UNCHANGED broken
         /\ UNCHANGED alive

(* clienterror: four writes                                                *)
ClientError ==
    /\ pc = "501"
    /\ Write("501", IF Len(got[serving]) = 3 THEN "close" ELSE "501")
    /\ UNCHANGED <<clients, serving, build, upstream, origins>>

(* Open_clientfd, whose wrapper exits when the connection fails: the check *)
(* of serverfd that follows it is never needed.                            *)
Connect ==
    /\ pc = "connect"
    /\ IF Status(dest) = "down" THEN Dies
       ELSE pc' = "headers" /\ UNCHANGED alive
    /\ host_hdr' = "none" /\ other_hdr' = <<>>
    /\ reply' = <<>> /\ nreply' = 0 /\ cut' = "no"
    /\ UNCHANGED <<clients, got, serving, broken, dest, header, origins>>

(* Header lines of the client that the proxy replaces by its own.          *)
Dropped == {"Connection", "Proxy-Connection", "User-Agent"}

(* strcmp(buf, "\r\n") = 0                                                 *)
EndOfHeader(line) == line = "blank"

(* The loop of build_http_header: one line.                                *)
ReadHeader ==
    /\ pc = "headers" /\ ReadsLine
    /\ LET line == request[serving].headers[nread[serving]]
       IN  /\ pc' = IF EndOfHeader(line) THEN "forward" ELSE "headers"
           /\ host_hdr' = IF line = "Host" THEN "client" ELSE host_hdr
           /\ other_hdr' = IF line \in Dropped \union {"Host", "blank"} THEN other_hdr
                           ELSE Append(other_hdr, line)
    /\ UNCHANGED <<got, alive, serving, broken, dest, header, upstream, origins>>

HeadersAtEnd ==
    /\ pc = "headers" /\ AtEnd
    /\ pc' = "forward"
    /\ UNCHANGED <<clients, got, alive, serving, broken, build, upstream, origins>>

(* strlen, and of http_header for a path, a host line and other lines.     *)
Size(text) == SumFunction([k \in DOMAIN text |-> WordBytes[text[k]]])
OwnLines == <<"Connection: close", "Proxy-Connection: close", "User-Agent: Mozilla">>
HeaderSize(d, host, others) ==
    Size(<<"GET">> \o d.path \o <<"HTTP/1.0">>)
    + Size(<<"Host">> \o (IF host = "none" THEN d.host ELSE <<>>))
    + Size(OwnLines \o others \o <<"blank">>)

OthersTooLong == Size(other_hdr) >= MAXLINE
HeaderTooLong == HeaderSize(dest, host_hdr, other_hdr) >= MAXLINE

(* strcpy, strcat and sprintf have written behind authority in parse_uri,  *)
(* behind other_hdr, or behind http_header.  A URI that is not the         *)
(* client's may have any length.                                           *)
Overflow ==
    /\ \/ /\ pc = "connect"
          /\ Asks(request[serving]) => Size(Authority(Uri(request[serving]))) >= AUTHORITY
       \/ pc \in {"headers", "forward"} /\ OthersTooLong
       \/ pc = "forward" /\ HeaderTooLong
    /\ Dies
    /\ UNCHANGED <<clients, got, serving, broken, build, upstream, origins>>

(* The rest of build_http_header, and Rio_writen to the origin, which      *)
(* fails if a reset has come from it.  dest is what the origin is asked.   *)
Forward ==
    /\ pc = "forward"
    /\ \/ /\ header' = <<"request", IF host_hdr = "none" THEN "Host: dest" ELSE "Host">>
                       \o OwnLines \o other_hdr \o <<"blank">>
          /\ UNCHANGED dest
       \/ /\ OthersTooLong \/ HeaderTooLong
          /\ header' = <<"garbage">>
          /\ dest' = [host |-> dest.host, port |-> dest.port, path |-> <<"garbage">>]
    /\ IF cut = "rst" THEN Dies ELSE pc' = "relay" /\ UNCHANGED alive
    /\ UNCHANGED <<clients, got, serving, broken, host_hdr, other_hdr, upstream, origins>>

(* One turn of the relay loop: Rio_readnb, Rio_writen.                     *)
Relay ==
    /\ pc = "relay" /\ reply # <<>>
    /\ reply' = Tail(reply)
    /\ Write(Head(reply), "relay")
    /\ UNCHANGED <<clients, serving, build, nreply, cut, origins>>

(* A faulty variant of the next definition, for the properties to catch.   *)
RelayEnds_short ==
    /\ pc = "relay" /\ reply = <<>> /\ nreply > 0
    /\ pc' = "close"
    /\ UNCHANGED <<clients, got, alive, serving, broken, build, upstream, origins>>

(* Rio_readnb returns 0; Close(serverfd).                                  *)
RelayEnds ==
    /\ pc = "relay" /\ reply = <<>> /\ cut = "fin"
    /\ pc' = "close"
    /\ UNCHANGED <<clients, got, alive, serving, broken, build, upstream, origins>>

(* Rio_readnb fails and its wrapper exits.                                 *)
RelayFails ==
    /\ pc = "relay" /\ cut = "rst"
    /\ Dies
    /\ UNCHANGED <<clients, got, serving, broken, build, upstream, origins>>

(* Lines that have not been read, or arrive later, are answered with a     *)
(* reset, which may overtake the response.                                 *)
Close ==
    /\ pc = "close"
    /\ closed' = [closed EXCEPT ![serving] = TRUE]
    /\ \/ UNCHANGED got
       \/ /\ nread[serving] <= Len(request[serving].headers)
          /\ got' = [got EXCEPT ![serving] = <<>>]
    /\ serving' = Nobody /\ pc' = "accept"
    /\ UNCHANGED <<request, nsent, nread, hung, queue, alive, broken, build, upstream, origins>>

ProxyStep ==
    \/ Accept \/ ReadRequest \/ ReadNothing \/ ClientError \/ Connect \/ ReadHeader
    \/ HeadersAtEnd \/ Overflow \/ Forward \/ Relay \/ RelayEnds \/ RelayFails \/ Close
OriginStep == OriginSends \/ OriginCloses

Next ==
    \/ ProxyStep \/ OriginStep
    \/ \E c \in Clients : SendLine(c) \/ HangUp(c)
    \/ \E o \in DOMAIN Origins : OriginKilled(o)

Spec == Init /\ [][Next]_vars

(* Proxy and answering origins are scheduled, the network delivers, and a  *)
(* client that does not hang up sends its request to the end.              *)
FairSpec == /\ Spec /\ WF_vars(ProxyStep) /\ WF_vars(OriginStep)
            /\ \A c \in Clients : WF_vars(SendLine(c))
-----------------------------------------------------------------------------
(* The lines of a client that the proxy passes on.                         *)
Replaced == {"Host", "Connection", "Proxy-Connection", "User-Agent", "blank"}
OthersAmong(lines) ==
    LET others[n \in 0..Len(lines)] ==
            CASE n = 0 -> <<>>
              [] n > 0 /\ lines[n] \in Replaced -> others[n - 1]
              [] OTHER -> Append(others[n - 1], lines[n])
    IN  others
Others(c) == OthersAmong(request[c].headers)[Len(request[c].headers)]
HostAfter(lines, n) == IF \E k \in 1..n : lines[k] = "Host" THEN "client" ELSE "none"

(* A request that does not fit the arrays of the proxy.                    *)
TooLong(r) ==
    \/ Size(Authority(Uri(r))) >= AUTHORITY
    \/ \E n \in 0..Len(r.headers) :
          LET others == OthersAmong(r.headers)[n]
          IN  \/ Size(others) >= MAXLINE
              \/ HeaderSize(r.target, HostAfter(r.headers, n), others) >= MAXLINE
Fits(r) == Asks(r) /\ ~TooLong(r)

(* A client whose request names an origin and fits gets what that origin   *)
(* sends for the path it has named, in order and without gaps, and nothing *)
(* of another client's; all of it if the proxy closes the connection while *)
(* the origin is up.                                                       *)
Asked(c) == request[c].target
Answer(c) == [i \in 1..Chunks |-> Chunk(Asked(c), i)]
RelayIntact ==
    \A c \in Clients : request[c].method = "GET" /\ Fits(request[c]) =>
        /\ IsPrefix(got[c], Answer(c))
        /\ closed[c] /\ ~hung[c] /\ Status(Asked(c)) # "down" => got[c] = Answer(c)

(* The header sent to the origin for a request that fits has one Host      *)
(* line, the proxy's own three lines, and the client's other lines in      *)
(* their order; it is never mixed with the header of an earlier request.   *)
HeaderBuilt ==
    pc = "relay" /\ ~hung[serving] /\ Fits(request[serving]) =>
        /\ header = <<header[1], header[2], "Connection: close", "Proxy-Connection: close",
                      "User-Agent: Mozilla">> \o Others(serving) \o <<"blank">>
        /\ header[2] = IF Contains(request[serving].headers, "Host") THEN "Host" ELSE "Host: dest"

(* The proxy dies only of a client that has hung up, of an origin that is  *)
(* down and that the client being served has named, or of a request of     *)
(* this client that names no origin or does not fit.                       *)
DiesOnlyOf ==
    ~alive => \/ hung[serving] \/ Status(Asked(serving)) = "down"
              \/ ~Fits(request[serving])

(* If nobody hangs up, every request fits and every origin that is asked   *)
(* answers to the end, then every client is served.                        *)
Obliging ==
    \A c \in Clients : ~hung[c] /\ Fits(request[c]) /\ Status(Asked(c)) = "answers"
Served == \A c \in Clients : closed[c]
EveryoneServed == []Obliging => <>Served

=============================================================================
