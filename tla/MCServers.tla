----------------------------- MODULE MCServers -----------------------------
(***************************************************************************)
(* The servers of Week08 with their clients: the echo server, Tiny with    *)
(* one client or two, and the proxy.  Each behaviour is one of these       *)
(* systems, the initial state says which; the variables of the others are  *)
(* "off".                                                                  *)
(***************************************************************************)
EXTENDS Proxy

CONSTANTS c1, c2,
          Bytes, LF, NUL, RIO_BUFSIZE, EchoMax, Typed, ServerCanBeStopped,   \* of Echo
          Worlds, PAGE   \* of Tiny

VARIABLES system,
    stdin, buf, up, down, gone, running, sent, echoed, printed,  \* of Echo
    world, resp, req, sbuf, left, src, child, files, changes            \* of Tiny

echo == <<stdin, buf, up, down, gone, running, sent, echoed, printed>>
tiny == <<world, resp, req, sbuf, left, src, child, files, changes>>
both == <<request, nsent, nread, hung, closed, alive, broken>>
proxy == <<got, dest, host_hdr, other_hdr, header, reply, nreply, origins>>
serversvars == <<vars, system, echo, tiny>>

echoOff ==
    /\ stdin = "off" /\ buf = "off" /\ up = "off" /\ down = "off"
    /\ gone = "off" /\ running = "off" /\ sent = "off" /\ echoed = "off"
    /\ printed = "off"
bothOff ==
    /\ request = "off" /\ nsent = "off" /\ nread = "off" /\ hung = "off"
    /\ closed = "off" /\ alive = "off" /\ broken = "off"
tinyOff ==
    /\ world = "off" /\ resp = "off" /\ req = "off" /\ sbuf = "off" /\ left = "off"
    /\ src = "off" /\ child = "off" /\ files = "off" /\ changes = "off"
proxyOff ==
    /\ got = "off" /\ dest = "off" /\ host_hdr = "off" /\ other_hdr = "off"
    /\ header = "off" /\ reply = "off" /\ nreply = "off" /\ origins = "off"

-----------------------------------------------------------------------------
(* Echo: whole lines, a line of two letters that fills the buffer before   *)
(* its line end, an unterminated line, a line with a NUL byte.             *)
MCTyped == {<<>>, <<"a", "nl", "nl">>, <<"a", "a", "nl">>, <<"a">>, <<"a", "nul", "nl">>}

E == INSTANCE Echo WITH MAXLINE <- EchoMax

(* Sizes of words, in bytes or so: of all lengths only those matter that   *)
(* come near the capacity of an array.                                     *)
MCWordBytes == [w \in STRING |->
    CASE w = "home" -> 4 [] w = ".html" -> 5 [] w = "deep" -> 20
      [] w = "Cookie" -> 14 [] w = "faraway" -> 8 [] OTHER -> 1]

(* Tiny: a home page, a file of two pages, programs that work, cannot be   *)
(* loaded or do not end, and requests for them, for what does not exist or *)
(* may not be read, whole and cut off.  The directory stands for an empty  *)
(* uri, too, which names the current one.                                  *)
Get(uri) == <<[kind |-> "request", words |-> <<"GET", uri>>]>>
Post(uri) == <<[kind |-> "request", words |-> <<"POST", uri>>]>>
Header == <<[kind |-> "header", words |-> <<>>]>>
Percent == <<[kind |-> "percent", words |-> <<>>]>>
Blank == <<[kind |-> "blank", words |-> <<>>]>>

Home == <<"/", "home", ".html">>
Page == <<"/", "a", ".png">>
Secret == <<"/", "b", ".html">>
Program == <<"/", "cgi-bin", "/", "adder">>
Script == <<"/", "cgi-bin", "/", "script">>
Endless == <<"/", "cgi-bin", "/", "endless">>
Note == <<"/", "cgi-bin", "/", "note">>
Docs == <<"/", "docs">>
Adds == Program \o <<"?", "1", "&", "2">>

Files(names) == [n \in names |->
    [mode |-> CASE n = Secret -> "secret" [] n = Program -> "program"
                [] n = Script -> "broken" [] n = Endless -> "hanging"
                [] n = Docs -> "directory" [] OTHER -> "page",
     size |-> IF n = Page THEN 4 ELSE 1]]

AllFiles == Files({Home, Page, Secret, Program, Script, Endless, Note, Docs})
FewFiles == Files({Home, Page, Secret, Program})

AllRequests == {
    Get(<<"/">>) \o Header \o Blank, Get(Page) \o Blank, Get(Secret) \o Blank,
    Get(Page \o <<"?", "1">>) \o Blank, Get(Adds) \o Blank, Get(Program) \o Blank,
    Get(Script) \o Blank, Get(Endless) \o Blank, Get(Note) \o Blank,
    Get(Docs) \o Blank, Post(<<"/">>) \o Blank, Blank, Get(<<"/">>) \o Header,
    Get(<<"/", "deep", "/">>) \o Blank, Get(Home) \o Percent \o Blank}
FewRequests == {
    Get(Page) \o Header \o Blank, Get(Secret) \o Blank, Post(<<"/">>) \o Blank,
    Get(Adds) \o Blank, Get(Page) \o Header}

MCWorlds == [w \in {"one_client", "two_clients"} |->
    IF w = "one_client"
    THEN [clients |-> {c1}, requests |-> AllRequests, files |-> AllFiles, changes |-> 2,
          leftovers |-> {Docs, Home, Script, <<"/", "junk", ".html">>}]
    ELSE [clients |-> {c1, c2}, requests |-> FewRequests, files |-> FewFiles, changes |-> 1,
          leftovers |-> {Home, Adds}]]

T == INSTANCE Tiny

(* The proxy: Tiny on a port of its own, a server on port 80, the          *)
(* nop-server, and a port where nobody listens.                            *)
Target(port, path) == [host |-> <<"localhost">>, port |-> <<port>>, path |-> path]
Fetch(method, target, headers) ==
    [method |-> method, target |-> target, scheme |-> TRUE, words |-> 2,
     headers |-> headers \o <<"blank">>]
OriginsAt(ports) == [o \in {<<<<"localhost">>, <<p>>>> : p \in ports} |->
    CASE o[2] = <<"9000">> -> "mute" [] o[2] = <<"9999">> -> "down" [] OTHER -> "answers"]
TinyGet == Fetch("GET", Target("8000", Home), <<>>)

AllOrigins == OriginsAt({"8000", "80", "9000", "9999"})

AllFetches == {
    TinyGet, Fetch("GET", Target("9000", Home), <<>>), Fetch("GET", Target("9999", Home), <<>>),
    Fetch("GET", Target("80", <<"/">>), <<"Host", "Accept", "Connection", "Accept-Language">>),
    Fetch("GET", Target("8000", <<"/", "/", "a">>), <<"Proxy-Connection", "User-Agent">>),
    Fetch("POST", Target("8000", Home), <<"Host">>), [TinyGet EXCEPT !.words = 0],
    Fetch("GET", Target("80", <<"/">>), <<"Cookie", "Cookie", "Cookie">>),
    Fetch("GET", [Target("80", <<"/">>) EXCEPT !.host = <<"faraway">>], <<>>)}

ASSUME Assumptions ==
    /\ E!EchoAssumption /\ T!TinyAssumption /\ {c1, c2} = Clients
    /\ ParsesBack

-----------------------------------------------------------------------------
AnyInit ==
    \/ system = "echo" /\ E!Init /\ bothOff /\ tinyOff /\ proxyOff
    \/ system = "tiny" /\ T!Init /\ cut = "off" /\ echoOff /\ proxyOff
    \/ system = "proxy" /\ Init /\ request[c2] = TinyGet /\ echoOff /\ tinyOff

EchoNext == system = "echo" /\ E!Next /\ UNCHANGED <<system, both, tiny, proxy>>
TinyNext == system = "tiny" /\ T!Next /\ UNCHANGED <<system, cut, echo, proxy>>
ProxyNext == system = "proxy" /\ Next /\ UNCHANGED <<system, echo, tiny>>

ServersNext == EchoNext \/ TinyNext \/ ProxyNext

(* The fairness that each module asks of its own system.                   *)
evars == E!vars
tvars == T!vars
ServersSpec ==
    /\ AnyInit /\ [][ServersNext]_serversvars
    /\ WF_evars(system = "echo" /\ E!ServerStep)
    /\ \A c \in {c1, c2} : WF_evars(system = "echo" /\ E!ClientStep(c))
    /\ WF_tvars(system = "tiny" /\ T!ServerStep)
    /\ WF_tvars(system = "tiny" /\ T!ChildStep)
    /\ \A c \in {c1, c2} : WF_tvars(system = "tiny" /\ c \in T!Browsers /\ T!SendLine(c))
    /\ WF_vars(system = "proxy" /\ ProxyStep)
    /\ WF_vars(system = "proxy" /\ OriginStep)
    /\ \A c \in {c1, c2} : WF_vars(system = "proxy" /\ SendLine(c))

-----------------------------------------------------------------------------
(* The echo server: every client reads back what it has typed, from a      *)
(* connection that is its own.                                             *)
EchoSound == system = "echo" => E!EchoIntact /\ E!QueueSound

(* Tiny: every answer is complete and is the right one, the server dies    *)
(* of the causes only that DiesOnlyOf names, and leaves no child behind.   *)
TinySound ==
    system = "tiny" => T!CompleteAnswer /\ T!RightAnswer /\ T!DiesOnlyOf /\ T!NoZombie

(* The proxy: every client whose request fits gets what its own origin     *)
(* sends, the origin gets one header, and the proxy dies of the causes     *)
(* only that DiesOnlyOf names.                                             *)
ProxySound == system = "proxy" => RelayIntact /\ HeaderBuilt /\ DiesOnlyOf

(* Every client comes to its end, under the conditions that each server    *)
(* needs: whole lines for the echo server (EveryoneFinishes), whole        *)
(* requests of clients that stay for Tiny (EveryoneAnswered), clients that *)
(* stay and origins that answer for the proxy (EveryoneServed).            *)
Behave ==
    /\ system = "echo" => E!TypeLines
    /\ system = "tiny" => T!WellBehaved
Oblige ==
    /\ system = "tiny" => T!Stay
    /\ system = "proxy" => Obliging
Ended ==
    /\ system = "echo" => E!Finished
    /\ system = "tiny" => T!Answered
    /\ system = "proxy" => Served
EveryClientEnds == Behave /\ []Oblige => <>Ended
=============================================================================
