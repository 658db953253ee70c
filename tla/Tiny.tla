-------------------------------- MODULE Tiny --------------------------------
(***************************************************************************)
(* The Tiny web server (tiny.c) with the CGI program adder.c, clients that *)
(* send a request line by line and may hang up at any point, and files     *)
(* that are cut or removed while a request is served.                      *)
(*                                                                         *)
(* A URI, a file name and a query are sequences of words ("/", "cgi-bin",  *)
(* "?", ...).  A request is a request line, with the words that sscanf     *)
(* finds in it, header lines and a blank line.  A response is a record of  *)
(* what has been written so far.  One step of the server lies between two  *)
(* points where a client, a file or the child can act.                     *)
(***************************************************************************)
EXTENDS Integers, FiniteSetsExt, SequencesExt

CONSTANTS Worlds,          \* what the server may be run with: see below
          Nobody,
          PAGE,            \* size of a page of memory
          WordBytes,       \* size of each word in bytes
          MAXLINE,         \* size of filename, and of a line that is read
          HangUps          \* may clients hang up

VARIABLES
    world,     \* what it is run with
    request,   \* per client: the lines it sends
    nsent,     \* per client: how many of them it has sent
    nread,     \* per client: how many of them the server has read
    hung,      \* per client: it has closed its end
    resp,      \* per client: the response so far
    closed,    \* per client: the server has closed the connection
    queue,     \* connections not accepted yet
    alive,     \* the server process exists
    serving,   \* the client of the current connection
    pc,        \* the next system call of the server
    broken,    \* a reset has come back for something written to this client
    req,       \* method, uri and whether a header line has been read
    sbuf,      \* what stat found
    left,      \* writes left of an error page
    src,       \* size of the file behind srcfd
    child,     \* none, forked, running, or the server's child has exited
    files, changes

(* A world has clients, sequences of lines that a client may send, a       *)
(* function from file names to [mode, size], a bound on changes of files,  *)
(* and what uri may hold when the request line has none: junk, or a URI of *)
(* an earlier request.                                                     *)
Browsers == Worlds[world].clients
Sendable == Worlds[world].requests
InitialFiles == Worlds[world].files
MaxChanges == Worlds[world].changes
Leftovers == Worlds[world].leftovers

(* A request line has up to two words that matter, a method and a URI; a   *)
(* "percent" line is a header line with a % in it; the blank line is the   *)
(* last one sent.  File names have no "?" in them and an extension at      *)
(* their end only.                                                         *)
Uris == Seq(STRING) \ {<<>>}
Methods == {"GET", "POST"}
Lines == [kind : {"request", "header", "percent", "blank"},
          words : {<<>>} \union {<<m>> : m \in Methods} \union (Methods \X Uris)]
Modes == {"page", "program", "broken", "hanging", "secret", "directory"}

Types == << <<".html", "text/html">>, <<".gif", "image/gif">>, <<".png", "image/png">>,
            <<".jpg", "image/jpeg">>, <<".css", "text/css">>,
            <<".js", "application/javascript">>, <<".mov", "video/quicktime">> >>

IsRequest(lines) ==
    /\ lines \in Seq(Lines)
    /\ \A k \in 1..Len(lines) : lines[k].kind = "blank" => k = Len(lines)
IsName(name) ==
    /\ name \in Uris /\ ~Contains(name, "?") /\ Last(name) # "/"
    /\ \A k \in 1..(Len(name) - 1), t \in 1..Len(Types) : name[k] # Types[t][1]

TinyAssumption ==
    /\ PAGE \in Nat \ {0} /\ HangUps \in BOOLEAN
    /\ \A w \in DOMAIN Worlds :
          /\ IsFiniteSet(Worlds[w].clients) /\ Nobody \notin Worlds[w].clients
          /\ \A lines \in Worlds[w].requests : IsRequest(lines)
          /\ \A name \in DOMAIN Worlds[w].files : IsName(name)
          /\ Worlds[w].files \in [DOMAIN Worlds[w].files -> [mode : Modes, size : Nat]]
          /\ Worlds[w].changes \in Nat /\ Worlds[w].leftovers \subseteq Uris

wire == <<world, request, nsent, nread, hung, closed, queue>>
local == <<req, sbuf, left, src>>
disk == <<files, changes>>
vars == <<world, request, nsent, nread, hung, resp, closed, queue, alive, serving, pc, broken,
          req, sbuf, left, src, child, files, changes>>

NoFile == [mode |-> "absent", size |-> 0]
NoResponse == [status |-> "none", type |-> "none", length |-> 0, body |-> 0, zeros |-> 0,
               result |-> <<>>, parts |-> 0]
NoRequest == [method |-> "none", uri |-> <<>>, header |-> FALSE]

Init ==
    /\ world \in DOMAIN Worlds
    /\ request \in [Browsers -> Sendable]
    /\ nsent = [c \in Browsers |-> 0] /\ nread = nsent
    /\ hung = [c \in Browsers |-> FALSE] /\ closed = hung
    /\ resp = [c \in Browsers |-> NoResponse]
    /\ queue \in SetToSeqs(Browsers)
    /\ alive = TRUE /\ serving = Nobody /\ pc = "accept" /\ broken = FALSE
    /\ req = NoRequest /\ sbuf = NoFile /\ left = 0 /\ src = 0 /\ child = "none"
    /\ files = InitialFiles /\ changes = 0

-----------------------------------------------------------------------------
(* parse_uri                                                               *)
IsStatic(uri) == ~Contains(uri, "cgi-bin")

(* A faulty variant of the next definition, for the properties to catch.   *)
FileName_with_query(uri) ==
    IF IsStatic(uri) /\ Last(uri) = "/" THEN uri \o <<"home", ".html">> ELSE uri

FileName(uri) ==
    IF IsStatic(uri)
    THEN IF Last(uri) = "/" THEN uri \o <<"home", ".html">> ELSE uri
    ELSE IF Contains(uri, "?") THEN SubSeq(uri, 1, SelectInSeq(uri, LAMBDA w : w = "?") - 1)
                               ELSE uri

CgiArgs(uri) ==
    IF IsStatic(uri) \/ ~Contains(uri, "?") THEN <<>>
    ELSE SubSeq(uri, SelectInSeq(uri, LAMBDA w : w = "?") + 1, Len(uri))

(* adder.c: the two numbers it adds, or its usage.                         *)
Adder(args) ==
    LET amp == SelectInSeq(args, LAMBDA w : w = "&")
    IN  IF amp = 0 THEN <<"usage">>
        ELSE <<"sum", SubSeq(args, 1, amp - 1), SubSeq(args, amp + 1, Len(args))>>

(* get_filetype: the first suffix of the list that is anywhere in the name *)
FileType(name) ==
    LET found == {t \in 1..Len(Types) : Contains(name, Types[t][1])}
    IN  IF found = {} THEN "text/plain" ELSE Types[Min(found)][2]

File(name) == IF name \in DOMAIN files THEN files[name] ELSE NoFile
Regular(f)    == f.mode \notin {"absent", "directory"}
Readable(f)   == f.mode # "secret"
Executable(f) == f.mode \in {"program", "broken", "hanging"}

(* The writes of clienterror: status line, two header lines, body.         *)
ErrorParts == 4

-----------------------------------------------------------------------------
(* The clients and the file system.                                        *)
SendLine(c) ==
    /\ nsent[c] < Len(request[c]) /\ ~hung[c] /\ ~closed[c] /\ alive
    /\ nsent' = [nsent EXCEPT ![c] = @ + 1]
    /\ UNCHANGED <<world, request, nread, hung, resp, closed, queue, alive, serving, pc, broken,
                   local, child, disk>>

(* Closing a socket that holds unread bytes sends a reset.                 *)
HangUp(c) ==
    /\ HangUps /\ ~hung[c] /\ ~closed[c] /\ alive
    /\ hung' = [hung EXCEPT ![c] = TRUE]
    /\ IF c = serving /\ resp[c] # NoResponse THEN broken' \in BOOLEAN ELSE UNCHANGED broken
    /\ UNCHANGED <<world, request, nsent, nread, resp, closed, queue, alive, serving, pc,
                   local, child, disk>>

Unlink(name) ==
    /\ changes < MaxChanges /\ Regular(files[name])
    /\ files' = [files EXCEPT ![name] = NoFile]
    /\ changes' = changes + 1
    /\ UNCHANGED <<wire, resp, alive, serving, pc, broken, local, child>>

(* In place: an open descriptor sees the new size.                         *)
Cut(name) ==
    /\ changes < MaxChanges /\ Regular(files[name])
    /\ \E n \in 0..(files[name].size - 1) :
          /\ files' = [files EXCEPT ![name].size = n]
          /\ src' = IF pc \in {"mmap", "body"} /\ FileName(req.uri) = name THEN n ELSE src
    /\ changes' = changes + 1
    /\ UNCHANGED <<wire, resp, alive, serving, pc, broken, req, sbuf, left, child>>

-----------------------------------------------------------------------------
(* The server.                                                             *)
Accept ==
    /\ alive /\ pc = "accept" /\ queue # <<>>
    /\ serving' = Head(queue) /\ queue' = Tail(queue)
    /\ pc' = "request" /\ broken' = FALSE
    /\ UNCHANGED <<world, request, nsent, nread, hung, resp, closed, alive, local, child, disk>>

(* Rio_readlineb returns a line, or 0 at end of file.                      *)
Line == request[serving][nread[serving] + 1]
ReadsLine == /\ nread[serving] < nsent[serving]
             /\ nread' = [nread EXCEPT ![serving] = @ + 1]
             /\ UNCHANGED <<world, request, nsent, hung, closed, queue>>
AtEnd == nread[serving] = nsent[serving] /\ hung[serving]

(* The request line.  Words that are missing in it leave the uninitialized *)
(* buffers of doit as they are.                                            *)
ReadRequest ==
    /\ pc = "request" /\ ReadsLine
    /\ \E method \in {"GET", "POST"}, uri \in Leftovers :
          /\ Len(Line.words) >= 1 => method = Line.words[1]
          /\ req' = [method |-> method, header |-> FALSE,
                     uri |-> IF Len(Line.words) >= 2 THEN Line.words[2] ELSE uri]
          /\ pc' = IF method = "GET" THEN "headers" ELSE "501"
    /\ left' = ErrorParts
    /\ UNCHANGED <<resp, alive, serving, broken, sbuf, src, child, disk>>

ReadNothing ==
    /\ pc = "request" /\ AtEnd
    /\ pc' = "close"
    /\ UNCHANGED <<wire, resp, alive, serving, broken, local, child, disk>>

(* A faulty variant of the next definition, for the properties to catch.   *)
EndOfHeaders_bare(line) == line.kind = "bare newline"

EndOfHeaders(line) == line.kind = "blank"

(* read_requesthdrs, one line                                              *)
ReadHeader ==
    /\ pc = "headers" /\ ReadsLine
    /\ pc' = IF EndOfHeaders(Line) THEN "stat" ELSE "headers"
    /\ req' = [req EXCEPT !.header = TRUE]
    /\ UNCHANGED <<resp, alive, serving, broken, sbuf, left, src, child, disk>>

(* printf takes the line as its format: for a conversion it prints what    *)
(* the registers hold, or dies of it.                                      *)
PrintDies ==
    /\ pc = "headers" /\ ReadsLine /\ Line.kind = "percent"
    /\ alive' = FALSE /\ pc' = "dead"
    /\ UNCHANGED <<resp, serving, broken, local, child, disk>>

(* At end of file Rio_readlineb leaves buf as it is and its result is not  *)
(* looked at: after a header line the loop never ends.  Before the first   *)
(* one buf is uninitialized and may hold the blank line of a request read  *)
(* earlier, which ends the loop.                                           *)
ReadHeaderAtEnd ==
    /\ pc = "headers" /\ AtEnd /\ ~req.header
    /\ pc' = "stat"
    /\ UNCHANGED <<wire, resp, alive, serving, broken, local, child, disk>>

(* parse_uri has written "." and the name to filename, which holds MAXLINE *)
(* bytes with the NUL.  What lies behind it is not used again, or doit     *)
(* cannot return.                                                          *)
Size(text) == SumFunction([k \in DOMAIN text |-> WordBytes[text[k]]])
Fits(uri) == Size(FileName(uri)) + 2 <= MAXLINE

Overflow ==
    /\ pc = "stat" /\ ~Fits(req.uri)
    /\ alive' = FALSE /\ pc' = "dead"
    /\ UNCHANGED <<wire, resp, serving, broken, local, child, disk>>

(* stat and the checks of doit                                             *)
Stat ==
    /\ pc = "stat"
    /\ sbuf' = File(FileName(req.uri))
    /\ pc' = CASE sbuf'.mode = "absent" -> "404"
               [] sbuf'.mode # "absent" /\ IsStatic(req.uri) ->
                     IF Regular(sbuf') /\ Readable(sbuf') THEN "header" ELSE "403"
               [] OTHER -> IF Regular(sbuf') /\ Executable(sbuf') THEN "fork" ELSE "403"
    /\ UNCHANGED <<wire, resp, alive, serving, broken, req, left, src, child, disk>>

(* A Rio_writen of the server to its client: what the response becomes and *)
(* what follows.  A client that has closed answers the first write with a  *)
(* reset, soon or late; a write after the reset ends the server.           *)
Write(response, next) ==
    IF hung[serving] /\ broken
    THEN alive' = FALSE /\ pc' = "dead" /\ UNCHANGED <<resp, broken>>
    ELSE /\ resp' = [resp EXCEPT ![serving] = response]
         /\ pc' = next
         /\ IF hung[serving] THEN broken' \in BOOLEAN ELSE UNCHANGED broken
         /\ UNCHANGED alive

(* clienterror, one write                                                  *)
ClientError ==
    /\ pc \in {"501", "404", "403"}
    /\ Write([resp[serving] EXCEPT !.status = pc, !.parts = @ + 1],
             IF left = 1 THEN "close" ELSE pc)
    /\ left' = left - 1
    /\ UNCHANGED <<wire, serving, req, sbuf, src, child, disk>>

(* serve_static                                                            *)
SendHeader ==
    /\ pc = "header"
    /\ Write([resp[serving] EXCEPT !.status = "200", !.length = sbuf.size,
                                  !.type = FileType(FileName(req.uri))], "open")
    /\ UNCHANGED <<wire, serving, local, child, disk>>

Open ==
    /\ pc = "open"
    /\ LET f == File(FileName(req.uri)) IN
       IF Regular(f) /\ Readable(f)
       THEN pc' = "mmap" /\ src' = f.size /\ UNCHANGED alive
       ELSE pc' = "dead" /\ alive' = FALSE /\ UNCHANGED src
    /\ UNCHANGED <<wire, resp, serving, broken, req, sbuf, left, child, disk>>

(* mmap of no bytes is an error.                                           *)
Mmap ==
    /\ pc = "mmap"
    /\ IF sbuf.size > 0 THEN pc' = "body" /\ UNCHANGED alive
                        ELSE pc' = "dead" /\ alive' = FALSE
    /\ UNCHANGED <<wire, resp, serving, broken, local, child, disk>>

(* Bytes that can be read through the mapping: the file, and zeros up to   *)
(* the end of its last page.                                               *)
Mapped == ((src + PAGE - 1) \div PAGE) * PAGE

(* write(2) fails with EFAULT when it comes to a page behind the file.     *)
SendBody ==
    /\ pc = "body"
    /\ IF sbuf.size <= Mapped
       THEN Write([resp[serving] EXCEPT !.body = sbuf.size, !.zeros = Max({0, sbuf.size - src})],
                  "close")
       ELSE /\ resp' = [resp EXCEPT ![serving].body = Mapped, ![serving].zeros = Mapped - src]
            /\ alive' = FALSE /\ pc' = "dead" /\ UNCHANGED broken
    /\ UNCHANGED <<wire, serving, local, child, disk>>

(* serve_dynamic                                                           *)
Fork ==
    /\ pc = "fork"
    /\ child' = "forked" /\ pc' = "wait"
    /\ UNCHANGED <<wire, resp, alive, serving, broken, local, disk>>

(* Setenv, Dup2, Execve.  When execve fails the child's exit writes out    *)
(* what the server had printed and not yet flushed, now to the client.     *)
ChildExecs ==
    /\ child = "forked"
    /\ IF File(FileName(req.uri)).mode \in {"program", "hanging"}
       THEN child' = "running" /\ UNCHANGED resp
       ELSE /\ child' = "exited"
            /\ \E log \in {<<>>, <<"log">>} :
                  resp' = [resp EXCEPT ![serving].result = @ \o log]
    /\ UNCHANGED <<wire, alive, serving, pc, broken, local, disk>>

(* The CGI program's standard output is the connection.                    *)
ChildEnds ==
    /\ child = "running"
    /\ sbuf.mode # "hanging"
    /\ child' = "exited"
    /\ resp' = [resp EXCEPT ![serving].result = @ \o Adder(CgiArgs(req.uri))]
    /\ UNCHANGED <<wire, alive, serving, pc, broken, local, disk>>

Wait ==
    /\ pc = "wait" /\ child = "exited"
    /\ child' = "none" /\ pc' = "close"
    /\ UNCHANGED <<wire, resp, alive, serving, broken, local, disk>>

(* Lines that have not been read, or arrive later, are answered with a     *)
(* reset, which may overtake the response.                                 *)
Close ==
    /\ pc = "close"
    /\ closed' = [closed EXCEPT ![serving] = TRUE]
    /\ \/ UNCHANGED resp
       \/ /\ nread[serving] < Len(request[serving])
          /\ resp' = [resp EXCEPT ![serving] = NoResponse]
    /\ serving' = Nobody /\ pc' = "accept"
    /\ UNCHANGED <<world, request, nsent, nread, hung, queue, alive, broken, local, child, disk>>

ServerStep ==
    \/ Accept \/ ReadRequest \/ ReadNothing \/ ReadHeader \/ PrintDies \/ ReadHeaderAtEnd
    \/ Overflow \/ Stat \/ ClientError \/ SendHeader \/ Open \/ Mmap \/ SendBody
    \/ Fork \/ Wait \/ Close

ChildStep == ChildExecs \/ ChildEnds

Next ==
    \/ ServerStep \/ ChildStep
    \/ \E c \in Browsers : SendLine(c) \/ HangUp(c)
    \/ \E name \in DOMAIN InitialFiles : Unlink(name) \/ Cut(name)

Spec == Init /\ [][Next]_vars

(* The server and its child are scheduled, and clients that do not hang up *)
(* send their requests to the end.                                         *)
FairSpec == /\ Spec /\ WF_vars(ServerStep) /\ WF_vars(ChildStep)
            /\ \A c \in UNION {Worlds[w].clients : w \in DOMAIN Worlds} :
                  WF_vars(c \in Browsers /\ SendLine(c))

-----------------------------------------------------------------------------
Whole(lines) == Len(lines) > 0 /\ Last(lines).kind = "blank"
Asks(lines) == Len(lines) > 0 /\ Len(lines[1].words) >= 2
Uri(lines) == lines[1].words[2]

Errors == {"501", "404", "403"}
ErrorPage(r) == r.status \in Errors /\ r.parts = 4
FilePage(r) == r.status = "200" /\ r.body = r.length

(* The file a URI means, if there is one, and what a request for it should *)
(* get from files that do not change.                                      *)
Meant(uri) ==
    {name \in DOMAIN InitialFiles :
        \/ name = uri
        \/ IsStatic(uri) /\ Last(uri) = "/" /\ name = uri \o <<"home", ".html">>
        \/ ~IsStatic(uri) /\ IsPrefix(Append(name, "?"), uri)}
TypeOf(extension) ==
    IF \E t \in Range(Types) : t[1] = extension
    THEN (CHOOSE t \in Range(Types) : t[1] = extension)[2] ELSE "text/plain"
Expected(lines, r) ==
    LET uri == Uri(lines)
        mode == IF Meant(uri) = {} THEN "absent"
                ELSE (CHOOSE m \in {InitialFiles[n].mode : n \in Meant(uri)} : TRUE)
    IN  \/ lines[1].words[1] # "GET" /\ r.status = "501"
        \/ mode = "absent" /\ r.status = "404"
        \/ /\ IsStatic(uri) /\ mode \in {"page", "program", "broken", "hanging"}
           /\ \E n \in Meant(uri) : /\ r.status = "200" /\ r.type = TypeOf(Last(n))
                                    /\ r.length = InitialFiles[n].size /\ r.zeros = 0
        \/ /\ ~IsStatic(uri) /\ mode = "program"
           /\ \E n \in Meant(uri) : r.result = Adder(SubSeq(uri, Len(n) + 2, Len(uri)))
        \/ ~IsStatic(uri) /\ mode = "broken" /\ r.status = "none"
        \/ /\ mode \in {"directory", "secret"} \union (IF IsStatic(uri) THEN {} ELSE {"page"})
           /\ r.status = "403"

(* A client that stays gets a whole error page, as many bytes of a file as *)
(* the header announces, or the output of a program, however the files     *)
(* change meanwhile.  It gets nothing only if it asked for a program, if   *)
(* it asked for no URI (what the buffers held then is not its own), or if  *)
(* lines of its request were left unread (501).                            *)
CompleteAnswer ==
    \A c \in Browsers : closed[c] /\ ~hung[c] =>
        \/ ErrorPage(resp[c])
        \/ FilePage(resp[c])
        \/ resp[c].status = "none" /\ resp[c].result # <<>>
        \/ resp[c] = NoResponse /\ nread[c] < Len(request[c])
        \/ resp[c] = NoResponse /\ (Asks(request[c]) => ~IsStatic(Uri(request[c])))

(* While the files do not change, every request that is sent to its end by *)
(* a client that stays is answered with what it asks for, whatever was     *)
(* served before on the same buffers, environment and descriptors.         *)
RightAnswer ==
    \A c \in Browsers :
        closed[c] /\ ~hung[c] /\ changes = 0 /\ Whole(request[c]) /\ Asks(request[c])
            => \/ Expected(request[c], resp[c])
               \/ request[c][1].words[1] # "GET" /\ resp[c] = NoResponse

(* The server dies only of a client that has hung up, a file that has      *)
(* changed, an empty file, a header line with a % in the request it is     *)
(* serving, or a URI whose file name does not fit.                         *)
DiesOnlyOf ==
    ~alive => \/ hung[serving] \/ changes > 0
              \/ sbuf.mode # "absent" /\ sbuf.size = 0
              \/ \E k \in 1..nread[serving] : request[serving][k].kind = "percent"
              \/ ~Fits(req.uri)

(* The server waits for its child: at the next connection none is left.    *)
NoZombie == pc \in {"accept", "request"} => child = "none"

(* If nobody hangs up, all requests are whole and no program runs forever, *)
(* then every client is answered, unless the server dies.                  *)
WellBehaved ==
    \A c \in Browsers :
        Whole(request[c]) /\ Asks(request[c]) /\ File(FileName(Uri(request[c]))).mode # "hanging"
Stay == \A c \in Browsers : ~hung[c]
Answered == ~alive \/ \A c \in Browsers : closed[c]
EveryoneAnswered == WellBehaved /\ []Stay => <>Answered

=============================================================================
