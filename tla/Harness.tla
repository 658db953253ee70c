------------------------------ MODULE Harness ------------------------------
(***************************************************************************)
(* The autograder of the proxy lab (driver.sh) with the processes it       *)
(* starts in the background: the Tiny server, the proxy under test, the    *)
(* server that never answers (nop-server.py), and a fetch from that server.*)
(* Strangers may take ports at any time: other users, some of them students*)
(* who run the same driver (driver.sh:108-110), so that a stranger on a    *)
(* port may serve the right file, a wrong one or none.                     *)
(*                                                                         *)
(* A proxy is the set of things it can do: "concurrent", "caching", and    *)
(* "binary" (it relays every kind of file unchanged).  A fetch by curl is  *)
(* one step: it stores the file, a wrong file, or none (refused, or timed  *)
(* out).  A killed process ends and gives its port back: no server of the  *)
(* repository catches the SIGTERM of kill.                                 *)
(***************************************************************************)
EXTENDS Integers, Sequences, FiniteSets

CONSTANTS PORT_MAX, MAX_PORT_TRIES,
          BasicList, Binaries,      \* files; those of them that are binary
          CacheList, FETCH_FILE,
          Proxies,                  \* the proxies that may be under test
          MaxMishaps,               \* ports taken by others, fetches that are late
          Crashes                   \* may a server die before it listens

HarnessAssumption ==
    /\ PORT_MAX \in Nat \ {0} /\ MAX_PORT_TRIES \in Nat \ {0}
    /\ BasicList \in Seq(STRING) /\ CacheList \in Seq(STRING)
    /\ \E k \in DOMAIN BasicList : BasicList[k] \in Binaries
    /\ \E k \in DOMAIN CacheList : CacheList[k] = FETCH_FILE
    /\ MaxMishaps \in Nat /\ Crashes \in BOOLEAN

VARIABLES
    able,        \* what the proxy under test can do
    test, pc,    \* the section of the script and the next command in it
    server,      \* the server that is being started
    n,           \* the file of a loop
    tries,       \* timeout_count
    port,        \* per server: the port reserved for it, 0 for none
    proc,        \* per server: none, started, up, dead
    owner,       \* per port: who listens on it
    got,         \* per directory: file -> "good", "bad" or "none"
    succeeded, score,
    fetching,    \* the background fetch: no, started, waiting, over
    blocked,     \* the proxy serves one client and waits for the nop server
    cached,      \* files of which the proxy keeps what it relayed
    mishaps,
    intruded     \* has a stranger taken a port since the script began

harness == <<test, pc, server, n, tries>>
results == <<got, succeeded, score>>
machine == <<port, proc, owner>>
proxy == <<fetching, blocked, cached>>
vars == <<able, harness, machine, results, proxy, mishaps, intruded>>

Ports == 1..PORT_MAX
Servers == {"tiny", "proxy", "nop"}
Tests == <<"basic", "concurrency", "cache">>
Files == {BasicList[k] : k \in DOMAIN BasicList} \union {CacheList[k] : k \in DOMAIN CacheList}
            \union {FETCH_FILE}
Nothing == [f \in Files |-> "none"]

(* The servers of a section, in the order in which they are started.       *)
Started(t) == IF t = "concurrency" THEN <<"tiny", "proxy", "nop">> ELSE <<"tiny", "proxy">>

Init ==
    /\ able \in Proxies
    /\ test = 1 /\ pc = "port" /\ server = 1 /\ n = 1 /\ tries = 0
    /\ port = [s \in Servers |-> 0] /\ proc = [s \in Servers |-> "none"]
    /\ owner = [p \in Ports |-> "free"]
    /\ got = [d \in {"proxy", "noproxy"} |-> Nothing]
    /\ succeeded = 0 /\ score = [t \in {"basic", "concurrency", "cache"} |-> 0]
    /\ fetching = "no" /\ blocked = FALSE /\ cached = {}
    /\ mishaps = 0 /\ intruded = FALSE

Marks == [basic |-> 40, concurrency |-> 15, cache |-> 15]

Section == Tests[test]
Server == Started(Section)[server]

(* Who listens on the port reserved for a server.                          *)
Listener(s) == IF port[s] \in Ports THEN owner[port[s]] ELSE "free"
Reaches(s, who) == Listener(s) = who

Kill(servers) ==
    /\ proc' = [s \in Servers |-> IF s \in servers THEN "none" ELSE proc[s]]
    /\ owner' = [p \in Ports |-> IF owner[p] \in servers THEN "free" ELSE owner[p]]

-----------------------------------------------------------------------------
(* The servers, and the other users.                                       *)
Binds(s) ==
    /\ proc[s] = "started"
    /\ IF port[s] \in Ports /\ owner[port[s]] = "free"
       THEN proc' = [proc EXCEPT ![s] = "up"] /\ owner' = [owner EXCEPT ![port[s]] = s]
       ELSE proc' = [proc EXCEPT ![s] = "dead"] /\ UNCHANGED owner
    /\ UNCHANGED <<able, intruded, harness, port, results, proxy, mishaps>>

Crash(s) ==
    /\ Crashes /\ proc[s] = "started"
    /\ proc' = [proc EXCEPT ![s] = "dead"]
    /\ UNCHANGED <<able, intruded, harness, port, owner, results, proxy, mishaps>>

StrangerBinds(p) ==
    /\ mishaps < MaxMishaps /\ owner[p] = "free"
    /\ owner' = [owner EXCEPT ![p] = "stranger"] /\ mishaps' = mishaps + 1
    /\ intruded' = TRUE
    /\ UNCHANGED <<able, harness, port, proc, results, proxy>>

StrangerLeaves(p) ==
    /\ owner[p] = "stranger"
    /\ owner' = [owner EXCEPT ![p] = "free"]
    /\ UNCHANGED <<able, intruded, harness, port, proc, results, proxy, mishaps>>

-----------------------------------------------------------------------------
(* free_port: from a random port upwards the first one not in use, or -1.  *)
FreePort ==
    /\ pc = "port"
    /\ \E start \in Ports :
          LET free == {p \in start..PORT_MAX : owner[p] = "free"}
          IN  port' = [port EXCEPT ![Server] =
                          IF free = {} THEN -1 ELSE CHOOSE p \in free : \A q \in free : p <= q]
    /\ pc' = "start"
    /\ UNCHANGED <<able, intruded, test, server, n, tries, proc, owner, results, proxy, mishaps>>

StartServer ==
    /\ pc = "start"
    /\ proc' = [proc EXCEPT ![Server] = "started"]
    /\ tries' = 0 /\ pc' = "wait"
    /\ UNCHANGED <<able, intruded, test, server, n, port, owner, results, proxy, mishaps>>

(* A faulty variant of the next definition, for the properties to catch.   *)
Seen_at_once == TRUE

(* grep in wait_for_port_use                                               *)
Seen == Listener(Server) # "free"

(* wait_for_port_use: the port is in use, by whom ever.                    *)
PortUsed ==
    /\ pc = "wait" /\ Seen
    /\ IF server < Len(Started(Section))
       THEN server' = server + 1 /\ pc' = "port"
       ELSE UNCHANGED server /\ pc' = "clear"
    /\ n' = 1 /\ succeeded' = 0
    /\ UNCHANGED <<able, intruded, test, tries, machine, got, score, proxy, mishaps>>

(* A faulty variant of the next definition, for the properties to catch.   *)
Counted_not == 0

Counted == tries + 1

(* It is not: sleep, or the ALRM handler ends the script.                  *)
PortUnused ==
    /\ pc = "wait" /\ ~Seen
    /\ tries' = Counted
    /\ pc' = IF tries' = MAX_PORT_TRIES THEN "killed" ELSE "wait"
    /\ UNCHANGED <<able, intruded, test, server, n, machine, results, proxy, mishaps>>

ClearDirs == got' = [d \in {"proxy", "noproxy"} |-> Nothing]

(* clear_dirs, and in the concurrency test the fetch from the nop server,  *)
(* which is left to run in the background.                                 *)
Clear ==
    /\ pc = "clear"
    /\ ClearDirs
    /\ fetching' = IF Section = "concurrency" THEN "started" ELSE fetching
    /\ pc' = IF Section = "concurrency" THEN "direct" ELSE "fetch"
    /\ UNCHANGED <<able, intruded, test, server, n, tries, machine, succeeded, score, blocked,
                   cached, mishaps>>

(* The request of the background fetch reaches the proxy ...               *)
NopArrives ==
    /\ fetching = "started" /\ proc["proxy"] = "up" /\ owner[port["proxy"]] = "proxy"
    /\ fetching' = "waiting"
    /\ blocked' = ("concurrent" \notin able /\ proc["nop"] = "up")
    /\ UNCHANGED <<able, intruded, harness, machine, results, cached, mishaps>>

(* ... and curl gives up after TIMEOUT seconds, or for want of a proxy; the*)
(* proxy goes on waiting.                                                  *)
NopOver ==
    /\ fetching \in {"started", "waiting"}
    /\ fetching' = "over"
    /\ UNCHANGED <<able, intruded, harness, machine, results, blocked, cached, mishaps>>

-----------------------------------------------------------------------------
File ==
    CASE Section = "basic" -> BasicList[n]
      [] Section = "cache" /\ pc = "fetch" -> CacheList[n]
      [] OTHER -> FETCH_FILE

Relayed(f) == IF f \in Binaries /\ "binary" \notin able THEN "bad" ELSE "good"

Kinds == {"good", "bad", "none"}

(* What a client gets from there, and what it gets through the proxy, which*)
(* may have kept a wrong copy since a stranger was here.  A server that is *)
(* not the one meant answers with an error page, or not at all.            *)
FromTiny ==
    CASE Listener("tiny") = "tiny" -> {"good"}
      [] Listener("tiny") = "stranger" -> Kinds
      [] Listener("tiny") = "free" -> {"none"}
      [] OTHER -> {"bad", "none"}

Stale == IF intruded /\ "caching" \in able THEN {"bad"} ELSE {}

Upstream(f) ==
    CASE f \in cached -> {Relayed(f)}
      [] f \notin cached /\ Reaches("tiny", "tiny") -> {Relayed(f)} \union Stale
      [] f \notin cached /\ Reaches("tiny", "stranger") -> {Relayed(f), "bad", "none"}
      [] OTHER -> {"bad", "none"}

ThroughProxy(f) ==
    CASE Listener("proxy") = "proxy" -> IF blocked THEN {"none"} ELSE Upstream(f)
      [] Listener("proxy") = "stranger" -> Kinds
      [] Listener("proxy") = "free" -> {"none"}
      [] OTHER -> {"bad", "none"}

(* A fetch that is served too slowly times out.                            *)
Arrives(dir, kind) ==
    \/ got' = [got EXCEPT ![dir][File] = kind] /\ UNCHANGED mishaps
    \/ kind # "none" /\ mishaps < MaxMishaps /\ mishaps' = mishaps + 1 /\ UNCHANGED got

(* A proxy that caches keeps what it relays of an answer.                  *)
Keeps(kind) ==
    /\ "caching" \in able /\ Reaches("proxy", "proxy") /\ ~blocked
    /\ Reaches("tiny", "tiny") \/ Reaches("tiny", "stranger")
    /\ kind = Relayed(File)

(* download_proxy into PROXY_DIR                                           *)
Fetch ==
    /\ pc = "fetch"
    /\ \E kind \in ThroughProxy(File) :
          /\ Arrives("proxy", kind)
          /\ cached' = IF Keeps(kind) THEN cached \union {File} ELSE cached
    /\ IF Section = "cache" /\ n < Len(CacheList) THEN n' = n + 1 /\ UNCHANGED pc
       ELSE /\ pc' = (CASE Section = "basic" -> "direct" [] Section = "concurrency" -> "compare"
                       [] Section = "cache" -> "kill_tiny")
            /\ UNCHANGED n
    /\ UNCHANGED <<able, intruded, test, server, tries, machine, succeeded, score, fetching,
                   blocked>>

(* download_noproxy into NOPROXY_DIR                                       *)
Direct ==
    /\ pc = "direct"
    /\ \E kind \in FromTiny : Arrives("noproxy", kind)
    /\ pc' = IF Section = "basic" THEN "compare" ELSE "fetch"
    /\ UNCHANGED <<able, intruded, test, server, n, tries, machine, succeeded, score, proxy>>

KillTiny ==
    /\ pc = "kill_tiny"
    /\ Kill({"tiny"})
    /\ pc' = "refetch"
    /\ UNCHANGED <<able, intruded, test, server, n, tries, port, results, proxy, mishaps>>

(* The file is fetched again, through the proxy but into NOPROXY_DIR.      *)
Refetch ==
    /\ pc = "refetch"
    /\ \E kind \in ThroughProxy(File) : Arrives("noproxy", kind)
    /\ pc' = "compare"
    /\ UNCHANGED <<able, intruded, test, server, n, tries, machine, succeeded, score, proxy>>

(* diff: files that are wrong may be wrong in the same way.                *)
Same(f) ==
    LET a == IF Section = "cache" THEN "good" ELSE got["proxy"][f]
        b == got["noproxy"][f]
    IN  IF a # b \/ a = "none" THEN {FALSE} ELSE IF a = "good" THEN {TRUE} ELSE BOOLEAN

(* The result of a file or of a section.                                   *)
Compare ==
    /\ pc = "compare"
    /\ \E same \in Same(File) : succeeded' = succeeded + (IF same THEN 1 ELSE 0)
    /\ IF Section = "basic" /\ n < Len(BasicList)
       THEN n' = n + 1 /\ pc' = "clear" /\ UNCHANGED score
       ELSE /\ score' = [score EXCEPT ![Section] =
                            (Marks[Section] * succeeded') \div (IF Section = "basic" THEN n ELSE 1)]
            /\ pc' = "kill" /\ UNCHANGED n
    /\ UNCHANGED <<able, intruded, test, server, tries, machine, got, proxy, mishaps>>

Killed == {Started(Section)[k] : k \in DOMAIN Started(Section)}

(* kill and wait, and on to the next section.  wait returns because the    *)
(* servers end at SIGTERM, which none of the repository catches.           *)
KillAll ==
    /\ pc = "kill"
    /\ Kill(Killed)
    /\ fetching' = IF fetching = "no" THEN "no" ELSE "over"
    /\ IF test < Len(Tests) THEN test' = test + 1 /\ pc' = "port"
                           ELSE pc' = "exit" /\ UNCHANGED test
    /\ server' = 1 /\ blocked' = FALSE /\ cached' = {}
    /\ UNCHANGED <<able, intruded, n, tries, port, results, mishaps>>

Script ==
    \/ FreePort \/ StartServer \/ PortUsed \/ PortUnused \/ Clear \/ Fetch \/ Direct
    \/ KillTiny \/ Refetch \/ Compare \/ KillAll

Next ==
    \/ Script \/ NopArrives \/ NopOver
    \/ \E s \in Servers : Binds(s) \/ Crash(s)
    \/ \E p \in Ports : StrangerBinds(p) \/ StrangerLeaves(p)

Spec == Init /\ [][Next]_vars

(* The shell goes on.  Nothing is assumed of the servers but that kill ends*)
(* them, so that wait returns.                                             *)
FairSpec == Spec /\ WF_vars(Script)

-----------------------------------------------------------------------------
Testing == pc \in {"clear", "fetch", "direct", "kill_tiny"}

(* If no one else takes a port, a test begins only when every server it    *)
(* needs listens on the port reserved for it: no two get the same port,    *)
(* and a server that is slow or crashes is not tested.                     *)
ServersReady ==
    Testing /\ mishaps = 0 =>
        \A s \in Killed : proc[s] = "up" /\ owner[port[s]] = s

(* Marks are not given for nothing.  As long as no stranger takes a port,  *)
(* however late the fetches, marks for the cache go only to a proxy that   *)
(* keeps files; undisturbed, all marks of the basic test only to one that  *)
(* relays binary files.  (A stranger's server of the same driver on the    *)
(* port of Tiny or of the proxy does earn the marks: the script does not   *)
(* ask whose server answers.)                                              *)
MarksEarned ==
    /\ score["cache"] > 0 /\ ~intruded => "caching" \in able
    /\ score["basic"] = Marks["basic"] /\ mishaps = 0 => "binary" \in able

(* A proxy that can do everything gets all marks if nobody interferes.     *)
FullMarks ==
    pc = "exit" /\ mishaps = 0 /\ able = {"concurrent", "caching", "binary"} => score = Marks

(* A run that reaches its end leaves no server behind.  (One that the ALRM *)
(* handler of driver.sh:203 ends leaves those it has started.)             *)
LeavesNothing == pc = "exit" => \A s \in Servers : proc[s] \notin {"started", "up"}

(* The script ends, whatever becomes of its servers.                       *)
Ends == <>(pc \in {"exit", "killed"})

=============================================================================
