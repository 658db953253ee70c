----------------------------- MODULE MCSupport -----------------------------
(***************************************************************************)
(* What the programs of the repository stand on and are measured with: the *)
(* socket openers, the wrappers and the signal-safe output of csapp.c,     *)
(* fcyc, and the autograder of the proxy lab.  Each behaviour is one of    *)
(* these, the initial state says which; the variables of the others are    *)
(* "off".                                                                  *)
(***************************************************************************)
EXTENDS OpenSocket, Sequences, SequencesExt

CONSTANTS
    W, Values, Size,   \* of Sio
    Ks, Limits, Samples, EpsNum, EpsDen, CacheSizes, Blocks,   \* of KBest
    PORT_MAX, MAX_PORT_TRIES, BasicList, Binaries, CacheList, FETCH_FILE,
    Proxies, MaxMishaps, Crashes   \* of Harness

VARIABLES part,
    handler, wrapper, result, failed, exited, said,   \* of Wrappers
    putl, asked, v, neg, i, j, s, written,   \* of Sio
    fcyc, kbest, maxsamples, clear_cache, cache_size, cache_block, cache_buf,
    values, samplecount, pos, cptr, least, taken,   \* of KBest
    able, test, script, server, n, tries, port, proc, owner, got, succeeded,
    score, fetching, blocked, cached, mishaps, intruded   \* of Harness

sockets == vars
wrappers == <<handler, wrapper, result, failed, exited, said>>
output == <<putl, asked, v, neg, i, j, s, written>>
kbestvars == <<fcyc, kbest, maxsamples, clear_cache, cache_size, cache_block,
               cache_buf, values, samplecount, pos, cptr, least, taken>>
harnessvars == <<able, test, script, server, n, tries, port, proc, owner, got,
                 succeeded, score, fetching, blocked, cached, mishaps, intruded>>
supportvars == <<part, sockets, wrappers, output, kbestvars, harnessvars>>

socketsOff ==
    /\ kind = "off" /\ pc = "off" /\ p = "off" /\ list = "off"
    /\ fd = "off" /\ answer = "off" /\ open = "off" /\ attached = "off"
    /\ unfreed = "off" /\ returned = "off" /\ errors = "off"
wrappersOff ==
    /\ handler = "off" /\ wrapper = "off" /\ result = "off" /\ failed = "off"
    /\ exited = "off" /\ said = "off"
outputOff ==
    /\ putl = "off" /\ asked = "off" /\ v = "off" /\ neg = "off"
    /\ i = "off" /\ j = "off" /\ s = "off" /\ written = "off"
kbestvarsOff ==
    /\ fcyc = "off" /\ kbest = "off" /\ maxsamples = "off" /\ clear_cache = "off"
    /\ cache_size = "off" /\ cache_block = "off" /\ cache_buf = "off" /\ values = "off"
    /\ samplecount = "off" /\ pos = "off" /\ cptr = "off" /\ least = "off"
    /\ taken = "off"
harnessvarsOff ==
    /\ able = "off" /\ test = "off" /\ script = "off" /\ server = "off"
    /\ n = "off" /\ tries = "off" /\ port = "off" /\ proc = "off"
    /\ owner = "off" /\ got = "off" /\ succeeded = "off" /\ score = "off"
    /\ fetching = "off" /\ blocked = "off" /\ cached = "off" /\ mishaps = "off"
    /\ intruded = "off"

-----------------------------------------------------------------------------
C == INSTANCE Wrappers

S == INSTANCE Sio WITH pc <- putl
K == INSTANCE KBest WITH pc <- fcyc, result <- least
H == INSTANCE Harness WITH pc <- script

(* Longs of eight bits, numbers of one to three digits and the ends of the *)
(* range.  A sample may be negative; the cache has two or four ints.       *)
MCNumbers == {-128, -127, -100, -10, -9, 0, 7, 10, 99, 127}
MCSamples == {-2, 0, 2, 3, 5}

(* A text and a binary file, and proxies that can do everything, nothing,  *)
(* or all but one thing.                                                   *)
MCBasic == <<"home.html", "godzilla.jpg">>
MCCache == <<"tiny.c", "home.html">>
Everything == {"concurrent", "caching", "binary"}
MCTested == {{}, Everything} \union {Everything \ {a} : a \in Everything}

ASSUME Assumptions == S!SioAssumption /\ K!KBestAssumption /\ H!HarnessAssumption

-----------------------------------------------------------------------------
AnyInit ==
    \/ /\ part = "sockets" /\ Init
       /\ wrappersOff /\ outputOff /\ kbestvarsOff /\ harnessvarsOff
    \/ /\ part = "wrappers" /\ C!Init
       /\ socketsOff /\ outputOff /\ kbestvarsOff /\ harnessvarsOff
    \/ /\ part = "output" /\ S!Init
       /\ socketsOff /\ wrappersOff /\ kbestvarsOff /\ harnessvarsOff
    \/ /\ part = "fcyc" /\ K!Init
       /\ socketsOff /\ wrappersOff /\ outputOff /\ harnessvarsOff
    \/ /\ part = "harness" /\ H!Init
       /\ socketsOff /\ wrappersOff /\ outputOff /\ kbestvarsOff

SocketsNext ==
    part = "sockets" /\ Next /\ UNCHANGED <<part, wrappers, output, kbestvars, harnessvars>>
WrappersNext ==
    part = "wrappers" /\ C!Next /\ UNCHANGED <<part, sockets, output, kbestvars, harnessvars>>
OutputNext ==
    part = "output" /\ S!Next /\ UNCHANGED <<part, sockets, wrappers, kbestvars, harnessvars>>
FcycNext ==
    part = "fcyc" /\ K!Next /\ UNCHANGED <<part, sockets, wrappers, output, harnessvars>>
HarnessNext ==
    part = "harness" /\ H!Next /\ UNCHANGED <<part, sockets, wrappers, output, kbestvars>>

SupportNext == SocketsNext \/ WrappersNext \/ OutputNext \/ FcycNext \/ HarnessNext

(* The fairness that KBest and Harness ask.                                *)
kvars == K!vars
hvars == H!vars
SupportSpec ==
    /\ AnyInit /\ [][SupportNext]_supportvars
    /\ WF_kvars(part = "fcyc" /\ K!Fcyc)
    /\ WF_hvars(part = "harness" /\ H!Script)

-----------------------------------------------------------------------------
(* Every wrapper ends the process when its call has failed, only then, and *)
(* with the right reason, and no handled signal ends it; the calls of      *)
(* which this is not true are named.                                       *)
WrapperSound == part = "wrappers" => C!TestFits /\ C!SaysWhy /\ C!SignalHarmless

(* A number that main or a signal handler puts is written as it is.        *)
PutsItsNumber == part = "output" => S!PutsItsNumber

(* fcyc returns the best of its samples, stops when the K best agree, and  *)
(* stays in its cache buffer.                                              *)
BestSound == part = "fcyc" => K!InBuffer /\ K!KSmallest /\ K!BestIsLeast /\ K!StopsRight

(* Without strangers a test begins when its servers listen and marks are   *)
(* earned; a script that reaches its end has left nothing running.         *)
HarnessSound ==
    part = "harness" => H!ServersReady /\ H!MarksEarned /\ H!FullMarks /\ H!LeavesNothing

(* Every call of fcyc returns, or exits for want of a cache buffer.        *)
FcycReturns ==
    part = "fcyc" /\ fcyc \notin {"idle", "returned", "exited"} ~> fcyc \in {"returned", "exited"}

(* The script of the harness ends.                                         *)
Ends == part = "harness" ~> script \in {"exit", "killed"}
=============================================================================
