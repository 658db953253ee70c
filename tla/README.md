# Verification of the malloc lab and the network programs

The repository holds two C systems:

* `src/Week07/malloc-lab`: a storage allocator (`mm.c`) on a simulated memory
  (`memlib.c`), and the driver (`mdriver.c`) that runs traces of requests
  against it, checks every answer, times it and gives a score.
* `src/Week08`: the CS:APP network programs, all on the Rio package of
  `csapp.c`: an echo client and server, the Tiny web server with a CGI program,
  a web proxy, and the script that grades the proxy.

This directory models them in TLA+. TLC checks the models on small instances;
TLAPS proves the theorems listed below for every value of the constants.

## Inventory

| Part | State | Operations | Interacts with | What is hard | What makes it correct |
|---|---|---|---|---|---|
| Allocator, `mm.c` | the words of the arena (headers, footers), `heap_start_pos` | `mm_init`, `mm_malloc`, `mm_free`, `mm_realloc`, `coalesce`, `extend_heap` | calls `mem_sbrk`; shares the arena with the program that writes its payloads | everything is found by following tags in memory, so one wrong or missing tag surfaces calls later; stale words of an earlier trace; the arena runs out in the middle of a realloc | blocks tile the heap, no two live payloads share a byte, data survives, failure only when there is no room |
| Memory model, `memlib.c` | `mem_brk`, the arena | `mem_init`, `mem_reset_brk`, `mem_sbrk` | called by allocator and driver | reset does not clear; the last word of the arena | the break stays in the arena |
| Correctness evaluation, `mdriver.c: eval_mm_valid` | `trace->blocks`, `block_sizes`, the range list | one step per request of the trace | calls the allocator, the range list, writes the payloads | order of removing the old and adding the new range in a realloc; early returns; several traces on one arena; byte comparison | accepts what a correct allocator does, complains only of real faults |
| Range list, `mdriver.c: add_range` ... | linked list of `[lo, hi]` | `add_range`, `remove_range`, `clear_ranges` | called by the evaluations | interval arithmetic at the edges | accepted payloads are disjoint, removal removes the right one |
| Driver phases, `mdriver.c: main` ... | statistics, the trace, its arrays | read trace, valid, util, speed, score | all of the above, timing, the trace files | the later phases check nothing and trust the first; the arena is dirty | they measure what was checked; a score only for valid traces |
| Trace tools, `traces/*.pl` | table of live ids | check, balance, generate | files that `read_trace` loads | an id that is freed leaves the table; ids of frees are not range-checked by the driver | what loads is legal and stays in the driver's arrays |
| Timing, `fcyc.c`, `clock.c`, `ftimer.c`, `fsecs.c` | K smallest samples, the cache buffer, two counter words, the cost of a timer interrupt | `add_sample`, `has_converged`, `clear`, `get_counter`, `callibrate`, `get_comp_counter` | called by the driver; timer interrupts | fewer samples than K, negative samples, borrow in a 64-bit difference, an interrupt between two readings | reports the least of converged samples; never more than the function took with the interrupts that are no ticks |
| Rio, `csapp.c: rio_*` | buffer and count per descriptor | `rio_writen`, `rio_read`, `rio_readnb`, `rio_readlineb` | sockets | short counts, EINTR, end of file, long lines | no byte lost, repeated or reordered |
| Socket openers, wrappers, Sio, `csapp.c` | open descriptors, the address list, `errno`; buffers on the stack | one or several system calls each | kernel, signals | a walk that fails half-way; six ways to report an error; a handler that interrupts output | nothing leaks; exit exactly on errors; numbers come out whole |
| Echo client and server | one connection each | `echo`, client loop | Rio, sockets | both wait; a dead peer ends the process | every line comes back |
| Tiny, `tiny.c`, `adder.c` | one connection, a child process | accept loop, `doit`, `serve_static`, `serve_dynamic` | Rio, file system, CGI child | end of file in the headers, file changing between check and use, waiting for the child | one complete and right response per request |
| Proxy, `proxy.c` | one client and one server connection | accept loop, `doit`, `parse_uri`, `build_http_header` | Rio, clients, origin servers | one client at a time, wrappers that exit | every client gets its own answer |
| Proxy harness, `driver.sh`, `nop-server.py` | ports, background processes, fetched files | start servers, fetch, compare, score | proxy, Tiny, other users of the machine | a port chosen and used later, slow or crashing servers, leftovers of earlier tests | servers are ready, marks are earned, it ends, a run that is finished leaves nothing running |
| `Week07/CSAPP` exercises | - | a few lines of `sbrk` | - | - | - |

`PROJECT.json` lists the same parts as components with their status, and under
`hazards` each difficulty at its line with the properties that watch it.

## Modules

    Allocator           what a malloc package promises              (abstract)
       ^ implements (Implements, KeepsPromise)
    BlockHeap           the heap as blocks      BlockHeapProofs  its theorems
       ^ refines while no extension loses memory (BlockSteps)
    DriverPhases   main: valid, util, speed, score
       | EXTENDS
    MDriver   the driver's correctness evaluation running MM    MDriverProofs
       | EXTENDS                         | INSTANCE (UsesRangeList)
    MM   mm.c word by word            RangeList   add_range ...
       | EXTENDS       MMProofs       RangeListProofs  its theorems
    MemLib   memlib.c

    TraceFile      checktrace.pl and read_trace
    KBest          fcyc.c
    CycleCounter   clock.c

    RioStream   a sender and a receiver   RioStreamProofs  its theorems
       | EXTENDS
    Rio   rio_... of csapp.c
       | EXTENDS
    Echo   echoclient.c, echoserveri.c, echo.c

    Tiny    tiny.c, adder.c
    Proxy   proxy.c between clients and origins
    OpenSocket   open_clientfd, open_listenfd
    Wrappers   the error tests of csapp.c        Sio   sio_putl and a handler
    Harness    driver.sh and the processes it starts

    MCServers = Echo, Tiny, Proxy                               ServersProofs
    MCDriver  = DriverPhases, TraceFile, CycleCounter           DriverProofs
    MCSupport = OpenSocket, Wrappers, Sio, KBest, Harness       SupportProofs

`DriverProofs` also uses `MDriverProofs` and with it `MMProofs`.

The last three put systems that do not interact side by side: the initial state
chooses one, the variables of the others hold `"off"`, and every action and
property asks first which system it is. One run then answers one question of a
family (does every client come to its end?) for all of them, and one proof
module holds the theorems about the systems that its run puts together.

### The malloc lab

**MemLib** models `memlib.c`. A heap is a record: the words of the arena, the
break, `heap_start_pos`, and one history field, `lossless`. Operations are
functions from heaps to a result (new heap and return value). Addresses are
byte offsets from `mem_start_brk`; the C library aligns that to 16 bytes, so
`mm_init`'s test for alignment always takes the same branch, as in the model.

**MM** translates every macro and function of `mm.c`. A block exists only in
its tag words, so a header that the code leaves unwritten is whatever the arena
held: garbage tags are followed as the code follows them. An access outside the
arena ends the call with the result `Wild` (undefined behaviour). `memcpy` on
overlapping ranges is undefined too: the model allows both reading everything
first and copying upwards over what is still to be read. Request sizes are
multiples of 4; `Adjust` rounds every size to doublewords anyway, and the
block-level module covers odd sizes.

**MDriver** is `eval_mm_valid`. `EvalStart` resets the break, clears the ranges
and calls `mm_init`; `Alloc`, `Free` and the pair `ReallocAlloc`,
`ReallocFree` are the cases of its switch, with every early return as a
`verdict`. A realloc is two steps because it is two calls of the allocator, and
the invariants are required to hold between them. A trace is any sequence that
`checktrace.pl` accepts, so the model chooses the next request freely. The
program's writes (`memset`) are part of the actions, and `newp[j]` is compared
as the signed `char` that it is.

**RangeList** is the range list against *any* malloc package: the address
returned is arbitrary. The linked list is a set, which is sound because no two
ranges start at the same address (`UniqueLo`).

**BlockHeap** describes the same heap as a partition into blocks, one action for
each way a call of `mm_malloc` or `mm_free` can go. It describes the allocator
as long as each extension of the heap is used up exactly. **Allocator** is what
the driver's comments ask of a malloc package.

**DriverPhases** is `main` over all traces. The first phase runs the steps of
`MDriver` along a fixed trace; `eval_mm_util` and `eval_mm_speed` replay it on
the same arena, not cleared, without a check and without filling payloads; a
failing call ends the driver (`app_error`), a failed first phase skips the other
two and suppresses the index. `checked` is a history: the heap and the blocks as
the first phase left them, with which `ReplaysAgree` compares each replay. Times
come from a set; a utilization is a pair of numbers. `checked.lossy` remembers
whether any trace so far has lost memory.

**TraceFile** follows one trace through `checktrace.pl` (header, one request at
a time with the three tests of the script, residue of frees in any order) and
`read_trace` (one request at a time, its two assertions, and `overrun` where it
would store behind `ops`). The script compares commands and ids as words, the driver
goes by the first letter of a command (`Letter`) and the number that an id is
(`Number`), so that "aa" and "fx" escape the script and are an allocation and a
free for the driver; "x" stands for every command that starts with another letter.
Sizes play no part. `Plain` are the files in which both read the same.

**KBest** is `fcyc.c`: configuration between calls, one step for each of the
clearing walk, the sample, an exchange of the insertion sort, and the convergence
test; without memory for the cache buffer the process exits. `taken` is the history
of samples. **CycleCounter** is `clock.c` for the
platforms of its `#if`: words of base `B`, cycles that pass between any two steps
of the program, timer interrupts that cost `COST` cycles, `start_counter`,
`get_counter`, `callibrate` and the compensated counter. An interrupt raises
`tms_utime`, which is all that the code looks at, or it does not (it has met the
process in the kernel). The environment is an assumption: a step of the program takes at most `STEP` cycles, no more than the
gap that counts as an interrupt (`THRESHOLD`), and interrupts are at least
`SPACING` apart, longer than a window of readings (`TimingAssumption`).

### The network programs

**Rio** says what each loop of the Rio package takes from the internal buffer
and when it is done; **RioStream** puts a process that calls `rio_writen` and one
that calls `rio_readlineb` and `rio_readnb` on the two ends of a socket, with one
action for each `write`, each `read` and each stretch of a loop between two
system calls. The socket has a size, takes part of what it is given and returns
part of what it holds, as TCP does; bytes are not lost or reordered in it. An
interrupted system call is repeated by the code and is a stuttering step.
`maxlen` is at least 2: every caller passes `MAXLINE` (8192), and `maxlen` 1
makes `rio_readlineb` return 0 as at end of file. In the map, lines of the
loops belong to several definitions, because both loops share `rio_read`.
**MCRioStream** gives the messages for TLC.

The servers are one level above: a call of the Rio package is one step, the
process can be interrupted between any two calls, and the wrappers' `exit` is a
step to "dead". **Echo** has several clients in the backlog of the iterative
server; a connection is two byte streams, and either end goes away with a FIN or
a reset (unread bytes at `close`, or a write to a closed end). Lines end as
`rio_readlineb` and `fgets` end them, and `strlen` cuts them at a NUL. **Tiny**
has one action for each point of `doit` and its callees at which a client, the
file system or the child can get in between: `stat`, the header, `open`, `mmap`,
the body, `fork`, the child's `execve`, its output, `wait`. `PrintDies` is the
`printf` that takes a header line for its format, `Overflow` a name too long for
`filename`; a word that the request line lacks is whatever the buffers hold
(`Leftovers`). A file may be cut or
removed at any time; the mapping shows zeros up to the end of its last page.
What a server is run with (browsers, the requests they may send, the files, how often
these change) is one of the constant `Worlds`; `world` says which.
**Proxy** has the accept loop, the request and its headers, the connection to the
origin, and the relay in chunks; origins answer, stay mute, are down or are
killed. Names, URIs and headers are sequences of words, so `parse_uri` and
`build_http_header` cut and filter as the code does. They have sizes, and
`authority`, `other_hdr` and `http_header` capacities that the code does not look at:
what is written behind them ends the proxy or garbles what it sends (`Overflow`,
`Forward`). `queue` in all three is the kernel's backlog.

**OpenSocket** walks the address list with every call failing or not; the caller
goes on after a failure, or exits, if it is the wrapper. **Wrappers** gives each wrapper by the results it takes for an error and where it
looks for the reason, and lets every call have every result, a handled signal
included. **Sio** is `sio_ltoa`, digit by digit, in main and in a handler that
interrupts it anywhere; the buffer has room for a digit for each bit, the sign and
the NUL (128 bytes for 64 bits). **Harness** is `driver.sh` command by command with the
processes it starts in the background; a proxy under test is a set of abilities, and
a stranger on a port may give the right file, a wrong one or none.

## The allocator's fault, and how the properties deal with it

`mm_malloc` extends the heap when nothing fits, and then gives a header and a
footer to the first `asize` bytes of the block that `extend_heap` returns
(`mm.c:249-256`). When that block is longer, because the last block was free and
has been coalesced or because `asize` is below `CHUNKSIZE`, the rest is in no
block: what follows is a stale word. The field `heap.lossless` records whether
every extension since `mm_init` was exact. The invariants of `MDriver` that a
correct allocator would satisfy are stated under `lossless`; the states after a
loss are explored all the same, and the runs `NeverRefused`, `ReallocPreserves`
and `NoOverlap` show what they lead to. `EpilogueInArena`, `RangesMirrorBlocks`,
`FailsOnlyWhenFull` and `UsesRangeList` hold unconditionally.

A loss can also push the score up. A replay that starts on the words of a lossy
heap may be handed blocks that lie behind the break (the walk of `mm_malloc`
follows stale tags and is not stopped by the break), so that the high-water mark
exceeds the heap: five requests in an arena of 304 give a utilization of 96/84.
`UtilAtMostOne` and the bound on the index are therefore stated as long as no
trace has lost memory.

## Other behaviour of the code worth knowing

The models follow the code where it does something its author may not expect.
The properties name these cases as exceptions, each as narrow as it can be.

| Where | What | Exception in |
|---|---|---|
| `echo.c:18`, `:23` | a client that resets its connection ends the server for all | `EchoIntact` speaks of connected clients; `EveryClientEnds` still holds because clients see the end of file |
| `echoclient.c:42` | after the server's end of file the client prints its own line once more | `EchoIntact` |
| `echoclient.c:39` | an unterminated last line, or a NUL in a line, makes both sides wait | `TypeLines` |
| `tiny.c:145` | end of file inside the headers: the loop never ends | `WellBehaved` asks for whole requests |
| `tiny.c:245` | a file that is empty (mmap of no bytes), gone or cut ends the server | `DiesOnlyOf` |
| `tiny.c:321` | a program that cannot be executed: the client gets nothing, or what the server had printed and not flushed | `CompleteAnswer`, `RightAnswer` |
| `tiny.c:151` | a header line is the format of a `printf`: with a `%` in it the server may die | `DiesOnlyOf` |
| `tiny.c:171-176` | a URI near `MAXLINE` that ends in `/` gets `home.html` written behind `filename` | `DiesOnlyOf` |
| `tiny.c:83`, `proxy.c:56` | words that the request line lacks are what the buffers hold, such as the URI of an earlier request | `Asks` in `RightAnswer`, `CompleteAnswer`; `Fits` of the proxy |
| `tiny.c:265` | the suffix is looked for anywhere in the name, in a fixed order | `FileType` as in the code |
| `proxy.c:78` | an origin that is down ends the proxy; the test behind the call never runs | `DiesOnlyOf` |
| `proxy.c:34` | one connection at a time: a mute origin blocks everybody | `Obliging` |
| `proxy.c:149`, `:196`, `:205` | `authority`, `other_hdr` and `http_header` are filled without a look at their size: a long host, or several long header lines, each of them legal, end the proxy or garble what it sends | `Fits`, in each of `RelayIntact`, `HeaderBuilt`, `DiesOnlyOf`, `Obliging` |
| `proxy.c:137` | `//` is looked for anywhere in the URI | `parse_uri` as in the code |
| `checktrace.pl:96` | the test for a reused id cannot fire: freed ids leave the table | harmless: the trace stays legal (`LoadedIsLegal`) |
| `mdriver.c:561` | the driver goes by the first letter of a command, `checktrace.pl:85-114` by the whole word: `aa 0 8`, `aa 0 8`, `f 0` is accepted and loaded, and so is `fx 5`, `f 5`, which frees an id outside the arrays; ids `0` and `00` are two to the script and one to the driver | `Plain`, in each conjunct of `TracesSound` |
| `mm.c:254` in a replay | after a lossy extension a replay can fail where the checked run did not | `ReplaysAgree` and `ReplaySafe` are about runs without a loss |
| `clock.c:128` | on Alpha the counter has one word, and a wrap is not noticed in the high word | `Elapsed`, until the low word wraps |
| `clock.c:258-271` | an interrupt between `times` and the reading of the counter, at either edge, is subtracted and was not in the time: the result may be negative | `LittleTooLittle` bounds it; `KBest` takes negative samples |
| `clock.c:271` | an interrupt charged to system time is no tick and stays in the time | `NeverTooMuch` counts them (`uncounted`) |
| `fcyc.c:112` | without memory for the cache buffer the driver exits | `FcycReturns` |
| `csapp.c:975`, `:1027` | when `close` reports an error the address list is not freed | `NothingLeaks` counts these (`errors`) |
| `csapp.c:464`, `:539` | `Realloc` of 0 bytes and `Fwrite` of items of 0 bytes exit though nothing has failed | `TestFits` |
| `csapp.c:716` | `Pthread_once` does not look at its result | `TestFits` |
| `csapp.c:47` | for `EAI_SYSTEM` the reason is in `errno`, and the message has the code | `SaysWhy` |
| `csapp.c:361`, `:370`, `:379`, `:424`, `:488` | a handled signal that meets `close`, `select`, `dup2`, `closedir` or `fclose` ends the process: the kernel does not repeat these calls, whatever `SA_RESTART` says | `SignalHarmless` |
| `csapp.c:244` | the most negative `long` is written wrongly | `PutsItsNumber` |
| `driver.sh:310` | the background fetch and the timed fetch race: a sequential proxy may get the marks for concurrency | `MarksEarned` claims nothing of them |
| `driver.sh:211` | a port is not asked whose server it is; a stranger's may be one of the same driver (`driver.sh:109-111`), whose Tiny and proxy give the right files | `MarksEarned` claims the marks for the cache as long as no stranger has taken a port |
| `driver.sh:203` | a script that gives up waiting for a port leaves the servers it has started | `LeavesNothing` is about runs that reach their end |
| `driver.sh:91` | ten tries, each with a sleep of a second, where the message speaks of 5 seconds | none needed |

## Runs

| Run | Shows | Bounds and why they suffice |
|---|---|---|
| `DriverOneTrace` | the heap is well formed, owned block by block, keeps the data, fails only when full; the driver raises no false alarm | arena 120, chunk 32: the first chunk and two extensions, the last of which can fail; two ids give a free block between, before and behind live ones, both orders of freeing, reallocs in place of every kind; sizes 8 and 24 are the smallest block (16) and exactly a chunk (32), so splits, whole placements, exact and lossy extensions all happen. All verdicts are reached, undefined behaviour included |
| `DriverTwoTraces` | each call is a step of `BlockHeap`; a second trace on a dirty arena starts afresh; the range list is used as specified | arena 88, two evaluations, three sizes, the third one larger than a chunk |
| `BlockHeap` | each conjunct of the inductive invariant, payload separation, refinement of `Allocator` | arena 144: four chunks less the prologue; sizes include an odd one (33), and 40, larger than a chunk. Cannot deadlock |
| `RangeList` | `UniqueLo`, `NestedOrApart`, `InHeap` | arena 24: every pair of aligned starts with lengths below, at and above a doubleword (1, 8, 9, 24), and addresses outside on both sides |
| `Driver` | replays agree with the checked run and touch nothing outside; utilization at most 1 and index at most 100 as long as no heap has lost memory, an index only for correct traces; what loads is legal; the counters are exact and compensation leaves no tick in the time and takes too much only by the error of the calibration and two interrupts | every legal trace of five requests over two ids and two sizes, followed by every one of three whose second request is a realloc, in an arena of 120 as in `DriverOneTrace` (failures and lossy extensions included), with two runs of the speed phase and times 0 and 3; trace files of up to three lines with every header, ids 0, 1 and "00", and commands of one letter, known and unknown, and of two; counter words of base 4, about to wrap both, 13 cycles (two interrupts in one measured time, and more at its edges), three ticks. The first id of a trace is 0: ids are interchangeable |
| `RioStream` | no byte lost, repeated or reordered; each call returns what was asked for; each call that can return does | buffer and socket of two bytes, messages of one to three, lines of at most two bytes and a NUL, counts of one and three: every message spans several reads and writes, lines end before, at and after the limit, counts need more than one buffer and leave part of one, and the sender may close inside a line. Cannot deadlock: a new call is always possible |
| `Servers` | every client whose request fits reads what belongs to it and nothing else; servers die of the named causes only; clients that keep to the protocol come to their end | two clients (echo, Tiny, proxy), so that one waits while the other is served; lines that fit, fill and exceed the buffer; two worlds of Tiny, two changes of files with one client, one with two; files of one and of two pages, files that may not be read or are not a program, a directory, programs that work, cannot be loaded, never end; nine requests to four kinds of origin, responses of two chunks. Words have sizes such that one request exceeds `authority` (8), one `other_hdr` and `http_header` (30), one URI Tiny's `filename` (30), and all others fit; requests without words and with a `%` in a header. The second proxy client always asks for the home page: it is there to be delayed or mixed up |
| `Support` | nothing leaks; exit on errors only and with the right reason, but for the calls named; numbers come out whole; the best sample is returned and each call returns; marks are earned, servers ready, nothing left, and the script ends | two addresses and two descriptors, so a walk can go on and can run out, and two closes that report an error; longs of eight bits with the numbers at every change of length; K of 1 and 3, limits 2 and 4 (below, at and above K), five kinds of sample with a negative and a zero; five proxies, two tries for a port, one mishap |
| `NeverRefused` (violation) | an allocation is refused by the driver as overlapping a live payload | as `DriverOneTrace` |
| `ReallocPreserves` (violation) | a realloc loses the data of the block | as `DriverOneTrace` |
| `NoOverlap` (violation) | `add_range` lets a payload pass that strictly contains a live one | arena 144, sizes up to 48: the enclosing payload must be longer than the enclosed one by a doubleword on each side |
| `LossIsReal` (violation) | a realloc of id 128 is reported as losing data that is there | ids 127 and 128, the two sides of the signed char |

Bounds on behaviour are `MaxEvals` (evaluations), `MaxLines` (lines of a trace
file), `MaxElapsed` and `MaxTicks` (cycles and interrupts), `MaxChanges` (of
files), `MaxCloseErrors` (of `close`) and `MaxMishaps` (interference with the
harness); the rest of each state
space is finite by the arena, the requests or the buffers. `CHUNKSIZE` is 4096
and `MAX_HEAP` 20 MB in the code; the models keep their relation to the sizes of
blocks (a chunk holds one or two blocks, the arena a few chunks). Deadlock is not
checked where a program ends: an evaluation, the driver, a client, the script; a
server with nobody left to serve waits.

Each property has a mutant in `PROJECT.json`: a faulty variant of one
translated definition (named `<definition>_<fault>`, just above it) for which
TLC reports that property violated.

## Fairness

Weak fairness throughout, of steps that a process takes by itself.

* `RioStream`: `Write`, `Refill`, `Take` and `Return`, because the operating
  system schedules both processes and TCP delivers what it has accepted. When the
  sender sends or closes, and whether the receiver calls, is left open, so
  `CallReturns` promises a return only when the sender has closed or a line end
  is on its way to a call for a line.
* `Servers`: the steps of the server, of Tiny's child and of answering origins
  (scheduled processes), and of each client that has more to send. Hanging up,
  interrupts, killed origins and changes of files are never forced, and
  `EveryClientEnds` assumes them away only where a server needs it (`Oblige`).
* `Support`: `fcyc` runs on and the function it times returns; the shell runs
  on. Of the servers that `driver.sh` starts it is assumed that `kill` ends them,
  so that its `wait` returns (`driver.sh:261-264`): no server of this repository
  catches SIGTERM. They may never listen, and `Ends` holds because of the script's
  own limit on tries and curl's time-outs.

The malloc lab is sequential code whose other properties are all safety
properties.

## Theorems

TLAPS proves 35 theorems. Each states a property that a run checks, for every
value of the constants. Each proof has the same outline: an invariant that
the initial states satisfy and every step keeps (one lemma for each action), and
that implies the property. The assumptions are those of the models, each with
the code that justifies it; TLC evaluates them on every run.

`BlockHeapProofs`, for every `MAX_HEAP` and `CHUNKSIZE` that are multiples of 8
with room for the first chunk, and every set of positive request sizes
(`HeapAssumption`; config.h gives 20 MB, mm.c 4096):

* `TypeCorrect`, `BlocksAligned`, `WellFormedHeap`, `BlocksDisjoint`,
  `FreeBlocksMerged`, `RequestsFit`: `Spec => []` of each conjunct of the invariant.
* `PayloadSafety`: `Spec => []PayloadsApart`.
* `Implements`: `Spec => KeepsPromise`, the refinement of `Allocator`.

The inductive invariant `IInv` is the conjunction of the six state properties.
None of them is inductive alone: merging two blocks keeps `Tiled` only if the
neighbour found by following tags really is the next block and nothing lies
between (`Disjoint`), `Coalesced` needs the guards that look in both directions
to find all neighbours (`Tiled`), and payloads are apart because each fits
between the tags of its block (`PayloadFits`) and blocks are disjoint.

`MDriverProofs`, the driver with the allocator word by word, for every arena,
chunk, set of ids and of request sizes and every number of traces
(`ArenaAssumption`, `ChunkAssumption`, `TraceAssumption`). Unconditionally, that is
also after an extension has lost memory:

* `TypeCorrect`, `EpilogueSafe` (`EpilogueInArena`), `RangesExact`
  (`RangesMirrorBlocks`), `FailureHonest` (`FailsOnlyWhenFull`) and `RangeListUsed`
  (`UsesRangeList`, the refinement of `RangeList`).

As long as no memory is lost:

* `TagsDescribeHeap` (`WellFormedHeap`), `BlocksAreOwned` (`OwnedBlocks`),
  `NothingOverwritten` (`DataKept`), `NoFalseReport` (`NoFalseAlarm`);
* `CallsAreBlockSteps` (`BlockSteps`): each step of the driver with `mm.c` is a step
  of `BlockHeap`. With `Implements` this carries a call of the C code, tag by tag,
  to what a malloc package promises.

The inductive invariant is `Shape /\ Lossless`. `Shape` is what every state
satisfies: the break is where an epilogue fits, entries of the table are aligned
and below the break, and a running evaluation has exactly their ranges. `Lossless`
says of a heap that has lost nothing that there are a map `z` from block addresses
to sizes and a set `A` of allocated ones with `Sound(z, A)`: the blocks are a chain
from the prologue to the epilogue and each tag in memory says what `z` and `A` say
(`Good`), no two free blocks touch (`Apart`), and the allocated ones are those that
the driver holds, each with room for its payload and the pending copy of a realloc
in place (`Owned`). The witness is needed because the properties only speak of what
the walks over the tags *find*; that a walk finds all of `z`, and nothing else, is
itself a theorem. `DataKept` and `NoFalseAlarm` are part of the invariant: that the
driver compares what is there needs that it is there, and that the heap's words are
changed only between payloads (`Keep`).

`MMProofs` has the lemmas about `mm.c` these rest on: what `PACK` and the tag macros
give, that `find_fit`'s walk returns the first fitting block and the walk of the
properties all blocks, what `coalesce`, `place`, `extend_heap`, `mm_malloc`, `mm_free`
and the copying loop of `mm_realloc` make of `z`, `A` and the payload words.

`RangeListProofs`, for every arena and every set of positive sizes
(`RangeAssumption`), and for any malloc package: `OneRangePerStart`,
`AcceptedRanges`, `RangesInHeap` (`UniqueLo`, `NestedOrApart`, `InHeap`). This is the
exact strength of `add_range`'s test; full disjointness is what the run `NoOverlap`
refutes.

`DriverProofs`:

* `CounterExact`: `Spec => []Elapsed`, for every base of a word and every start of the
  counter (`CycleAssumption`). `CounterInv` adds to the types how often the low word
  has wrapped (`Wrapped`), which the high word counts until it comes around itself;
  the lemma `Difference` is the arithmetic of the borrow.
* `TimesAreSound`: `TimesSound`, what `callibrate` finds and `get_comp_counter` makes of
  it. `ClockInv` splits the cycles between two readings into those of the program
  and at most one interrupt (`Gap`, `GapRead`), which the tick count has seen, or
  will see before the next window ends; and those of a measured function into its
  own, those of interrupts that are no ticks, and those of `k` ticks, with at most one
  tick more before the counter starts and one after it is read (`CompInv`).
  `TimingAssumption` is what `callibrate` counts on: a step takes no longer than
  `THRESHOLD`, a gap without an interrupt is never recorded, no two interrupts
  fall into one gap, and no time exceeds two words (`clock.c:208-210`: 1000 and 3000
  cycles, where a step takes tens and interrupts are millions apart).
* `TracesAreSound`: `TracesSound`, for every number of ids and of lines, every set of
  commands and every way to write an id (`TraceFileAssumption`), of files that are
  `Plain`. `TraceInv` says that, as long as the file is plain, the trace is legal so
  far and the table `%HASH` holds exactly its live ids; the script's tests are just
  enough for that, and the residue of frees empties the table. `CountInv` and `LoadInv`
  follow the counts of requests and of ids: a trace whose header was right is loaded.
  A free has an index inside the arrays because its id was allocated before, and
  allocations are compared with `num_ids`. Of other files nothing is claimed, because
  it would be false.
* `PhasesAreSound`: `PhasesSound`, for every arena, chunk, set of ids, of sizes and of
  trace files, legal traces or not, and every number of timed runs
  (`PhaseAssumption` and those of `MDriver`). That a replay agrees with the evaluation
  is about two runs of the allocator that are never in memory together, so it needs
  a witness that both can be compared with. The evaluation of a trace writes a
  *story* (`Story`): after each request the sizes of the blocks, which of them are
  in use, the end of the list and the driver's table. `ValidInv` says that the heap is
  where the story ends so far (`At`, and `Mid` between the two calls of a realloc), and
  `ReplayInv` that a replay, in an arena full of old words, is at the chapter of its
  position. A replay's step leads to the next chapter because calls depend on the
  blocks only: `PlaceFollows`, `FreeFollows` and `CopyFollows` of `MMProofs` say that on
  another arena with the same blocks `mm.c` returns the same address and leaves the
  same blocks. So no call of a replay fails, and it ends where the evaluation ended.
  `UtilInv` is that `total` is the sum over the table; each chapter's payloads with their
  tags are disjoint blocks below the break (`PayloadRoom`), hence `hwm` is at most the
  heap size and a utilization at most 1. `StatsInv` counts the valid entries of the
  table of results, with which the two parts of the index stay within their
  points (`UtilPoints`, `SpeedPoints`). After an extension has lost memory, what is left
  is that `total` is the sum over the table, that `errors` counts the traces that failed
  and that an index is given only if none did; all else is proved as long as no heap
  lost memory.

`RioStreamProofs`, for every size of buffer and socket, every set of messages,
every count above 0 and every `maxlen` above 1 (`RioAssumption`,
`StreamAssumption`): `BuffersKept` (`TypeOK`), `StreamIntact` (`Stream`) and
`CallResults` (`Results`). `IInv` adds two facts to `TypeOK` and `Stream`:
a call for a line has no line end before the last byte it has stored (`OneLine`),
and a sender that has closed has nothing left to write (`ClosedClean`), which
makes end of file mean that everything has been delivered. The lemmas
`Joined`, `JoinedTwice` and `Cut` say what joining and cutting sequences of bytes
does; each step moves bytes from one part of the stream to its neighbour.

`ServersProofs`:

* `ProxyIsSound`: `ProxySound`, for any number of clients and chunks, any origins, any
  sizes of words and of arrays, and any requests that `parse_uri` reads as they were meant (`ProxyAssumption`, and
  `ParsesBack`, which TLC evaluates for the requests of the run). `IInv`
  says that what the client being served has and what the proxy has yet to read are
  adjacent stretches of one origin's chunks (`ReplyInv`), that clients in the queue
  are distinct and untouched (`QueueInv`), and that a connection to an origin that is
  up ends only after its last chunk. `HeaderInv` says what `build_http_header` has
  kept of the lines read so far, from which the lemma `TooLongSeen` finds that nothing
  is written behind an array for a request that fits.
* `EchoIsSound`: `EchoSound`, for any clients, typed texts, buffers and `MAXLINE`.
  `EchoIntact` is not inductive: a line could be cut by the next one. `EchoInv` adds that
  client and server take turns (`TalkInv`), so that at most one line is under way, and
  that it ends where `rio_readlineb` and `fgets` end it on both sides (`LineUp`).
* `TinyIsSound`: `TinySound`, for any worlds, sizes and page size, with requests of which
  only the last line is blank and files whose names have no `?`, do not end in `/` and
  have an extension at most at their end (`TinyAssumption`: `parse_uri` cuts at the
  first `?`, and `get_filetype` takes the first extension found *anywhere* in the name,
  so for other files the answer is indeed another one). `CompleteAnswer` and
  `RightAnswer` speak of connections that are over; `TinyInv` says of the one being
  served what has been read (`AskedInv`), that the response is at each stage what has
  been written so far and nothing of an earlier connection (`RespInv`), and that
  `sbuf`, `src` and the child's program are those of the file as long as no file has
  changed since `stat` (`FileInv`). At `close` these add up to an answer that is
  complete and right (`SentInv`), which no later step touches (`ClosedInv`). The lemma
  `NamedIsMeant` is that what `parse_uri` makes of a URI is the file that it means.

`SupportProofs`:

* `DescriptorsKept`: `Spec => []NothingLeaks`, for lists of any length, any set of
  descriptors and any number of errors of `close` (`OpenAssumption`), at every return,
  also one of a failure after which the caller goes on. `IInv` says that a descriptor
  is free, held by the walk, or with the caller, depending on `pc`, and that a list is
  held by the walk or lost to an error of `close`.
* `BestIsSound`: `BestSound`, for every K, limit, epsilon, cache size and block of at
  least one int, and all integer samples (`KBestAssumption`). The filled part of
  `values` is sorted but for the element that is on its way (`SortInv`), it holds
  samples only and among them a least one (`LeastInv`), a buffer that exists has the
  size that is configured (`BufferInv`), for every bound `values` has as many elements
  within it as there are samples within it, up to K (`SmallestInv`: ties and repeated
  samples are counted), and the limit is not passed (`LimitInv`).
* `HarnessIsSound`: `HarnessSound`, with its exceptions for strangers, for any ports, tries, lists of files and proxies,
  with a binary file among those of the basic test and the file of the last test
  among those fetched before it (`HarnessAssumption`; `driver.sh:29-41`).
  `HarnessInv` ties the position in the script to the processes: which servers have
  been started, are up and hold their own port (`ServerInv`, `OwnerInv`), what the
  proxy can have cached (`CacheInv`), and which files a mark stands for (`BasicInv`,
  `FullInv`).
* `NumbersArePut`: `PutsItsNumber`, for every width of a long, all numbers but the most
  negative one and every buffer with room (`SioAssumption`). `SioInv` says that the
  characters stored are the remainders of a chain of quotients that starts at the
  number (`DigitsInv`) and that the reversal has exchanged the ends up to `i` and `j`
  (`SwapInv`); `NumberIs` is the lemma that such a text denotes the number. What is
  left of the number has one bit less after each digit, which bounds the text.

Induction over data works without the library's induction theorems: a set of
naturals that is not empty has a least element (`LeastElement`, `LeastExists`, from
`NatLessThanWellFounded` and `WFMin`), so a least counterexample can be refuted; and a
recursive function is what its defining equation says once a function that
satisfies the equation is shown to exist (`TwoToIs`, `ValueExists`, and in `MMProofs`
`RecursionExists`).

### Only model-checked

* Liveness: `CallReturns`, `EveryClientEnds`, `FcycReturns`, `Ends`. The prover
  has neither fairness nor `ENABLED`.
* `WrapperSound`. `Wrappers` has no constants, so the run is exhaustive already.
* The violations, which are findings about the code.

Every other invariant and safety property of a passing run is stated by a theorem.

## Not modelled

* `mdriver.c`: the phases that time libc's `malloc` (`eval_libc_*`, with `-l`),
  option parsing, usage and printing. A score is the numbers that are printed.
* `memlib.c`: `mem_deinit` and `mem_pagesize`, which nothing calls. Requests of
  2^31 bytes or more (`memlib.c:62`, `incr` is an `int`) are not enumerated:
  `read_trace` reads sizes the shipped traces keep far below.
* `mm_realloc(ptr, 0)` and `mm_realloc(NULL, n)` (`mm.c:280`): no legal trace of
  the driver makes these calls.
* `clock.c`, `ftimer.c`: `ovhd` (not called), `ftimer_itimer` (not built in).
* `traces/gen_*.pl`: random numbers and text output. `checktrace.pl -s`: a
  summary is printed instead of the trace.
* `csapp.c`: `rio_readn`, which no program calls; the system calls themselves are
  external. The three copies of `csapp.c` are the same code but for `Setenv`; the
  map names the copy in `Week08`, and that of the echo programs and of Tiny for
  the calls these make.
* `driver.sh:136-200`: tests that programs and files are there. `free-port.sh`
  and `port-for-user.pl` are for the user at the shell.
* `Week07/CSAPP`: programs of a few lines that keep no state beyond one call of
  `sbrk` or `malloc`.
