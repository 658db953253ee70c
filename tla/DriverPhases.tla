---------------------------- MODULE DriverPhases ----------------------------
(***************************************************************************)
(* A run of the malloc lab's driver (main of mdriver.c): each trace is     *)
(* evaluated for correctness (module MDriver, step by step along the       *)
(* trace), and if it passes it is replayed without any check, once to      *)
(* measure utilization and "Repeats" times to measure speed; the results   *)
(* of all traces make the performance index.                               *)
(*                                                                         *)
(* A trace is a sequence of requests [type, id, size].  A utilization is a *)
(* pair of high-water mark and heap size, the index is in whole points.    *)
(***************************************************************************)
EXTENDS MDriver, Sequences, Functions

CONSTANTS Traces,      \* Traces[i]: what the i-th trace file may hold
          Repeats,     \* how often ftimer runs eval_mm_speed
          Times,       \* seconds a trace may take
          LibcRate     \* AVG_LIBC_THRUPUT, requests per second

Request == [type : {"a", "r", "f"}, id : Ids, size : Sizes]

(* The index of no trace, or of empty ones, is a division by zero.         *)
ASSUME PhaseAssumption ==
    /\ MaxEvals > 0 /\ \A i \in 1..MaxEvals : Traces[i] \subseteq Seq(Request) \ {<<>>}
    /\ Repeats \in Nat \ {0} /\ LibcRate \in Nat \ {0} /\ Times \subseteq Nat

VARIABLES phase, trace,
          pos,         \* the next request
          total, hwm,  \* total_size, max_total_size
          run,         \* runs of eval_mm_speed so far
          stats,       \* mm_stats of the traces done: valid, ops, secs, util
          errors,
          score,       \* what main prints at its end
          checked      \* history: heap and blocks when the trace had passed,
                       \* and whether a heap had lost memory by then

phases == <<phase, trace, pos, total, hwm, run, stats, errors, score, checked>>
pvars == <<vars, phases>>

NoScore == [index |-> -1, correct |-> -1]

PhasesInit ==
    /\ Init
    /\ phase = "read" /\ trace = <<>> /\ pos = 1
    /\ total = 0 /\ hwm = 0 /\ run = 0
    /\ stats = <<>> /\ errors = 0 /\ score = NoScore
    /\ checked = [heap |-> mem_init, blocks |-> <<>>, lossy |-> FALSE]

-----------------------------------------------------------------------------
(* read_trace, and the start of eval_mm_valid                              *)
ReadTrace ==
    /\ phase = "read" /\ EvalStart
    /\ phase' = "valid" /\ trace' \in Traces[evals'] /\ pos' = 1
    /\ UNCHANGED <<total, hwm, run, stats, errors, score, checked>>

(* One request of eval_mm_valid.                                           *)
ValidRequest ==
    /\ phase = "valid" /\ pos <= Len(trace)
    /\ LET op == trace[pos]
       IN  \/ op.type = "a" /\ Alloc(op.id, op.size)
           \/ op.type = "r" /\ (ReallocAlloc(op.id, op.size) \/ ReallocFree)
           \/ op.type = "f" /\ Free(op.id)
    /\ pos' = IF pending' = NoCall THEN pos + 1 ELSE pos
    /\ UNCHANGED <<phase, trace, total, hwm, run, stats, errors, score, checked>>

(* A faulty variant of the next definition, for the properties to catch.   *)
Restart_no_reset == heap' = mm_init(heap).heap /\ blocks' = <<>> /\ pos' = 1

(* mem_reset_brk and mm_init of eval_mm_util and eval_mm_speed             *)
Restart ==
    LET r == mm_init(mem_reset_brk(heap))
    IN  heap' = r.heap /\ blocks' = <<>> /\ pos' = 1

Stats(valid, secs, util) == [valid |-> valid, ops |-> Len(trace), secs |-> secs, util |-> util]

(* malloc_error, and eval_mm_valid returns 0: nothing more of this trace.  *)
(* The stats of calloc are left as they are.                               *)
Invalid ==
    /\ phase = "valid" /\ pending = NoCall /\ verdict \notin {"running", "undefined"}
    /\ errors' = errors + 1
    /\ stats' = Append(stats, Stats(FALSE, 0, <<0, 1>>))
    /\ phase' = "read"
    /\ UNCHANGED <<vars, trace, pos, total, hwm, run, score, checked>>

Valid ==
    /\ phase = "valid" /\ Running /\ pos > Len(trace)
    /\ checked' = [heap |-> heap, blocks |-> blocks,
                   lossy |-> checked.lossy \/ ~heap.lossless]
    /\ phase' = "util" /\ total' = 0 /\ hwm' = 0
    /\ Restart
    /\ UNCHANGED <<ranges, pending, verdict, evals, trace, run, stats, errors, score>>

(* What the allocator makes of a request.                                  *)
Answers(h, op) ==
    CASE op.type = "a" -> {mm_malloc(h, op.size)}
      [] op.type = "f" -> {mm_free(h, blocks[op.id].ptr)}
      [] op.type = "r" ->
            {IF r.ret \in {NULL, Wild} THEN r
             ELSE LET f == mm_free(r.heap, blocks[op.id].ptr)
                  IN  Result(f.heap, IF f.ret = Wild THEN Wild ELSE r.ret) :
             r \in ReallocCopies(h, blocks[op.id].ptr, op.size)}

Held(id) == IF id \in Live THEN blocks[id].size ELSE 0

(* What a request adds to total_size.                                      *)
Growth(op) == IF op.type = "f" THEN -Held(op.id) ELSE op.size - Held(op.id)

(* One request of eval_mm_util or eval_mm_speed.  A call that fails ends   *)
(* the driver (app_error).                                                 *)
Replay ==
    /\ phase \in {"util", "speed"} /\ pos <= Len(trace)
    /\ LET op == trace[pos]
       IN  \E r \in Answers(heap, op) :
              /\ heap' = r.heap
              /\ CASE r.ret = Wild -> phase' = "undefined" /\ UNCHANGED blocks
                   [] r.ret = NULL -> phase' = "app_error" /\ UNCHANGED blocks
                   [] r.ret \notin {Wild, NULL} ->
                        /\ blocks' = IF op.type = "f" THEN Forget(op.id)
                                     ELSE Record(op.id, r.ret, op.size)
                        /\ UNCHANGED phase
              /\ IF phase = "util"
                 THEN total' = total + Growth(op) /\ hwm' = Larger(hwm, total')
                 ELSE UNCHANGED <<total, hwm>>
    /\ pos' = pos + 1
    /\ UNCHANGED <<ranges, pending, verdict, evals, trace, run, stats, errors, score, checked>>

(* eval_mm_util returns and ftimer starts the first run of eval_mm_speed.  *)
UtilEnds ==
    /\ phase = "util" /\ pos > Len(trace)
    /\ stats' = Append(stats, Stats(TRUE, 0, <<hwm, heap.brk>>))
    /\ phase' = "speed" /\ run' = 1
    /\ Restart
    /\ UNCHANGED <<ranges, pending, verdict, evals, trace, total, hwm, errors, score, checked>>

RunEnds ==
    /\ phase = "speed" /\ pos > Len(trace) /\ run < Repeats
    /\ run' = run + 1
    /\ Restart
    /\ UNCHANGED <<ranges, pending, verdict, evals, phase, trace, total, hwm, stats, errors,
                   score, checked>>

SpeedEnds ==
    /\ phase = "speed" /\ pos > Len(trace) /\ run = Repeats
    /\ \E secs \in Times : stats' = [stats EXCEPT ![Len(stats)].secs = secs]
    /\ phase' = "read"
    /\ UNCHANGED <<vars, trace, pos, total, hwm, run, errors, score, checked>>

(* The end of main: averages over all traces, and the index if there was   *)
(* no error.  A division by 0 seconds yields infinity, which is capped.    *)
Score ==
    /\ phase = "read" /\ evals = MaxEvals
    /\ LET util == SumFunction([i \in DOMAIN stats |->
                                   (60 * stats[i].util[1]) \div stats[i].util[2]])
           ops  == SumFunction([i \in DOMAIN stats |-> stats[i].ops])
           libc == LibcRate * SumFunction([i \in DOMAIN stats |-> stats[i].secs])
           p1 == util \div Len(stats)
           p2 == IF ops > libc THEN 40 ELSE (40 * ops) \div libc
       IN  score' = [index |-> IF errors = 0 THEN p1 + p2 ELSE 0,
                     correct |-> Cardinality({i \in DOMAIN stats : stats[i].valid})]
    /\ phase' = "exit"
    /\ UNCHANGED <<vars, trace, pos, total, hwm, run, stats, errors, checked>>

PhasesNext ==
    \/ ReadTrace \/ ValidRequest \/ Invalid \/ Valid \/ Replay
    \/ UtilEnds \/ RunEnds \/ SpeedEnds \/ Score

PhasesSpec == PhasesInit /\ [][PhasesNext]_pvars

-----------------------------------------------------------------------------
(* A replay ends where the checked evaluation ended: the same blocks at    *)
(* the same places in a heap of the same size, although the arena still    *)
(* holds other data, and payloads are not filled.  What is measured is     *)
(* what was checked.                                                       *)
ReplaysAgree ==
    phase \in {"util", "speed"} /\ pos > Len(trace) /\ checked.heap.lossless =>
        /\ blocks = checked.blocks
        /\ heap.brk = checked.heap.brk /\ heap.lossless

(* The replay of a trace that passed does not fail and touches no memory   *)
(* outside the arena.                                                      *)
ReplaySafe == phase \in {"app_error", "undefined"} => ~checked.heap.lossless

(* The high-water mark is a total of live payloads that were all in the    *)
(* heap at once: utilization is at most 1, as long as no heap has lost     *)
(* memory (in one that has, a replay may place blocks behind the break).   *)
UtilAtMostOne ==
    /\ phase = "util" => total = SumFunction([id \in Live |-> blocks[id].size])
    /\ ~checked.lossy => \A i \in DOMAIN stats : stats[i].util[1] <= stats[i].util[2]

(* The index is within 0 to 100 and given only if every trace is correct.  *)
ScoreSound ==
    phase = "exit" =>
        /\ ~checked.lossy => score.index \in 0..100
        /\ score.index > 0 => score.correct = MaxEvals
        /\ errors = MaxEvals - score.correct

=============================================================================
