------------------------------ MODULE MCDriver ------------------------------
(***************************************************************************)
(* What surrounds the correctness evaluation of mdriver.c: the way of a    *)
(* trace from checktrace.pl to read_trace, the phases and the score, and   *)
(* the cycle counters.  Each behaviour is one of these, the initial state  *)
(* says which; the variables of the others are "off".                      *)
(***************************************************************************)
EXTENDS DriverPhases, CycleCounter

CONSTANTS MaxId, MaxLines, Letter, Number                         \* of TraceFile

VARIABLES part,
    file, num_ids, old_num_ops, num_ops, lines, hash, out, op_index, max_index

tracefile == <<file, num_ids, old_num_ops, num_ops, lines, hash, out, op_index, max_index>>
drivervars == <<part, pvars, tracefile, clocks>>

phasesOff ==
    /\ heap = "off" /\ blocks = "off" /\ ranges = "off" /\ pending = "off"
    /\ verdict = "off" /\ evals = "off" /\ phase = "off" /\ trace = "off"
    /\ pos = "off"
    /\ total = "off" /\ hwm = "off" /\ run = "off" /\ stats = "off"
    /\ errors = "off" /\ score = "off" /\ checked = "off"
tracefileOff ==
    /\ file = "off" /\ num_ids = "off" /\ old_num_ops = "off"
    /\ num_ops = "off" /\ lines = "off" /\ hash = "off" /\ out = "off"
    /\ op_index = "off" /\ max_index = "off"
clocksOff ==
    /\ platform = "off" /\ hi = "off" /\ lo = "off" /\ utime = "off"
    /\ cyc_hi = "off" /\ cyc_lo = "off" /\ cyc_per_tick = "off"
    /\ start_tick = "off" /\ ticks = "off" /\ uncounted = "off"
    /\ oldt = "off" /\ newt = "off" /\ oldc = "off"
    /\ e = "off" /\ time = "off" /\ ctime = "off" /\ pc = "off"
    /\ elapsed = "off" /\ own = "off" /\ slack = "off" /\ quiet = "off"

-----------------------------------------------------------------------------
(* The first trace file holds any legal trace of five requests (which of   *)
(* the two ids comes first makes no difference), the second one of a few,  *)
(* for an arena that is no longer new.                                     *)
LiveIn(t, n) == {i \in Ids : \E k \in 1..n :
    t[k].id = i /\ t[k].type = "a" /\ \A j \in (k + 1)..n : t[j].id # i \/ t[j].type # "f"}
Legal(t) == \A n \in DOMAIN t : (t[n].type = "a") # (t[n].id \in LiveIn(t, n - 1))

Requests == {r \in Request : r.type = "f" => r.size = 8}
LongTraces == {t \in [1..5 -> Requests] : t[1].id = 0 /\ Legal(t)}
SecondTraces == {t \in [1..3 -> Requests] : t[1].id = 0 /\ t[2].type = "r" /\ Legal(t)}
MCTraces == <<LongTraces, SecondTraces>>

F == INSTANCE TraceFile WITH pc <- file

(* Commands of one letter and one of two; id 2 is "00".                    *)
MCLetter == [c \in {"a", "r", "f", "x", "fx"} |-> IF c = "fx" THEN "f" ELSE c]
MCNumber == [i \in 0..2 |-> IF i = 2 THEN 0 ELSE i]

(* A counter about to wrap both words.                                     *)
MCReadings == {<<B - 1, B - 2>>}

ASSUME Assumptions == F!TraceFileAssumption

-----------------------------------------------------------------------------
AnyInit ==
    \/ part = "phases" /\ PhasesInit /\ tracefileOff /\ clocksOff
    \/ part = "file" /\ F!Init /\ phasesOff /\ clocksOff
    \/ part = "clock" /\ ClocksInit /\ phasesOff /\ tracefileOff

MainNext == part = "phases" /\ PhasesNext /\ UNCHANGED <<part, tracefile, clocks>>
FileNext == part = "file" /\ F!Next /\ UNCHANGED <<part, pvars, clocks>>
ClockNext == part = "clock" /\ ClocksNext /\ UNCHANGED <<part, pvars, tracefile>>

DriverNext == MainNext \/ FileNext \/ ClockNext

DriverSpec == AnyInit /\ [][DriverNext]_drivervars

-----------------------------------------------------------------------------
(* eval_mm_util and eval_mm_speed measure what eval_mm_valid has checked,  *)
(* and the index is that of the traces that are correct.                   *)
PhasesSound ==
    part = "phases" => ReplaysAgree /\ ReplaySafe /\ UtilAtMostOne /\ ScoreSound

(* A trace of one-letter commands and plain ids that checktrace.pl has     *)
(* accepted and read_trace has loaded is what all phases rely on, and a    *)
(* good one is loaded.                                                     *)
TracesSound == part = "file" => F!LoadedIsLegal /\ F!IndexInArrays /\ F!AcceptedLoads

(* The cost of an interrupt is found, and a corrected time is at most what *)
(* it should be and no more below that than two interrupts and the error of*)
(* the calibration.                                                        *)
TimesSound == part = "clock" => CostSound /\ NeverTooMuch /\ LittleTooLittle
=============================================================================
