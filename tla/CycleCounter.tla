---------------------------- MODULE CycleCounter ----------------------------
(***************************************************************************)
(* The cycle counters of the malloc lab (clock.c): a counter of two words, *)
(* the difference of two readings word by word, and the counter that makes *)
(* up for timer interrupts, with the calibration of their cost.  Words are *)
(* of base B.  Cycles pass between any two steps of the program, at most   *)
(* STEP of them and those of a timer interrupt, which comes no sooner than *)
(* SPACING cycles after the last.  An interrupt is charged to the user time*)
(* of the process as a tick, or to its system time, which the code does not*)
(* look at.                                                                *)
(***************************************************************************)
EXTENDS Integers

CONSTANTS B, Platforms,
          Readings,                 \* what the counter may show at first
          NEVENT, THRESHOLD, RECORDTHRESH,
          STEP, SPACING, COST,      \* COST: cycles of a timer interrupt
          MaxElapsed, MaxTicks      \* bounds on the counters

ASSUME CycleAssumption ==
    /\ B \in Nat \ {0, 1} /\ Platforms \subseteq {"i386", "alpha", "other"}
    /\ Readings \subseteq (0..(B - 1)) \X (0..(B - 1))
    /\ NEVENT \in Nat /\ THRESHOLD \in Nat /\ RECORDTHRESH \in Nat
    /\ STEP \in Nat /\ SPACING \in Nat /\ COST \in 1..(B - 1)
    /\ MaxElapsed \in Nat /\ MaxTicks \in Nat

(* What callibrate counts on: no time measured exceeds two words; a step   *)
(* of the program takes less than the gap between two readings that counts *)
(* as an interrupt, and no such gap without one is recorded (1000 and 3000 *)
(* cycles, where a step takes tens); and no two interrupts fall into one   *)
(* gap (they are millions of cycles apart).                                *)
ASSUME TimingAssumption ==
    /\ MaxElapsed < B * B
    /\ STEP <= THRESHOLD /\ THRESHOLD + STEP <= RECORDTHRESH
    /\ THRESHOLD + 4 * STEP < SPACING

VARIABLES
    platform,
    hi, lo, utime,          \* the machine's counter; the user time in ticks
    cyc_hi, cyc_lo,
    cyc_per_tick, start_tick,
    oldt, newt, oldc, e,    \* of callibrate, 0 outside it
    time, ticks, ctime,     \* of get_comp_counter: cycles, ticks, the result
    pc,
    elapsed, own,           \* history: cycles since start_counter; those of
                            \* them that were read and are not an interrupt's
    uncounted,              \* history: interrupts while f ran that are no tick
    slack, quiet            \* cycles since the last step, and interrupt

counter == <<hi, lo, elapsed>>
started == <<cyc_hi, cyc_lo>>
calibration == <<cyc_per_tick, oldt, newt, oldc, e>>
corrected == <<time, ticks, ctime>>
clocks == <<platform, counter, utime, started, calibration, start_tick, corrected, pc, own,
          uncounted, slack, quiet>>

Word == 0..(B - 1)
Wrap(x) == IF x < 0 THEN x + B ELSE IF x >= B THEN x - B ELSE x

ClocksInit ==
    /\ platform \in Platforms
    /\ \E r \in Readings : hi = r[1] /\ lo = r[2]
    /\ utime = 0
    /\ cyc_hi = 0 /\ cyc_lo = 0
    /\ cyc_per_tick = 0 /\ start_tick = 0
    /\ oldt = 0 /\ newt = 0 /\ oldc = 0 /\ e = 0
    /\ time = 0 /\ ticks = 0 /\ ctime = 0 /\ pc = "idle"
    /\ elapsed = 0 /\ own = 0 /\ uncounted = 0 /\ slack = 0 /\ quiet = SPACING

-----------------------------------------------------------------------------
(* Cycles pass: the counter is rdtsc's of two words.                       *)
CyclesPass(d) ==
    /\ elapsed + d <= MaxElapsed
    /\ lo' = Wrap(lo + d)
    /\ hi' = IF lo + d >= B THEN Wrap(hi + 1) ELSE hi
    /\ elapsed' = elapsed + d

(* While f runs, or mhz_full sleeps, any number of cycles pass.            *)
Measured == {"running", "plain"}

Pass ==
    /\ pc # "exit" /\ (slack < STEP \/ pc \in Measured)
    /\ CyclesPass(1)
    /\ own' = (IF pc \in {"ticks", "timed"} THEN own ELSE own + 1)
    /\ slack' = (IF pc \in Measured THEN 0 ELSE slack + 1)
    /\ quiet' = (IF quiet < SPACING THEN quiet + 1 ELSE quiet)
    /\ UNCHANGED <<platform, utime, started, calibration, start_tick, corrected, pc, uncounted>>

(* A timer interrupt: a tick of the user time, or not.                     *)
Tick ==
    /\ pc # "exit" /\ quiet >= SPACING
    /\ CyclesPass(COST) /\ quiet' = 0
    /\ \/ utime < MaxTicks /\ utime' = utime + 1 /\ UNCHANGED uncounted
       \/ /\ uncounted' = IF pc = "running" THEN uncounted + 1 ELSE uncounted
          /\ UNCHANGED utime
    /\ UNCHANGED <<platform, started, calibration, start_tick, corrected, pc, own, slack>>

(* access_counter; on Alpha counter(), with a high word of 0.              *)
High == IF platform = "i386" THEN hi ELSE 0

(* start_counter, which ends the program where it is not implemented.      *)
StartCounter(next) ==
    /\ cyc_hi' = High /\ cyc_lo' = lo
    /\ elapsed' = 0 /\ own' = 0 /\ uncounted' = 0
    /\ pc' = IF platform = "other" THEN "exit" ELSE next

(* A faulty variant of the next definition, for the properties to catch.   *)
Borrow_or_equal(low) == IF low >= lo THEN 1 ELSE 0

Borrow(low) == IF low > lo THEN 1 ELSE 0

(* get_counter                                                             *)
Counter ==
    LET low == Wrap(lo - cyc_lo)
    IN  Wrap(Wrap(High - cyc_hi) - Borrow(low)) * B + low

-----------------------------------------------------------------------------
machine == <<platform, hi, lo, utime, quiet>>
history == <<elapsed, own, uncounted>>
Leave(from) == pc = from /\ slack' = 0 /\ UNCHANGED machine

(* fcyc times with or without compensation.                                *)
Plain ==
    /\ Leave("idle")
    /\ StartCounter("plain")
    /\ UNCHANGED <<calibration, start_tick, corrected>>

(* get_counter gives Counter to its caller.                                *)
GetPlain ==
    /\ Leave("plain")
    /\ pc' = "idle"
    /\ UNCHANGED <<history, started, calibration, start_tick, corrected>>

StartComp ==
    /\ Leave("idle")
    /\ pc' = IF cyc_per_tick = 0 THEN "callibrate" ELSE "times"
    /\ UNCHANGED <<history, started, calibration, start_tick, corrected>>

(* callibrate: times and start_counter ...                                 *)
Callibrate ==
    /\ Leave("callibrate")
    /\ oldc' = utime /\ e' = 0 /\ pc' = "cal_start"
    /\ UNCHANGED <<history, started, cyc_per_tick, oldt, newt, start_tick, corrected>>

CalStart ==
    /\ Leave("cal_start")
    /\ StartCounter("cal_first")
    /\ UNCHANGED <<calibration, start_tick, corrected>>

CalFirst ==
    /\ Leave("cal_first")
    /\ oldt' = Counter /\ pc' = "cal_read"
    /\ UNCHANGED <<history, started, cyc_per_tick, newt, oldc, e, start_tick, corrected>>

(* ... then readings until one is THRESHOLD later than the last ...        *)
CalRead ==
    /\ Leave("cal_read") /\ e < NEVENT
    /\ IF Counter - oldt >= THRESHOLD
       THEN newt' = Counter /\ pc' = "cal_times"
       ELSE UNCHANGED <<newt, pc>>
    /\ UNCHANGED <<history, started, cyc_per_tick, oldt, oldc, e, start_tick, corrected>>

Recorded(cpt) == (cyc_per_tick = 0 \/ cyc_per_tick > cpt) /\ cpt > RECORDTHRESH

(* A faulty variant of the next definition, for the properties to catch.   *)
OldT_of_event == IF utime > oldc THEN newt ELSE oldt

OldT == newt

(* ... and, if a tick was counted meanwhile, the cycles per tick.          *)
CalTimes ==
    /\ Leave("cal_times")
    /\ IF utime > oldc
       THEN LET cpt == (newt - oldt) \div (utime - oldc)
            IN  cyc_per_tick' = (IF Recorded(cpt) THEN cpt ELSE cyc_per_tick)
                /\ e' = e + 1 /\ oldc' = utime
       ELSE UNCHANGED <<cyc_per_tick, e, oldc>>
    /\ oldt' = OldT /\ newt' = 0 /\ pc' = "cal_read"
    /\ UNCHANGED <<history, started, start_tick, corrected>>

CalEnd ==
    /\ Leave("cal_read") /\ e >= NEVENT
    /\ oldt' = 0 /\ oldc' = 0 /\ e' = 0 /\ pc' = "times"
    /\ UNCHANGED <<history, started, cyc_per_tick, newt, start_tick, corrected>>

(* The rest of start_comp_counter                                          *)
StartTick ==
    /\ Leave("times")
    /\ start_tick' = utime /\ pc' = "start"
    /\ UNCHANGED <<history, started, calibration, corrected>>

Start ==
    /\ Leave("start")
    /\ StartCounter("running")
    /\ UNCHANGED <<calibration, start_tick, corrected>>

(* get_comp_counter: first the counter, then the ticks.                    *)
GetTime ==
    /\ Leave("running")
    /\ time' = Counter /\ pc' = "ticks"
    /\ UNCHANGED <<history, started, calibration, start_tick, ticks, ctime>>

GetComp ==
    /\ Leave("ticks")
    /\ ticks' = utime - start_tick
    /\ ctime' = time - ticks' * cyc_per_tick
    /\ pc' = "timed"
    /\ UNCHANGED <<history, started, calibration, start_tick, time>>

Again ==
    /\ Leave("timed")
    /\ time' = 0 /\ ticks' = 0 /\ ctime' = 0 /\ pc' = "idle"
    /\ UNCHANGED <<history, started, calibration, start_tick>>

Timing == Plain \/ GetPlain \/ StartComp \/ StartTick \/ Start \/ GetTime \/ GetComp \/ Again
Calibrating == Callibrate \/ CalStart \/ CalFirst \/ CalRead \/ CalTimes \/ CalEnd

ClocksNext == Pass \/ Tick \/ Timing \/ Calibrating

ClocksSpec == ClocksInit /\ [][ClocksNext]_clocks

-----------------------------------------------------------------------------
CounterTypeOK ==
    /\ platform \in Platforms
    /\ hi \in Word /\ lo \in Word /\ cyc_hi \in Word /\ cyc_lo \in Word
    /\ elapsed \in Nat

(* Between start_counter and the last reading of what it started.          *)
Counting == pc \in {"plain", "running", "cal_first", "cal_read", "cal_times"}

(* get_counter returns the cycles since start_counter, however often the   *)
(* low word has wrapped: clock.c:52-71, for times of less than two words.  *)
(* On Alpha, where the high word is 0, only until the low word wraps.      *)
Elapsed ==
    Counting =>
        /\ platform = "i386" /\ elapsed < B * B => Counter = elapsed
        /\ platform = "alpha" /\ cyc_lo + elapsed < B => Counter = elapsed

(* Why: the low word has wrapped w times, and the high word counts that.   *)
Wrapped(w) ==
    /\ elapsed + cyc_lo = w * B + lo
    /\ platform = "i386" /\ w <= B => hi - cyc_hi = w \/ hi - cyc_hi = w - B
    /\ platform # "i386" => cyc_hi = 0

(* An interrupt is found to cost at least what it does, and less than a    *)
(* window of readings more, though one may be counted in a window and have *)
(* taken its cycles in the next: RECORDTHRESH refuses that window.         *)
CostSound ==
    platform = "i386" /\ cyc_per_tick # 0 => cyc_per_tick \in COST..(COST + THRESHOLD + STEP)

(* The corrected time is never more than what the function took by itself, *)
(* and by interrupts that are no ticks: the ticks are read before the      *)
(* counter starts and after it is read, so every tick in the time is paid  *)
(* for, with at least what it cost.                                        *)
NeverTooMuch ==
    platform = "i386" /\ pc = "timed" /\ cyc_per_tick # 0 => ctime <= own + uncounted * COST

(* It may be too little, even negative: by what calibration adds to each   *)
(* tick, and by one tick before the counter starts and one after it is     *)
(* read, which are paid for and not in the time.  It is never less.        *)
LittleTooLittle ==
    platform = "i386" /\ pc = "timed" /\ cyc_per_tick # 0 =>
        ctime >= own + uncounted * COST - ticks * (THRESHOLD + STEP) - 2 * COST
=============================================================================
