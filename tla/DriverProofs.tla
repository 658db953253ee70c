---------------------------- MODULE DriverProofs ----------------------------
(***************************************************************************)
(* The driver's run: the phases of a trace and the score; the cycle        *)
(* counters of clock.c; and the way of a trace file through checktrace.pl  *)
(* and read_trace.                                                         *)
(*                                                                         *)
(* CounterExact rests on CounterInv: how often the low word of the counter *)
(* has wrapped. TimesAreSound adds ClockInv: a window of readings holds    *)
(* one interrupt at most, so calibration finds no less than an interrupt   *)
(* costs, and the compensated time is no more than the function's own and  *)
(* that of interrupts which are no ticks, and little less: at most one tick*)
(* before the counter starts and one after it is read is paid for without  *)
(* being in the time.                                                      *)
(*                                                                         *)
(* TracesAreSound rests on TraceInv (what has been read is legal, and the  *)
(* table of the script holds its live ids), CountInv (the new number of    *)
(* requests counts what the script prints) and LoadInv (what read_trace    *)
(* has read and which ids it has met).                                     *)
(*                                                                         *)
(* PhasesAreSound rests on PhaseInv.  While no memory is lost, a checked   *)
(* evaluation writes a "story" of the trace: the blocks, those in use, the *)
(* end of the list and the driver's table after each request.  A replay    *)
(* in another arena follows the story, because what a call does depends on *)
(* the blocks only (PlaceFollows, FreeFollows and CopyFollows of module    *)
(* MMProofs); so it ends where the evaluation ended, nothing fails, and    *)
(* the payloads it counts are all in the heap at once.                     *)
(***************************************************************************)
EXTENDS MCDriver, MDriverProofs

Exact == Counting /\ platform # "other" => \E w \in Nat : Wrapped(w)

CounterInv == CounterTypeOK /\ Exact

(* The difference of two words with a borrow is their distance.            *)
LEMMA Difference ==
    ASSUME NEW w \in Nat, CounterTypeOK, Wrapped(w), platform = "i386", elapsed < B * B
    PROVE  Counter = elapsed
<1> USE CycleAssumption DEF Word, CounterTypeOK
<1>1. CASE lo >= cyc_lo
  <2>1. Wrap(lo - cyc_lo) = lo - cyc_lo /\ Borrow(lo - cyc_lo) = 0
    BY <1>1 DEF Wrap, Borrow
  <2>2. elapsed = w * B + (lo - cyc_lo)
    BY DEF Wrapped
  <2>3. w < B
    <3>1. SUFFICES ASSUME w >= B PROVE FALSE
      OBVIOUS
    <3>2. w * B >= B * B
      BY <3>1
    <3> QED BY <2>2, <3>2, <1>1
  <2>4. Wrap(Wrap(hi - cyc_hi) - 0) = w
    BY <2>3 DEF Wrap, Wrapped
  <2> QED BY <2>1, <2>2, <2>4 DEF Counter, High
<1>2. CASE lo < cyc_lo
  <2>1. Wrap(lo - cyc_lo) = lo - cyc_lo + B /\ Borrow(lo - cyc_lo + B) = 1
    BY <1>2 DEF Wrap, Borrow
  <2>2. elapsed = w * B + (lo - cyc_lo)
    BY DEF Wrapped
  <2>3. w # 0
    BY <2>2, <1>2
  <2>4. w <= B
    <3>1. SUFFICES ASSUME w >= B + 1 PROVE FALSE
      OBVIOUS
    <3>2. w * B >= (B + 1) * B
      BY <3>1
    <3>3. (B + 1) * B = B * B + B
      OBVIOUS
    <3> QED BY <2>2, <3>2, <3>3, <1>2
  <2>5. Wrap(Wrap(hi - cyc_hi) - 1) = w - 1
    BY <2>3, <2>4 DEF Wrap, Wrapped
  <2>6. (w - 1) * B + (lo - cyc_lo + B) = elapsed
    <3>1. (w - 1) * B = w * B - B
      OBVIOUS
    <3> QED BY <3>1, <2>2
  <2> QED BY <2>1, <2>5, <2>6 DEF Counter, High
<1> QED BY <1>1, <1>2

(* On Alpha: the low word alone, until it wraps.                           *)
LEMMA OneWord ==
    ASSUME NEW w \in Nat, CounterTypeOK, Wrapped(w), platform = "alpha", cyc_lo + elapsed < B
    PROVE  Counter = elapsed
<1> USE CycleAssumption DEF Word, CounterTypeOK
<1>1. w = 0
  <2>1. SUFFICES ASSUME w >= 1 PROVE FALSE
    OBVIOUS
  <2>2. w * B >= B
    BY <2>1
  <2> QED BY <2>2 DEF Wrapped
<1>2. elapsed = lo - cyc_lo /\ cyc_hi = 0
  BY <1>1 DEF Wrapped
<1>3. Wrap(lo - cyc_lo) = elapsed /\ Borrow(elapsed) = 0 /\ High - cyc_hi = 0
  BY <1>2 DEF Wrap, Borrow, High
<1>4. Wrap(Wrap(0) - 0) = 0
  BY DEF Wrap
<1> QED BY <1>3, <1>4 DEF Counter

(* Cycles pass: the low word wraps at most once.                           *)
LEMMA Passing ==
    ASSUME CounterInv, NEW d \in 1..(B - 1), CyclesPass(d), UNCHANGED <<platform, started, pc>>
    PROVE  CounterInv'
<1> USE CycleAssumption DEF Word, CounterTypeOK, CounterInv
<1>1. CounterTypeOK'
  BY DEF CyclesPass, Wrap, started
<1>2. ASSUME Counting', platform' # "other" PROVE \E w \in Nat : Wrapped(w)'
  <2>1. PICK w \in Nat : Wrapped(w)
    BY <1>2 DEF Exact, Counting
  <2>2. CASE lo + d < B
    <3>1. lo' = lo + d /\ hi' = hi
      BY <2>2 DEF CyclesPass, Wrap
    <3>2. Wrapped(w)'
      BY <2>1, <3>1 DEF Wrapped, CyclesPass, started
    <3> QED BY <3>2
  <2>3. CASE lo + d >= B
    <3>1. lo' = lo + d - B /\ hi' = (IF hi + 1 >= B THEN hi + 1 - B ELSE hi + 1)
      BY <2>3 DEF CyclesPass, Wrap
    <3>2. (w + 1) * B = w * B + B
      OBVIOUS
    <3>3. elapsed' + cyc_lo' = (w + 1) * B + lo'
      BY <2>1, <3>1, <3>2 DEF Wrapped, CyclesPass, started
    <3>4. platform' = "i386" /\ w + 1 <= B => hi' - cyc_hi' = w + 1 \/ hi' - cyc_hi' = w + 1 - B
      BY <2>1, <3>1 DEF Wrapped, started
    <3>5. platform' # "i386" => cyc_hi' = 0
      BY <2>1 DEF Wrapped, started
    <3>6. Wrapped(w + 1)'
      BY <3>3, <3>4, <3>5 DEF Wrapped
    <3> QED BY <3>6
  <2> QED BY <2>2, <2>3
<1> QED BY <1>1, <1>2 DEF Exact

(* start_counter: no wrap yet.                                             *)
LEMMA Starting ==
    ASSUME CounterInv, NEW next, StartCounter(next), UNCHANGED machine
    PROVE  CounterInv'
<1> USE CycleAssumption DEF Word, CounterTypeOK, CounterInv
<1>1. CounterTypeOK'
  BY DEF StartCounter, machine, High
<1>2. Wrapped(0)'
  BY DEF StartCounter, machine, High, Wrapped
<1> QED BY <1>1, <1>2 DEF Exact

(* A step that neither starts the counter nor takes time.                  *)
LEMMA Reading ==
    ASSUME CounterInv, UNCHANGED <<machine, elapsed, started>>, Counting' => Counting
    PROVE  CounterInv'
<1>1. CounterTypeOK'
  BY DEF CounterInv, CounterTypeOK, machine, started
<1>2. Exact'
  BY DEF CounterInv, Exact, Wrapped, machine, started
<1> QED BY <1>1, <1>2 DEF CounterInv

LEMMA CounterInit == ClocksInit => CounterInv
BY CycleAssumption DEF ClocksInit, CounterInv, CounterTypeOK, Exact, Counting, Word

LEMMA CounterStep == CounterInv /\ [ClocksNext]_clocks => CounterInv'
<1> SUFFICES ASSUME CounterInv, [ClocksNext]_clocks PROVE CounterInv'
  OBVIOUS
<1>1. CASE Pass
  BY <1>1, Passing, CycleAssumption DEF Pass
<1>2. CASE Tick
  BY <1>2, Passing, CycleAssumption DEF Tick
<1>3. CASE Plain \/ CalStart \/ Start
  BY <1>3, Starting DEF Plain, CalStart, Start, Leave
<1>4. CASE GetPlain \/ StartComp \/ StartTick \/ GetTime \/ GetComp \/ Again
  BY <1>4, Reading
     DEF GetPlain, StartComp, StartTick, GetTime, GetComp, Again, Leave, Counting, started, history
<1>5. CASE Callibrate \/ CalFirst \/ CalEnd
  BY <1>5, Reading DEF Callibrate, CalFirst, CalEnd, Leave, Counting, started, history
<1>6. CASE CalRead
  BY <1>6, Reading DEF CalRead, Leave, Counting, started, history
<1>7. CASE CalTimes
  BY <1>7, Reading DEF CalTimes, Leave, Counting, started, history
<1>8. CASE UNCHANGED clocks
  BY <1>8, Reading DEF clocks, counter, machine, Counting, started
<1> QED BY <1>1, <1>2, <1>3, <1>4, <1>5, <1>6, <1>7, <1>8 DEF ClocksNext, Timing, Calibrating

(* For every width of a word, get_counter returns the cycles since         *)
(* start_counter as long as they fit in two words, on Alpha in one.        *)
THEOREM CounterExact == ClocksSpec => []Elapsed
<1>1. CounterInv => Elapsed
  <2> SUFFICES ASSUME CounterInv, Counting
               PROVE  /\ platform = "i386" /\ elapsed < B * B => Counter = elapsed
                      /\ platform = "alpha" /\ cyc_lo + elapsed < B => Counter = elapsed
    BY DEF Elapsed
  <2>1. ASSUME platform = "i386", elapsed < B * B PROVE Counter = elapsed
    BY <2>1, Difference DEF CounterInv, Exact
  <2>2. ASSUME platform = "alpha", cyc_lo + elapsed < B PROVE Counter = elapsed
    BY <2>2, OneWord DEF CounterInv, Exact
  <2> QED BY <2>1, <2>2
<1> QED BY CounterInit, CounterStep, <1>1, PTL DEF ClocksSpec
-----------------------------------------------------------------------------
(* On a machine that counts in two words.                                  *)
Bounded ==
    /\ cyc_per_tick = 0 \/ cyc_per_tick \in COST..(COST + THRESHOLD + STEP)
    /\ slack \in 0..STEP /\ quiet \in 0..SPACING /\ elapsed \in 0..MaxElapsed
    /\ utime \in Nat /\ start_tick \in Nat /\ own \in Nat
    /\ oldt \in Nat /\ newt \in Nat /\ oldc \in Nat /\ time \in Nat /\ ctime \in Int
    /\ uncounted \in Nat /\ ticks \in Int

(* The cycles taken are the function's own and those of interrupts, k of   *)
(* which are ticks.  x more ticks came before the counter started or after *)
(* it was read.                                                            *)
Taken(taken, k) == taken = own + (k + uncounted) * COST
Ticks(k, x) == utime = start_tick + k + x

Fair == own + uncounted * COST

CompInv ==
    /\ pc = "start" => Ticks(0, 0) \/ (Ticks(0, 1) /\ quiet <= slack)
    /\ pc = "running" => \E k \in Nat : Taken(elapsed, k) /\ (Ticks(k, 0) \/ Ticks(k, 1))
    /\ pc = "ticks" => \E k \in Nat : \E x \in {0, 1} :
          Taken(time, k) /\ (Ticks(k, x) \/ (Ticks(k, x + 1) /\ quiet <= slack))
    /\ pc = "timed" /\ cyc_per_tick # 0 =>
          ctime <= Fair /\ ctime >= Fair - ticks * (THRESHOLD + STEP) - 2 * COST

(* A gap between readings has p cycles of the program's own and t of an    *)
(* interrupt; c ticks have been counted since the last were, and u are the *)
(* cycles of an interrupt since the later reading.  Once there was an      *)
(* interrupt there is not enough time for another.                         *)
Gap(p, c, t) ==
    /\ p \in Nat /\ c \in {0, 1} /\ t \in {0, COST}
    /\ elapsed - oldt = p + t /\ p <= THRESHOLD + slack /\ utime - oldc = c
    /\ c > 0 \/ t > 0 => quiet <= 2 * STEP + p

GapRead(p, c, t, u) ==
    /\ p \in Nat /\ c \in {0, 1} /\ t \in {0, COST} /\ u \in {0, COST}
    /\ newt - oldt = p + t /\ p <= THRESHOLD + STEP /\ elapsed - newt = slack + u
    /\ utime - oldc = c
    /\ u > 0 => t = 0 /\ quiet <= slack
    /\ c > 0 \/ t > 0 \/ u > 0 => quiet <= 2 * STEP + p + slack

CalInv ==
    /\ pc = "cal_start" => utime = oldc \/ (utime = oldc + 1 /\ quiet <= slack)
    /\ pc = "cal_first" => utime = oldc \/ (utime = oldc + 1 /\ quiet <= STEP + slack)
    /\ pc = "cal_read" => \E p, c, t \in Int : Gap(p, c, t)
    /\ pc = "cal_times" => \E p, c, t, u \in Int : GapRead(p, c, t, u)

ClockInv == platform = "i386" => Bounded /\ CompInv /\ CalInv

LEMMA ClockInit == ClocksInit => ClockInv
BY CycleAssumption, TimingAssumption DEF ClocksInit, ClockInv, Bounded, CompInv, CalInv

LEMMA Timings ==
    /\ B \in Nat /\ COST \in Nat /\ COST > 0 /\ STEP \in Nat /\ THRESHOLD \in Nat
    /\ SPACING \in Nat /\ RECORDTHRESH \in Nat /\ MaxElapsed \in Nat
    /\ MaxElapsed < B * B /\ STEP <= THRESHOLD /\ THRESHOLD + STEP <= RECORDTHRESH
    /\ THRESHOLD + 4 * STEP < SPACING
BY CycleAssumption, TimingAssumption

LEMMA CounterIs ==
    ASSUME CounterInv, platform = "i386", Bounded, Counting PROVE Counter = elapsed
<1>1. PICK w \in Nat : Wrapped(w)
  BY DEF CounterInv, Exact
<1>2. elapsed < B * B
  <2>1. B * B \in Nat
    BY Timings
  <2> QED BY <2>1, Timings DEF Bounded
<1> QED BY <1>1, <1>2, Difference DEF CounterInv

(* Time passes, but no interrupt.                                          *)
LEMMA PassKeeps ==
    ASSUME ClockInv, Pass, platform = "i386" PROVE Bounded' /\ CompInv' /\ CalInv'
<1>1. /\ slack < STEP \/ pc \in Measured
      /\ elapsed' = elapsed + 1 /\ elapsed + 1 <= MaxElapsed
      /\ own' = (IF pc \in {"ticks", "timed"} THEN own ELSE own + 1)
      /\ slack' = (IF pc \in Measured THEN 0 ELSE slack + 1)
      /\ quiet' = (IF quiet < SPACING THEN quiet + 1 ELSE quiet)
      /\ UNCHANGED <<utime, cyc_per_tick, oldt, newt, oldc, start_tick, time, ticks, ctime, pc,
                     uncounted>>
  BY DEF Pass, CyclesPass, calibration, corrected
<1>2. Bounded /\ CompInv /\ CalInv
  BY DEF ClockInv
<1>3. Bounded'
  BY <1>1, <1>2, Timings DEF Bounded
<1>4. CompInv'
  <2>1. ASSUME pc = "running"
        PROVE  (\E k \in Nat : Taken(elapsed, k) /\ (Ticks(k, 0) \/ Ticks(k, 1)))'
    <3>1. PICK k \in Nat : Taken(elapsed, k) /\ (Ticks(k, 0) \/ Ticks(k, 1))
      BY <1>2, <2>1 DEF CompInv
    <3>2. (k + uncounted) * COST \in Nat
      BY <1>2, Timings DEF Bounded
    <3>3. Taken(elapsed, k)'
      BY <1>1, <1>2, <2>1, <3>1, <3>2 DEF Bounded, Taken
    <3> QED BY <1>1, <3>1, <3>3 DEF Ticks
  <2>2. ASSUME pc = "ticks"
        PROVE  (\E k \in Nat : \E x \in {0, 1} :
                  Taken(time, k) /\ (Ticks(k, x) \/ (Ticks(k, x + 1) /\ quiet <= slack)))'
    <3>1. PICK k \in Nat, x \in {0, 1} :
              Taken(time, k) /\ (Ticks(k, x) \/ (Ticks(k, x + 1) /\ quiet <= slack))
      BY <1>2, <2>2 DEF CompInv
    <3>2. Taken(time, k)'
      BY <1>1, <2>2, <3>1 DEF Taken
    <3>3. Ticks(k, x)' \/ (Ticks(k, x + 1)' /\ quiet' <= slack')
      BY <1>1, <1>2, <2>2, <3>1 DEF Ticks, Bounded, Measured
    <3> QED BY <3>2, <3>3
  <2>3. ASSUME pc = "start" PROVE Ticks(0, 0)' \/ (Ticks(0, 1)' /\ quiet' <= slack')
    BY <1>1, <1>2, <2>3 DEF CompInv, Ticks, Bounded, Measured
  <2>4. ASSUME pc = "timed" PROVE Fair' = Fair
    BY <1>1, <2>4 DEF Fair
  <2> QED BY <1>1, <1>2, <2>1, <2>2, <2>3, <2>4 DEF CompInv
<1>5. CalInv'
  <2> USE Timings DEF Bounded, Measured
  <2>1. ASSUME pc = "cal_read" PROVE \E p, c, t \in Int : Gap(p, c, t)'
    <3>1. PICK p, c, t \in Int : Gap(p, c, t)
      BY <1>2, <2>1 DEF CalInv
    <3>2. Gap(p + 1, c, t)'
      BY <1>1, <1>2, <2>1, <3>1 DEF Gap
    <3> QED BY <3>2
  <2>2. ASSUME pc = "cal_times" PROVE \E p, c, t, u \in Int : GapRead(p, c, t, u)'
    <3>1. PICK p, c, t, u \in Int : GapRead(p, c, t, u)
      BY <1>2, <2>2 DEF CalInv
    <3>2. GapRead(p, c, t, u)'
      BY <1>1, <1>2, <2>2, <3>1 DEF GapRead
    <3> QED BY <3>2
  <2>3. ASSUME pc = "cal_start" PROVE (utime = oldc \/ (utime = oldc + 1 /\ quiet <= slack))'
    BY <1>1, <1>2, <2>3 DEF CalInv
  <2>4. ASSUME pc = "cal_first"
        PROVE  (utime = oldc \/ (utime = oldc + 1 /\ quiet <= STEP + slack))'
    BY <1>1, <1>2, <2>4 DEF CalInv
  <2> QED BY <1>1, <2>1, <2>2, <2>3, <2>4 DEF CalInv
<1> QED BY <1>3, <1>4, <1>5

(* An interrupt: in a gap only if there was none yet.                      *)
LEMMA TickKeeps ==
    ASSUME ClockInv, Tick, platform = "i386" PROVE Bounded' /\ CompInv' /\ CalInv'
<1>1. /\ quiet >= SPACING /\ quiet' = 0
      /\ \/ utime' = utime + 1 /\ uncounted' = uncounted
         \/ /\ utime' = utime
            /\ uncounted' = IF pc = "running" THEN uncounted + 1 ELSE uncounted
      /\ elapsed' = elapsed + COST /\ elapsed + COST <= MaxElapsed
      /\ UNCHANGED <<cyc_per_tick, oldt, newt, oldc, start_tick, time, ticks, ctime, pc, own,
                     slack>>
  BY DEF Tick, CyclesPass, calibration, corrected
<1>2. Bounded /\ CompInv /\ CalInv
  BY DEF ClockInv
<1>3. Bounded'
  BY <1>1, <1>2, Timings DEF Bounded
<1>4. CompInv'
  <2>1. ASSUME pc = "running"
        PROVE  (\E k \in Nat : Taken(elapsed, k) /\ (Ticks(k, 0) \/ Ticks(k, 1)))'
    <3>1. PICK k \in Nat : Taken(elapsed, k) /\ (Ticks(k, 0) \/ Ticks(k, 1))
      BY <1>2, <2>1 DEF CompInv
    <3>2. /\ (k + 1 + uncounted) * COST = (k + uncounted) * COST + COST
          /\ (k + (uncounted + 1)) * COST = (k + uncounted) * COST + COST
          /\ (k + uncounted) * COST \in Nat
      <4>1. \A z \in Nat : (z + 1) * COST = z * COST + COST /\ z * COST \in Nat
        BY Timings
      <4>2. k + uncounted \in Nat /\ k + 1 + uncounted = k + uncounted + 1
            /\ k + (uncounted + 1) = k + uncounted + 1
        BY <1>2 DEF Bounded
      <4> QED BY <4>1, <4>2
    <3>3. CASE utime' = utime + 1 /\ uncounted' = uncounted
      <4>1. Taken(elapsed, k + 1)'
        BY <1>1, <1>2, <3>1, <3>2, <3>3, Timings DEF Bounded, Taken
      <4>2. Ticks(k + 1, 0)' \/ Ticks(k + 1, 1)'
        BY <1>1, <1>2, <3>1, <3>3 DEF Bounded, Ticks
      <4> QED BY <4>1, <4>2
    <3>4. CASE utime' = utime /\ uncounted' = uncounted + 1
      <4>1. Taken(elapsed, k)'
        BY <1>1, <1>2, <3>1, <3>2, <3>4, Timings DEF Bounded, Taken
      <4> QED BY <1>1, <3>1, <3>4, <4>1 DEF Ticks
    <3> QED BY <1>1, <2>1, <3>3, <3>4
  <2>2. ASSUME pc = "ticks"
        PROVE  (\E k \in Nat : \E x \in {0, 1} :
                  Taken(time, k) /\ (Ticks(k, x) \/ (Ticks(k, x + 1) /\ quiet <= slack)))'
    <3>1. PICK k \in Nat, x \in {0, 1} :
              Taken(time, k) /\ (Ticks(k, x) \/ (Ticks(k, x + 1) /\ quiet <= slack))
      BY <1>2, <2>2 DEF CompInv
    <3>2. Ticks(k, x)
      BY <1>1, <1>2, <3>1, Timings DEF Bounded
    <3>3. Taken(time, k)'
      BY <1>1, <2>2, <3>1 DEF Taken
    <3>4. Ticks(k, x)' \/ (Ticks(k, x + 1)' /\ quiet' <= slack')
      BY <1>1, <1>2, <2>2, <3>2, Timings DEF Ticks, Bounded
    <3> QED BY <3>3, <3>4
  <2>3. ASSUME pc = "start" PROVE Ticks(0, 0)' \/ (Ticks(0, 1)' /\ quiet' <= slack')
    BY <1>1, <1>2, <2>3, Timings DEF CompInv, Ticks, Bounded
  <2>4. ASSUME pc = "timed" PROVE Fair' = Fair
    BY <1>1, <2>4 DEF Fair
  <2> QED BY <1>1, <1>2, <2>1, <2>2, <2>3, <2>4 DEF CompInv
<1>5. CalInv'
  <2> USE Timings DEF Bounded
  <2>1. ASSUME pc = "cal_read" PROVE \E p, c, t \in Int : Gap(p, c, t)'
    <3>1. PICK p, c, t \in Int : Gap(p, c, t)
      BY <1>2, <2>1 DEF CalInv
    <3>2. c = 0 /\ t = 0
      BY <1>1, <1>2, <3>1 DEF Gap
    <3>3. Gap(p, 0, COST)' \/ Gap(p, 1, COST)'
      BY <1>1, <1>2, <3>1, <3>2 DEF Gap
    <3> QED BY <3>3
  <2>2. ASSUME pc = "cal_times" PROVE \E p, c, t, u \in Int : GapRead(p, c, t, u)'
    <3>1. PICK p, c, t, u \in Int : GapRead(p, c, t, u)
      BY <1>2, <2>2 DEF CalInv
    <3>2. c = 0 /\ t = 0 /\ u = 0
      BY <1>1, <1>2, <3>1 DEF GapRead
    <3>3. GapRead(p, 0, 0, COST)' \/ GapRead(p, 1, 0, COST)'
      BY <1>1, <1>2, <3>1, <3>2 DEF GapRead
    <3> QED BY <3>3
  <2>3. ASSUME pc = "cal_start" PROVE (utime = oldc \/ (utime = oldc + 1 /\ quiet <= slack))'
    BY <1>1, <1>2, <2>3 DEF CalInv
  <2>4. ASSUME pc = "cal_first"
        PROVE  (utime = oldc \/ (utime = oldc + 1 /\ quiet <= STEP + slack))'
    BY <1>1, <1>2, <2>4 DEF CalInv
  <2> QED BY <1>1, <2>1, <2>2, <2>3, <2>4 DEF CalInv
<1> QED BY <1>3, <1>4, <1>5

(* Ticks are paid for with at least what interrupts cost.                  *)
LEMMA PaidFor ==
    ASSUME NEW k \in Nat, NEW n \in Nat, k <= n, NEW x \in Nat, COST <= x
    PROVE  k * COST <= n * x
<1>1. k * COST <= k * x
  BY Timings
<1>2. k * x <= n * x
  OBVIOUS
<1>3. k * COST \in Int /\ k * x \in Int /\ n * x \in Int
  BY Timings
<1> QED BY <1>1, <1>2, <1>3

(* All of them but two are in the time.                                    *)
LEMMA PaidTwice ==
    ASSUME NEW k \in Nat, NEW n \in Nat, n <= k + 2, NEW x \in Nat, x <= COST + THRESHOLD + STEP
    PROVE  n * x <= k * COST + 2 * COST + n * (THRESHOLD + STEP)
<1> DEFINE y == THRESHOLD + STEP
<1>1. y \in Nat /\ x <= COST + y
  BY Timings
<1> HIDE DEF y
<1>2. n * x <= n * (COST + y)
  BY <1>1, Timings
<1>3. n * (COST + y) = n * COST + n * y
  BY <1>1, Timings
<1>4. n * COST <= (k + 2) * COST
  BY Timings
<1>5. (k + 2) * COST = k * COST + 2 * COST
  BY Timings
<1>6. /\ n * x \in Int /\ n * COST \in Int /\ n * y \in Int /\ k * COST \in Int /\ 2 * COST \in Int
      /\ n * (COST + y) \in Int /\ (k + 2) * COST \in Int
  BY <1>1, Timings
<1>7. n * x <= k * COST + 2 * COST + n * y
  BY <1>2, <1>3, <1>4, <1>5, <1>6
<1> QED BY <1>7 DEF y

LEMMA GetCompKeeps ==
    ASSUME Bounded, CompInv, GetComp
    PROVE  /\ ctime' \in Int /\ ticks' \in Int
           /\ cyc_per_tick # 0 =>
                 /\ ctime' <= Fair
                 /\ ctime' >= Fair - ticks' * (THRESHOLD + STEP) - 2 * COST
<1>1. PICK k \in Nat, x \in {0, 1} :
          Taken(time, k) /\ (Ticks(k, x) \/ (Ticks(k, x + 1) /\ quiet <= slack))
  BY DEF CompInv, GetComp, Leave
<1> DEFINE n == utime - start_tick
<1>2. n \in Nat /\ k <= n /\ n <= k + 2
  BY <1>1 DEF Bounded, Ticks
<1>3. ticks' = n /\ ctime' = time - n * cyc_per_tick
  BY DEF GetComp
<1>4. cyc_per_tick \in Nat
      /\ (cyc_per_tick # 0 => COST <= cyc_per_tick /\ cyc_per_tick <= COST + THRESHOLD + STEP)
  BY Timings DEF Bounded
<1> HIDE DEF n
<1>5. /\ n * cyc_per_tick \in Int /\ k * COST \in Int /\ uncounted * COST \in Int /\ own \in Nat
      /\ n * (THRESHOLD + STEP) \in Int /\ 2 * COST \in Int
  BY <1>2, <1>4, Timings DEF Bounded
<1>6. time = own + (k * COST + uncounted * COST)
  <2>1. uncounted \in Nat
    BY DEF Bounded
  <2>2. (k + uncounted) * COST = k * COST + uncounted * COST
    BY <2>1, Timings
  <2> QED BY <1>1, <2>2 DEF Taken
<1>7. cyc_per_tick # 0 => k * COST <= n * cyc_per_tick
  BY <1>2, <1>4, PaidFor
<1>8. cyc_per_tick # 0 => n * cyc_per_tick <= k * COST + 2 * COST + n * (THRESHOLD + STEP)
  BY <1>2, <1>4, PaidTwice
<1>9. n \in Int /\ ctime' \in Int
  BY <1>2, <1>3, <1>5, <1>6
<1> QED BY <1>3, <1>5, <1>6, <1>7, <1>8, <1>9 DEF Fair

(* The steps that time a function.                                         *)
LEMMA TimingKeeps ==
    ASSUME ClockInv, CounterInv, Timing, platform = "i386"
    PROVE  Bounded' /\ CompInv' /\ CalInv'
<1>1. Bounded /\ CompInv /\ CalInv
  BY DEF ClockInv
<1>2. slack' = 0 /\ UNCHANGED <<utime, quiet>>
  BY DEF Timing, Plain, GetPlain, StartComp, StartTick, Start, GetTime, GetComp,
        Again, Leave,
         machine
<1>3. CASE Plain \/ GetPlain \/ StartComp \/ StartTick \/ Again
  <2>1. Bounded'
    BY <1>1, <1>2, <1>3, Timings
       DEF Bounded, Plain, GetPlain, StartComp, StartTick, Again, Leave, StartCounter, calibration,
            history, corrected
  <2>2. pc' \in {"plain", "idle", "callibrate", "times", "start"}
    BY <1>3 DEF Plain, GetPlain, StartComp, StartTick, Again, Leave, StartCounter
  <2>3. pc' = "start" => Ticks(0, 0)'
    BY <1>1, <1>2, <1>3, platform = "i386"
       DEF Plain, GetPlain, StartComp, StartTick, Again, Leave, StartCounter, Bounded, Ticks
  <2>4. CompInv'
    BY <2>2, <2>3 DEF CompInv
  <2>5. CalInv'
    BY <2>2 DEF CalInv
  <2> QED BY <2>1, <2>4, <2>5
<1>4. CASE Start
  <2>1. /\ pc = "start" /\ pc' = "running" /\ elapsed' = 0 /\ own' = 0 /\ uncounted' = 0
        /\ UNCHANGED <<cyc_per_tick, oldt, newt, oldc, start_tick, time, ticks, ctime>>
    BY <1>4 DEF Start, Leave, StartCounter, calibration, machine, corrected
  <2>2. Bounded'
    BY <1>1, <1>2, <2>1, Timings DEF Bounded
  <2>3. (\E k \in Nat : Taken(elapsed, k) /\ (Ticks(k, 0) \/ Ticks(k, 1)))'
    <3>1. Taken(elapsed, 0)'
      BY <2>1, Timings DEF Taken
    <3>2. Ticks(0, 0)' \/ Ticks(0, 1)'
      BY <1>1, <1>2, <2>1 DEF Bounded, CompInv, Ticks
    <3> QED BY <3>1, <3>2
  <2> QED BY <2>1, <2>2, <2>3 DEF CompInv, CalInv
<1>5. CASE GetTime
  <2>1. /\ pc = "running" /\ pc' = "ticks" /\ time' = Counter
        /\ UNCHANGED <<elapsed, own, uncounted, cyc_per_tick, oldt, newt, oldc, start_tick,
                       ticks, ctime>>
    BY <1>5 DEF GetTime, Leave, calibration, history
  <2>2. Counter = elapsed
    BY <1>1, <2>1, CounterIs DEF Counting
  <2>3. Bounded'
    BY <1>1, <1>2, <2>1, <2>2, Timings DEF Bounded
  <2>4. PICK k \in Nat : Taken(elapsed, k) /\ (Ticks(k, 0) \/ Ticks(k, 1))
    BY <1>1, <2>1 DEF CompInv
  <2>5. Taken(time, k)' /\ (Ticks(k, 0)' \/ Ticks(k, 1)')
    BY <1>2, <2>1, <2>2, <2>4 DEF Taken, Ticks
  <2> QED BY <2>1, <2>3, <2>5 DEF CompInv, CalInv
<1>6. CASE GetComp
  <2>1. /\ pc' = "timed"
        /\ UNCHANGED <<elapsed, own, uncounted, cyc_per_tick, oldt, newt, oldc, start_tick, time>>
    BY <1>6 DEF GetComp, Leave, calibration, history
  <2>2. /\ ctime' \in Int /\ ticks' \in Int /\ Fair' = Fair
        /\ cyc_per_tick # 0 =>
              /\ ctime' <= Fair
              /\ ctime' >= Fair - ticks' * (THRESHOLD + STEP) - 2 * COST
    BY <1>1, <1>6, <2>1, GetCompKeeps DEF Fair
  <2>3. Bounded'
    BY <1>1, <1>2, <2>1, <2>2, Timings DEF Bounded
  <2> QED BY <2>1, <2>2, <2>3 DEF CompInv, CalInv
<1> QED BY <1>3, <1>4, <1>5, <1>6 DEF Timing

(* What is recorded is a gap with an interrupt and a tick: without an      *)
(* interrupt in it, it is no longer than RECORDTHRESH.                     *)
LEMMA CalTimesKeeps ==
    ASSUME Bounded, CalInv, CalTimes PROVE Bounded' /\ \E p, c, t \in Int : Gap(p, c, t)'
<1>0. pc = "cal_times"
  BY DEF CalTimes, Leave
<1>1. PICK p, c, t, u \in Int : GapRead(p, c, t, u)
  BY <1>0 DEF CalInv
<1>2. /\ slack' = 0 /\ oldt' = newt /\ newt' = 0
      /\ UNCHANGED <<utime, quiet, elapsed, own, uncounted, start_tick, time, ticks, ctime>>
  BY DEF CalTimes, OldT, Leave, machine, history, corrected
<1>3. IF c = 1
      THEN /\ oldc' = utime
           /\ cyc_per_tick' \in {cyc_per_tick}
                \union (IF newt - oldt > RECORDTHRESH THEN {newt - oldt} ELSE {})
      ELSE UNCHANGED <<oldc, cyc_per_tick>>
  <2>1. CASE c = 1
    <3>1. utime > oldc /\ utime - oldc = 1 /\ newt - oldt \in Int
      BY <1>1, <2>1 DEF GapRead, Bounded
    <3>2. (newt - oldt) \div (utime - oldc) = newt - oldt
      BY <3>1
    <3> QED BY <2>1, <3>1, <3>2 DEF CalTimes, Recorded
  <2>2. CASE c = 0
    <3>1. ~(utime > oldc)
      BY <1>1, <2>2 DEF GapRead, Bounded
    <3> QED BY <2>2, <3>1 DEF CalTimes
  <2> QED BY <1>1, <2>1, <2>2 DEF GapRead
<1>4. newt - oldt > RECORDTHRESH => newt - oldt \in COST..(COST + THRESHOLD + STEP)
  BY <1>1, Timings DEF GapRead, Bounded
<1>5. Bounded'
  BY <1>1, <1>2, <1>3, <1>4, Timings DEF Bounded, GapRead
<1>6. \E p1, c1, t1 \in Int : Gap(p1, c1, t1)'
  <2>0. PICK s \in Nat : s = slack
    BY DEF Bounded
  <2>1. utime' - oldc' = 0
    BY <1>1, <1>2, <1>3 DEF GapRead, Bounded
  <2>2. elapsed' - oldt' = s + u
    BY <1>1, <1>2, <2>0 DEF GapRead
  <2>3. s <= THRESHOLD + slack' /\ (u > 0 => quiet' <= 2 * STEP + s)
    BY <1>1, <1>2, <2>0, Timings DEF GapRead, Bounded
  <2>4. Gap(s, 0, u)'
    BY <1>1, <2>1, <2>2, <2>3 DEF Gap, GapRead
  <2> QED BY <2>4
<1> QED BY <1>5, <1>6

(* The steps of callibrate.                                                *)
LEMMA CalibratingKeeps ==
    ASSUME ClockInv, CounterInv, Calibrating, platform = "i386"
    PROVE  Bounded' /\ CompInv' /\ CalInv'
<1>1. Bounded /\ CompInv /\ CalInv
  BY DEF ClockInv
<1>2. slack' = 0 /\ UNCHANGED <<utime, quiet>>
  BY DEF Calibrating, Callibrate, CalStart, CalFirst, CalRead, CalTimes, CalEnd,
        Leave, machine
<1>3. CASE Callibrate \/ CalStart \/ CalEnd
  <2>1. Bounded'
    BY <1>1, <1>2, <1>3, Timings
       DEF Bounded, Callibrate, CalStart, CalEnd, Leave, StartCounter, calibration,
           history, corrected
  <2>2. CASE Callibrate
    BY <1>2, <2>1, <2>2 DEF Callibrate, Leave, CompInv, CalInv, Bounded
  <2>3. CASE CalStart
    <3>1. pc = "cal_start" /\ pc' = "cal_first" /\ UNCHANGED oldc
      BY <1>1, <2>3, platform = "i386" DEF CalStart, Leave, StartCounter, calibration
    <3> QED BY <1>1, <1>2, <2>1, <3>1, Timings DEF CompInv, CalInv, Bounded
  <2>4. CASE CalEnd
    BY <2>1, <2>4 DEF CalEnd, Leave, CompInv, CalInv
  <2> QED BY <1>3, <2>1, <2>2, <2>3, <2>4
<1>4. CASE CalFirst
  <2>1. /\ pc = "cal_first" /\ pc' = "cal_read" /\ oldt' = Counter
        /\ UNCHANGED <<elapsed, own, uncounted, cyc_per_tick, newt, oldc, start_tick, time, ticks,
                       ctime>>
    BY <1>4 DEF CalFirst, Leave, history, corrected
  <2>2. Counter = elapsed
    BY <1>1, <2>1, CounterIs DEF Counting
  <2>3. Bounded'
    BY <1>1, <1>2, <2>1, <2>2, Timings DEF Bounded
  <2>4. Gap(0, utime - oldc, 0)' /\ utime' - oldc' \in Int
    BY <1>1, <1>2, <2>1, <2>2, Timings DEF Bounded, CalInv, Gap
  <2>5. \E p, c, t \in Int : Gap(p, c, t)'
    BY <2>4
  <2> QED BY <2>1, <2>3, <2>5 DEF CompInv, CalInv
<1>5. CASE CalRead
  <2>1. /\ pc = "cal_read"
        /\ IF Counter - oldt >= THRESHOLD THEN newt' = Counter /\ pc' = "cal_times"
                                          ELSE UNCHANGED <<newt, pc>>
        /\ UNCHANGED <<elapsed, own, uncounted, cyc_per_tick, oldt, oldc, start_tick, time, ticks,
                       ctime>>
    BY <1>5 DEF CalRead, Leave, history, corrected
  <2>2. Counter = elapsed
    BY <1>1, <2>1, CounterIs DEF Counting
  <2>3. Bounded'
    BY <1>1, <1>2, <2>1, <2>2, Timings DEF Bounded
  <2>4. PICK p, c, t \in Int : Gap(p, c, t)
    BY <1>1, <2>1 DEF CalInv
  <2>5. CASE elapsed - oldt >= THRESHOLD
    <3>1. newt' = elapsed /\ pc' = "cal_times"
      BY <2>1, <2>2, <2>5
    <3>2. GapRead(p, c, t, 0)'
      BY <1>1, <1>2, <2>1, <2>4, <3>1, Timings DEF Gap, GapRead, Bounded
    <3>3. \E p1, c1, t1, u1 \in Int : GapRead(p1, c1, t1, u1)'
      BY <3>2
    <3> QED BY <2>3, <3>1, <3>3 DEF CompInv, CalInv
  <2>6. CASE ~(elapsed - oldt >= THRESHOLD)
    <3>1. UNCHANGED <<newt, pc>>
      BY <2>1, <2>2, <2>6
    <3>2. Gap(p, c, t)'
      BY <1>1, <1>2, <2>1, <2>4, <2>6, <3>1, Timings DEF Gap, Bounded
    <3>3. \E p1, c1, t1 \in Int : Gap(p1, c1, t1)'
      BY <3>2
    <3> QED BY <2>1, <2>3, <3>1, <3>3 DEF CompInv, CalInv
  <2> QED BY <2>5, <2>6
<1>6. CASE CalTimes
  <2>1. pc' = "cal_read"
    BY <1>6 DEF CalTimes
  <2>2. Bounded' /\ \E p, c, t \in Int : Gap(p, c, t)'
    BY <1>1, <1>6, CalTimesKeeps
  <2> QED BY <2>1, <2>2 DEF CompInv, CalInv
<1> QED BY <1>3, <1>4, <1>5, <1>6 DEF Calibrating

LEMMA ClockStep == CounterInv /\ ClockInv /\ [ClocksNext]_clocks => ClockInv'
<1> SUFFICES ASSUME CounterInv, ClockInv, [ClocksNext]_clocks, platform' = "i386"
             PROVE  Bounded' /\ CompInv' /\ CalInv'
  BY DEF ClockInv
<1>1. CASE Pass
  BY <1>1, PassKeeps DEF Pass
<1>2. CASE Tick
  BY <1>2, TickKeeps DEF Tick
<1>3. CASE Timing
  <2>1. platform = "i386"
    BY <1>3 DEF Timing, Plain, GetPlain, StartComp, StartTick, Start, GetTime,
          GetComp, Again,
                Leave, machine
  <2> QED BY <1>3, <2>1, TimingKeeps
<1>4. CASE Calibrating
  <2>1. platform = "i386"
    BY <1>4 DEF Calibrating, Callibrate, CalStart, CalFirst, CalRead, CalTimes,
          CalEnd, Leave,
                machine
  <2> QED BY <1>4, <2>1, CalibratingKeeps
<1>5. CASE UNCHANGED clocks
  BY <1>5 DEF clocks, counter, calibration, ClockInv, Bounded, CompInv, CalInv,
        Taken, Ticks, Fair, corrected, Gap,
              GapRead
<1> QED BY <1>1, <1>2, <1>3, <1>4, <1>5 DEF ClocksNext

(* Provided a step of the program is short and interrupts are far apart,   *)
(* callibrate finds an interrupt to cost at least what it does and at most *)
(* a gap between readings more (clock.c:213-248), and get_comp_counter     *)
(* (clock.c:263-278) never reports more than the cycles of the function and*)
(* of the interrupts that are no ticks, nor less than that by more than the*)
(* error of calibration for each tick and two interrupts.                  *)
THEOREM TimesAreSound == DriverSpec => []TimesSound
<1> DEFINE Inv == part = "clock" => CounterInv /\ ClockInv
<1>1. AnyInit => Inv
  BY CounterInit, ClockInit DEF AnyInit
<1>2. Inv /\ [DriverNext]_drivervars => Inv'
  <2> SUFFICES ASSUME Inv, [DriverNext]_drivervars, part' = "clock"
               PROVE  (CounterInv /\ ClockInv)'
    OBVIOUS
  <2>1. part = "clock" /\ [ClocksNext]_clocks
    <3>1. CASE MainNext
      BY <3>1 DEF MainNext
    <3>2. CASE FileNext
      BY <3>2 DEF FileNext
    <3>3. CASE ClockNext
      BY <3>3 DEF ClockNext
    <3>4. CASE UNCHANGED drivervars
      BY <3>4 DEF drivervars
    <3> QED BY <3>1, <3>2, <3>3, <3>4 DEF DriverNext
  <2> QED BY <2>1, CounterStep, ClockStep
<1>3. Inv => TimesSound
  BY Timings DEF TimesSound, ClockInv, Bounded, CompInv, Fair, CostSound, NeverTooMuch,
                 LittleTooLittle
<1> QED BY <1>1, <1>2, <1>3, PTL DEF DriverSpec
-----------------------------------------------------------------------------
LEMMA MaxOfTwo ==
    ASSUME NEW a \in Int, NEW b \in Int
    PROVE  F!Max({a, b}) \in {a, b} /\ F!Max({a, b}) >= a /\ F!Max({a, b}) >= b
<1>1. \E x \in {a, b} : \A y \in {a, b} : x >= y
  <2>1. CASE a >= b
    BY <2>1
  <2>2. CASE b >= a
    BY <2>2
  <2> QED BY <2>1, <2>2
<1> QED BY <1>1 DEF F!Max

-----------------------------------------------------------------------------
Req == [cmd : F!Commands, id : F!Written]

(* A request that both programs read the same, and what read_trace takes   *)
(* any request for.                                                        *)
PlainReq == {r \in Req : r.cmd \in {"a", "r", "f"} /\ r.id \in F!AllIds}

Type(r)  == Letter[r.cmd]
Index(r) == Number[r.id]

LegalTrace(t) == \A n \in DOMAIN t : (t[n].cmd = "a") # (t[n].id \in F!LiveAfter(t, n - 1))

(* A trace of proper commands is legal so far, and the entries of the table*)
(* are its live ids.                                                       *)
SoundTrace(t, h) ==
    F!Plain(t) => /\ LegalTrace(t)
              /\ DOMAIN h = F!LiveAfter(t, Len(t))
              /\ \A i \in DOMAIN h : h[i] = "a"

TraceTypes ==
    /\ lines \in Seq(Req) /\ out \in Seq(Req)
    /\ F!Keys \subseteq F!Written /\ \A i \in F!Keys : hash[i] \in F!Commands \ {"r", "f"}
    /\ op_index \in Nat /\ max_index \in Nat /\ num_ids \in Nat

TallyInv ==
    /\ file = "check" => SoundTrace(lines, hash)
    /\ file = "balance" => SoundTrace(out, hash)
    /\ file \in {"load", "loaded"} /\ F!Plain(out) =>
          LegalTrace(out) /\ F!LiveAfter(out, Len(out)) = {}

Largest == \A k \in 1..op_index : Type(out[k]) \in {"a", "r"} => Index(out[k]) <= max_index

ReadInv ==
    /\ file \in {"check", "balance"} => op_index = 0
    /\ file \in {"load", "loaded"} =>
          /\ op_index <= Len(out)
          /\ Largest
    /\ file = "loaded" => op_index = Len(out) /\ max_index = num_ids - 1

TraceInv == TraceTypes /\ TallyInv /\ ReadInv

-----------------------------------------------------------------------------
(* What one more request makes of the live ids.                            *)
LEMMA LiveOf ==
    ASSUME NEW t \in Seq(Req), NEW n \in 0..Len(t), NEW i \in F!AllIds
    PROVE  i \in F!LiveAfter(t, n) <=>
              \E k \in 1..n : /\ t[k].cmd = "a" /\ t[k].id = i
                              /\ \A j \in (k + 1)..n : ~(t[j].cmd = "f" /\ t[j].id = i)
<1>1. \A k \in 1..n : t[k] \in Req
  OBVIOUS
<1>2. \A k \in 1..n, c \in {"a", "f"} :
          t[k] = [cmd |-> c, id |-> i] <=> t[k].cmd = c /\ t[k].id = i
  BY <1>1 DEF Req
<1> QED BY <1>2, SMTT(30) DEF F!LiveAfter

LEMMA LivePrefix ==
    ASSUME NEW t \in Seq(Req), NEW q \in Req, NEW n \in 0..Len(t)
    PROVE  F!LiveAfter(Append(t, q), n) = F!LiveAfter(t, n)
<1>1. \A k \in 1..n : Append(t, q)[k] = t[k]
  OBVIOUS
<1> QED BY <1>1 DEF F!LiveAfter

LEMMA LiveNext ==
    ASSUME NEW t \in Seq(Req), NEW q \in PlainReq
    PROVE  F!LiveAfter(Append(t, q), Len(t) + 1) =
              CASE q.cmd = "a" -> F!LiveAfter(t, Len(t)) \union {q.id}
                [] q.cmd = "f" -> F!LiveAfter(t, Len(t)) \ {q.id}
                [] OTHER -> F!LiveAfter(t, Len(t))
<1> DEFINE u == Append(t, q)
           n == Len(t)
<1>1. /\ u \in Seq(Req) /\ Len(u) = n + 1 /\ u[n + 1] = q /\ n \in Nat /\ q.id \in F!AllIds
      /\ \A k \in 1..n : u[k] = t[k]
  BY DEF Req, PlainReq
<1> HIDE DEF u, n
<1>2. ASSUME NEW i \in F!AllIds
      PROVE  i \in F!LiveAfter(u, n + 1) <=>
               \/ q.cmd = "a" /\ q.id = i
               \/ i \in F!LiveAfter(t, n) /\ ~(q.cmd = "f" /\ q.id = i)
  <2>1. i \in F!LiveAfter(u, n + 1) <=>
           \E k \in 1..(n + 1) : /\ u[k].cmd = "a" /\ u[k].id = i
                                 /\ \A j \in (k + 1)..(n + 1) : ~(u[j].cmd = "f" /\ u[j].id = i)
    <3>1. n + 1 \in 0..Len(u) /\ u \in Seq(Req)
      BY <1>1
    <3> QED BY <3>1, LiveOf
  <2>2. i \in F!LiveAfter(t, n) <=>
           \E k \in 1..n : /\ t[k].cmd = "a" /\ t[k].id = i
                           /\ \A j \in (k + 1)..n : ~(t[j].cmd = "f" /\ t[j].id = i)
    BY <1>1, LiveOf DEF n
  <2>3. ASSUME i \in F!LiveAfter(u, n + 1)
        PROVE  (q.cmd = "a" /\ q.id = i) \/ (i \in F!LiveAfter(t, n) /\ ~(q.cmd = "f" /\ q.id = i))
    BY <1>1, <2>1, <2>2, <2>3
  <2>4. ASSUME q.cmd = "a" /\ q.id = i PROVE i \in F!LiveAfter(u, n + 1)
    BY <1>1, <2>1, <2>4
  <2>5. ASSUME i \in F!LiveAfter(t, n), ~(q.cmd = "f" /\ q.id = i) PROVE i \in F!LiveAfter(u, n + 1)
    BY <1>1, <2>1, <2>2, <2>5
  <2> QED BY <2>3, <2>4, <2>5
<1>3. F!LiveAfter(u, n + 1) \subseteq F!AllIds /\ F!LiveAfter(t, n) \subseteq F!AllIds
  BY DEF F!LiveAfter
<1>4. q.cmd \in {"a", "r", "f"}
  BY DEF PlainReq
<1> QED BY <1>1, <1>2, <1>3, <1>4 DEF u, n

(* A request that fits the live ids keeps a trace legal.                   *)
LEMMA LegalNext ==
    ASSUME NEW t \in Seq(Req), NEW q \in Req, LegalTrace(t),
           (q.cmd = "a") # (q.id \in F!LiveAfter(t, Len(t)))
    PROVE  LegalTrace(Append(t, q))
<1> DEFINE u == Append(t, q)
<1>1. ASSUME NEW n \in DOMAIN u
      PROVE  (u[n].cmd = "a") # (u[n].id \in F!LiveAfter(u, n - 1))
  <2>1. n \in 1..(Len(t) + 1) /\ Len(t) \in Nat
    OBVIOUS
  <2>2. F!LiveAfter(u, n - 1) = F!LiveAfter(t, n - 1)
    BY <2>1, LivePrefix
  <2>3. CASE n = Len(t) + 1
    BY <2>1, <2>2, <2>3
  <2>4. CASE n \in DOMAIN t
    <3>1. u[n] = t[n]
      BY <2>4
    <3> QED BY <2>2, <2>4, <3>1 DEF LegalTrace
  <2> QED BY <2>1, <2>3, <2>4
<1> QED BY <1>1 DEF LegalTrace

LEMMA PlainNext ==
    ASSUME NEW t \in Seq(Req), NEW q \in Req, F!Plain(Append(t, q))
    PROVE  F!Plain(t) /\ q.cmd \in {"a", "r", "f"} /\ q.id \in F!AllIds
<1>1. /\ \A k \in DOMAIN t : k \in DOMAIN Append(t, q) /\ Append(t, q)[k] = t[k]
      /\ Len(t) + 1 \in DOMAIN Append(t, q) /\ Append(t, q)[Len(t) + 1] = q
  OBVIOUS
<1> QED BY <1>1 DEF F!Plain

(* The checked trace and the table stay in step.                           *)
LEMMA SoundNext ==
    ASSUME NEW t \in Seq(Req), NEW cmd \in F!Commands, NEW id \in F!Written, SoundTrace(t, hash), ~F!Refused(cmd, id),
           hash' = F!Tally(cmd, id)
    PROVE  SoundTrace(Append(t, [cmd |-> cmd, id |-> id]), hash')
<1> DEFINE q == [cmd |-> cmd, id |-> id]
<1>0. q \in Req /\ q.cmd = cmd /\ q.id = id
  BY DEF Req
<1> HIDE DEF q
<1> SUFFICES ASSUME F!Plain(Append(t, q))
             PROVE  /\ LegalTrace(Append(t, q))
                    /\ DOMAIN hash' = F!LiveAfter(Append(t, q), Len(Append(t, q)))
                    /\ \A i \in DOMAIN hash' : hash'[i] = "a"
  BY DEF SoundTrace, q
<1>1. F!Plain(t) /\ cmd \in {"a", "r", "f"} /\ q \in PlainReq
  BY <1>0, PlainNext DEF PlainReq
<1>2. LegalTrace(t) /\ F!Keys = F!LiveAfter(t, Len(t)) /\ \A i \in F!Keys : hash[i] = "a"
  BY <1>1 DEF SoundTrace, F!Keys
<1>3. (cmd = "a") # (id \in F!Keys)
  BY <1>1, <1>2 DEF F!Refused
<1>4. LegalTrace(Append(t, q))
  BY <1>0, <1>2, <1>3, LegalNext
<1>5. Len(Append(t, q)) = Len(t) + 1
  OBVIOUS
<1>6. CASE cmd = "a"
  <2>1. hash' = F!Enter(id, "a")
    BY <1>6 DEF F!Tally
  <2>2. DOMAIN hash' = F!Keys \union {id} /\ \A i \in DOMAIN hash' : hash'[i] = "a"
    BY <1>2, <2>1 DEF F!Enter, F!Keys
  <2> QED BY <1>0, <1>1, <1>2, <1>4, <1>5, <1>6, <2>2, LiveNext
<1>7. CASE cmd = "f"
  <2>1. hash' = F!Delete(id)
    BY <1>7 DEF F!Tally
  <2>2. DOMAIN hash' = F!Keys \ {id} /\ \A i \in DOMAIN hash' : hash'[i] = "a"
    BY <1>2, <2>1 DEF F!Delete, F!Keys
  <2> QED BY <1>0, <1>1, <1>2, <1>4, <1>5, <1>7, <2>2, LiveNext
<1>8. CASE cmd = "r"
  <2>1. hash' = hash
    BY <1>8 DEF F!Tally
  <2> QED BY <1>0, <1>1, <1>2, <1>4, <1>5, <1>8, <2>1, LiveNext DEF F!Keys
<1> QED BY <1>1, <1>6, <1>7, <1>8

-----------------------------------------------------------------------------
LEMMA TraceInit == ASSUME F!TraceFileAssumption, F!Init PROVE TraceInv
<1>1. F!Keys = {} /\ lines = <<>> /\ out = <<>>
  BY DEF F!Init, F!Keys
<1>2. F!LiveAfter(<<>>, 0) = {} /\ LegalTrace(<<>>) /\ Len(<<>>) = 0
  BY DEF F!LiveAfter, LegalTrace
<1>3. TraceTypes
  BY <1>1, SMT DEF F!Init, TraceTypes, F!AllIds, F!TraceFileAssumption
<1>4. TallyInv
  BY <1>1, <1>2 DEF F!Init, TallyInv, SoundTrace, F!Keys
<1>5. ReadInv
  BY DEF F!Init, ReadInv
<1> QED BY <1>3, <1>4, <1>5 DEF TraceInv

(* %HASH stays a table of ids.                                             *)
LEMMA TallyType ==
    ASSUME NEW cmd \in F!Commands, NEW id \in F!Written,
           F!Keys \subseteq F!Written, \A i \in F!Keys : hash[i] \in F!Commands \ {"r", "f"}
    PROVE  LET h == F!Tally(cmd, id)
           IN  /\ DOMAIN h \subseteq F!Written
               /\ \A i \in DOMAIN h : h[i] \in F!Commands \ {"r", "f"}
<1>1. CASE cmd = "r"
  BY <1>1 DEF F!Tally, F!Keys
<1>2. CASE cmd = "f"
  BY <1>2 DEF F!Tally, F!Delete, F!Keys
<1>3. CASE cmd \notin {"r", "f"}
  <2>1. F!Tally(cmd, id) = F!Enter(id, cmd)
    BY <1>3 DEF F!Tally
  <2> QED BY <1>3, <2>1 DEF F!Enter, F!Keys
<1> QED BY <1>1, <1>2, <1>3

LEMMA CheckLineKeeps ==
    ASSUME TraceInv, NEW cmd \in F!Commands, NEW id \in F!Written, F!CheckLine(cmd, id)
    PROVE  TraceInv'
<1> DEFINE q == [cmd |-> cmd, id |-> id]
<1>1. /\ file = "check" /\ lines' = Append(lines, q) /\ q \in Req
      /\ UNCHANGED <<num_ids, out, op_index, max_index>>
  BY DEF F!CheckLine, Req
<1>2. \/ file' = "died" /\ hash' = hash
      \/ file' = "check" /\ hash' = F!Tally(cmd, id) /\ ~F!Refused(cmd, id)
  BY DEF F!CheckLine
<1>3. TraceTypes'
  BY <1>1, <1>2, TallyType DEF TraceInv, TraceTypes, F!Keys
<1>4. TallyInv'
  <2>1. CASE file' = "died"
    BY <2>1 DEF TallyInv
  <2>2. CASE file' = "check" /\ hash' = F!Tally(cmd, id) /\ ~F!Refused(cmd, id)
    <3>1. SoundTrace(lines', hash')
      BY <1>1, <2>2, SoundNext DEF TraceInv, TraceTypes, TallyInv
    <3> QED BY <2>2, <3>1 DEF TallyInv
  <2> QED BY <1>2, <2>1, <2>2
<1>5. ReadInv'
  BY <1>1, <1>2 DEF TraceInv, ReadInv
<1> QED BY <1>3, <1>4, <1>5 DEF TraceInv

LEMMA BalanceKeeps == ASSUME TraceInv, F!Balance PROVE TraceInv'
<1>1. TraceTypes'
  BY DEF F!Balance, TraceInv, TraceTypes, F!Keys
<1>2. TallyInv'
  BY DEF F!Balance, TraceInv, TallyInv, SoundTrace
<1>3. ReadInv'
  BY DEF F!Balance, TraceInv, ReadInv
<1> QED BY <1>1, <1>2, <1>3 DEF TraceInv

LEMMA PrintFreeKeeps == ASSUME F!TraceFileAssumption, TraceInv, F!PrintFree PROVE TraceInv'
<1>1. file = "balance" /\ UNCHANGED <<num_ids, lines, op_index, max_index>>
  BY DEF F!PrintFree
<1>2. /\ F!Keys \subseteq F!Written /\ SoundTrace(out, hash) /\ out \in Seq(Req)
      /\ op_index = 0 /\ "f" \in F!Commands
  BY <1>1 DEF TraceInv, TraceTypes, TallyInv, ReadInv, F!TraceFileAssumption
<1>3. PICK key \in F!Keys :
         \/ /\ out' = Append(out, [cmd |-> "f", id |-> key])
            /\ hash' = F!Delete(key) /\ file' = file
         \/ file' = "load" /\ out' = out /\ hash' = hash /\ hash[key] \notin {"a", "r"}
  BY DEF F!PrintFree
<1> DEFINE q == [cmd |-> "f", id |-> key]
<1>4. q \in Req /\ key \in F!Written
  BY <1>2 DEF Req
<1>5. CASE out' = Append(out, q) /\ hash' = F!Delete(key) /\ file' = file
  <2>1. TraceTypes'
    BY <1>1, <1>2, <1>4, <1>5 DEF TraceInv, TraceTypes, F!Delete, F!Keys
  <2>2. ~F!Refused("f", key) /\ hash' = F!Tally("f", key)
    BY <1>3, <1>5 DEF F!Refused, F!Tally
  <2>3. SoundTrace(out', hash')
    BY <1>2, <1>4, <1>5, <2>2, SoundNext
  <2>4. TallyInv'
    BY <1>1, <1>5, <2>3 DEF TallyInv
  <2>5. ReadInv'
    BY <1>1, <1>2, <1>5 DEF ReadInv
  <2> QED BY <2>1, <2>4, <2>5 DEF TraceInv
<1>6. CASE file' = "load" /\ out' = out /\ hash' = hash /\ hash[key] \notin {"a", "r"}
  <2>1. TraceTypes'
    BY <1>1, <1>6 DEF TraceInv, TraceTypes, F!Keys
  <2>2. ~F!Plain(out)
    BY <1>2, <1>3, <1>6 DEF SoundTrace, F!Keys
  <2>3. TallyInv'
    BY <1>6, <2>2 DEF TallyInv, F!Plain
  <2>4. ReadInv'
    <3>1. op_index' = 0 /\ Len(out') \in Nat /\ file' = "load"
      BY <1>1, <1>2, <1>6
    <3> QED BY <3>1 DEF ReadInv, Largest, Type, Index
  <2> QED BY <2>1, <2>3, <2>4 DEF TraceInv
<1> QED BY <1>3, <1>5, <1>6

LEMMA BalancedKeeps == ASSUME TraceInv, F!Balanced PROVE TraceInv'
<1>1. /\ file = "balance" /\ F!Keys = {} /\ file' = "load"
      /\ UNCHANGED <<num_ids, lines, hash, out, op_index, max_index>>
  BY DEF F!Balanced
<1>2. TraceTypes'
  BY <1>1 DEF TraceInv, TraceTypes, F!Keys
<1>3. SoundTrace(out, hash) /\ op_index = 0 /\ Len(out) \in Nat
  BY <1>1 DEF TraceInv, TraceTypes, TallyInv, ReadInv
<1>4. TallyInv'
  BY <1>1, <1>3, SMTT(40) DEF TallyInv, SoundTrace, F!Keys, F!Plain, LegalTrace, F!LiveAfter
<1>5. ReadInv'
  <2>1. op_index' = 0 /\ Len(out') \in Nat /\ file' = "load"
    BY <1>1, <1>3
  <2> QED BY <2>1 DEF ReadInv, Largest, Type, Index
<1> QED BY <1>2, <1>4, <1>5 DEF TraceInv

(* What a request makes of max_index.                                      *)
LEMMA IndexTaken ==
    ASSUME F!TraceFileAssumption, TraceInv, F!ReadRequest
    PROVE  /\ file = "load" /\ op_index + 1 \in 1..Len(out) /\ op_index' = op_index + 1
           /\ UNCHANGED <<num_ids, num_ops, lines, hash, out>>
           /\ file' \in {"bogus type", "overrun", "load"}
           /\ file' = "overrun" => op_index >= num_ops
           /\ \A k \in 1..Len(out) : Index(out[k]) \in Nat
           /\ max_index' \in Nat /\ max_index' >= max_index
           /\ LET req == out[op_index + 1]
              IN  IF Type(req) \in {"a", "r"}
                  THEN max_index' >= Index(req) /\ max_index' \in {max_index, Index(req)}
                  ELSE max_index' = max_index
<1> DEFINE req == out[op_index + 1]
<1>1. /\ file = "load" /\ op_index < Len(out) /\ op_index' = op_index + 1
      /\ UNCHANGED <<num_ids, num_ops, lines, hash, out>>
      /\ file' \in {"bogus type", "overrun", "load"}
      /\ file' = "overrun" => op_index >= num_ops
      /\ max_index' = IF Type(req) \in {"a", "r"} THEN F!Max({max_index, Index(req)})
                                                  ELSE max_index
  BY DEF F!ReadRequest, Type, Index
<1>2. out \in Seq(Req) /\ op_index \in Nat /\ max_index \in Nat
  BY DEF TraceInv, TraceTypes
<1>3. Len(out) \in Nat /\ op_index + 1 \in 1..Len(out)
  <2>1. Len(out) \in Nat /\ op_index \in Nat
    BY <1>2
  <2>2. op_index < Len(out)
    BY DEF F!ReadRequest
  <2> QED BY <2>1, <2>2
<1>4. \A k \in 1..Len(out) : Index(out[k]) \in Nat
  <2>1. \A k \in 1..Len(out) : out[k] \in Req
    BY <1>2
  <2>2. \A r \in Req : Number[r.id] \in F!AllIds
    BY DEF Req, F!TraceFileAssumption
  <2>3. F!AllIds \subseteq Nat
    BY DEF F!AllIds, F!TraceFileAssumption
  <2> QED BY <2>1, <2>2, <2>3 DEF Index
<1>5. Index(req) \in Nat
  BY <1>3, <1>4
<1> HIDE DEF req
<1>6. CASE Type(req) \in {"a", "r"}
  <2>1. max_index \in Int /\ Index(req) \in Int
    BY <1>2, <1>5
  <2>2. /\ F!Max({max_index, Index(req)}) \in {max_index, Index(req)}
        /\ F!Max({max_index, Index(req)}) >= max_index
        /\ F!Max({max_index, Index(req)}) >= Index(req)
    BY <2>1, MaxOfTwo
  <2>3. max_index' = F!Max({max_index, Index(req)})
    BY <1>1, <1>6
  <2>4. /\ max_index' \in {max_index, Index(req)} /\ max_index' >= Index(req)
        /\ max_index' >= max_index /\ max_index' \in Nat
    BY <1>2, <1>5, <2>2, <2>3
  <2> QED BY <1>1, <1>3, <1>4, <1>6, <2>4 DEF req
<1>7. CASE ~(Type(req) \in {"a", "r"})
  <2>1. max_index' = max_index
    BY <1>1, <1>7
  <2>2. max_index' \in Nat /\ max_index' >= max_index
    BY <1>2, <2>1
  <2> QED BY <1>1, <1>3, <1>4, <1>7, <2>1, <2>2, Zenon DEF req
<1> QED BY <1>6, <1>7

LEMMA LargestKept ==
    ASSUME F!TraceFileAssumption, TraceInv, F!ReadRequest, Largest PROVE Largest'
<1>1. /\ op_index' = op_index + 1 /\ out' = out /\ op_index + 1 \in 1..Len(out)
      /\ op_index \in Nat /\ max_index' \in Nat /\ max_index \in Nat /\ max_index' >= max_index
  BY IndexTaken DEF TraceInv, TraceTypes
<1>2. ASSUME NEW k \in 1..(op_index + 1), Type(out[k]) \in {"a", "r"}
      PROVE  Index(out[k]) <= max_index'
  <2>1. CASE k = op_index + 1
    <3>1. max_index' >= Index(out[k]) /\ Index(out[k]) \in Nat
      BY <1>1, <1>2, <2>1, IndexTaken
    <3> QED BY <1>1, <3>1
  <2>2. CASE k \in 1..op_index
    <3>1. Index(out[k]) <= max_index /\ k \in 1..Len(out)
      BY <1>1, <1>2, <2>2 DEF Largest
    <3>2. Index(out[k]) \in Nat
      BY <3>1, IndexTaken
    <3> QED BY <1>1, <3>1, <3>2
  <2> QED BY <1>1, <2>1, <2>2
<1> QED BY <1>1, <1>2 DEF Largest, Type, Index

LEMMA ReadRequestKeeps == ASSUME F!TraceFileAssumption, TraceInv, F!ReadRequest PROVE TraceInv'
<1>1. /\ file = "load" /\ op_index + 1 \in 1..Len(out) /\ op_index' = op_index + 1
      /\ UNCHANGED <<num_ids, lines, hash, out>>
      /\ file' \in {"bogus type", "overrun", "load"} /\ max_index' \in Nat
  BY IndexTaken
<1>2. Largest
  BY <1>1 DEF TraceInv, ReadInv
<1>3. TraceTypes'
  <2>1. op_index' \in Nat
    <3>1. op_index \in Nat
      BY DEF TraceInv, TraceTypes
    <3>2. op_index' = op_index + 1
      BY <1>1
    <3> QED BY <3>1, <3>2
  <2> QED BY <1>1, <2>1 DEF TraceInv, TraceTypes, F!Keys
<1>4. TallyInv'
  BY <1>1 DEF TraceInv, TallyInv
<1>5. ReadInv'
  <2>1. Largest'
    BY <1>2, LargestKept
  <2>2. op_index' <= Len(out') /\ file' \notin {"check", "balance", "loaded"}
    <3>1. out' = out /\ op_index' = op_index + 1 /\ op_index + 1 \in 1..Len(out)
      BY <1>1
    <3>2. op_index \in Nat /\ Len(out) \in Nat
      BY DEF TraceInv, TraceTypes
    <3>3. op_index' <= Len(out')
      BY <3>1, <3>2
    <3> QED BY <1>1, <3>3
  <2> QED BY <2>1, <2>2 DEF ReadInv
<1> QED BY <1>3, <1>4, <1>5 DEF TraceInv

LEMMA ReadEndsKeeps == ASSUME TraceInv, F!ReadEnds PROVE TraceInv'
<1>1. /\ file = "load" /\ op_index = Len(out)
      /\ file' \in {"loaded", "assertion"} /\ (file' = "loaded" => max_index = num_ids - 1)
      /\ UNCHANGED <<num_ids, lines, hash, out, op_index, max_index>>
  BY DEF F!ReadEnds
<1>2. TraceTypes'
  BY <1>1 DEF TraceInv, TraceTypes, F!Keys
<1>3. TallyInv'
  BY <1>1 DEF TraceInv, TallyInv
<1>4. ReadInv'
  BY <1>1 DEF TraceInv, ReadInv, Largest, Type, Index
<1> QED BY <1>2, <1>3, <1>4 DEF TraceInv

LEMMA TraceStep == ASSUME F!TraceFileAssumption, TraceInv, [F!Next]_(F!vars) PROVE TraceInv'
<1>1. CASE \E cmd \in F!Commands, id \in F!Written : F!CheckLine(cmd, id)
  BY <1>1, CheckLineKeeps
<1>2. CASE F!Balance
  BY <1>2, BalanceKeeps
<1>3. CASE F!PrintFree
  BY <1>3, PrintFreeKeeps
<1>4. CASE F!Balanced
  BY <1>4, BalancedKeeps
<1>5. CASE F!ReadRequest
  BY <1>5, ReadRequestKeeps
<1>6. CASE F!ReadEnds
  BY <1>6, ReadEndsKeeps
<1>7. CASE UNCHANGED F!vars
  <2>1. TraceTypes'
    BY <1>7 DEF TraceInv, TraceTypes, F!Keys, F!vars
  <2>2. TallyInv'
    BY <1>7 DEF TraceInv, TallyInv, SoundTrace, F!vars
  <2>3. ReadInv'
    BY <1>7 DEF TraceInv, ReadInv, Largest, Type, Index, F!vars
  <2> QED BY <2>1, <2>2, <2>3 DEF TraceInv
<1> QED BY <1>1, <1>2, <1>3, <1>4, <1>5, <1>6, <1>7 DEF F!Next

(* A plain trace that read_trace has loaded from a file checktrace.pl wrote*)
(* allocates ids that are not live, resizes and frees ids that are, and    *)
(* ends with none: what eval_mm_util and eval_mm_speed rely on.            *)
LEMMA LoadedLegal == TraceInv => F!LoadedIsLegal
  BY DEF TraceInv, TallyInv, LegalTrace, F!LoadedIsLegal

LEMMA PlainIs ==
    ASSUME F!TraceFileAssumption, NEW t, F!Plain(t), NEW n \in DOMAIN t
    PROVE  Type(t[n]) = t[n].cmd /\ Index(t[n]) = t[n].id /\ t[n].id \in Nat
  BY DEF F!Plain, Type, Index, F!TraceFileAssumption, F!AllIds

(* No request of such a trace, a free included, which read_trace does not  *)
(* look at, has an id outside the arrays of num_ids elements.              *)
LEMMA LoadedInArrays == ASSUME F!TraceFileAssumption PROVE TraceInv => F!IndexInArrays
<1> SUFFICES ASSUME TraceInv, file = "loaded", F!Plain(out), NEW n \in DOMAIN out
             PROVE  out[n].id < num_ids
  BY DEF F!IndexInArrays
<1>1. /\ out \in Seq(Req) /\ op_index = Len(out) /\ max_index = num_ids - 1
      /\ num_ids \in Nat /\ max_index \in Nat /\ n \in 1..Len(out) /\ Len(out) \in Nat
  BY DEF TraceInv, TraceTypes, ReadInv
<1>2. \A k \in 1..Len(out) : out[k].cmd \in {"a", "r"} => out[k].id <= max_index
  <2>1. Largest
    BY DEF TraceInv, ReadInv
  <2>2. \A k \in 1..Len(out) : Type(out[k]) = out[k].cmd /\ Index(out[k]) = out[k].id
    BY <1>1, PlainIs
  <2> QED BY <1>1, <2>1, <2>2 DEF Largest
<1>3. LegalTrace(out)
  BY DEF TraceInv, TallyInv
<1>4. out[n].id \in F!AllIds /\ out[n].id \in Nat /\ out[n].cmd \in {"a", "r", "f"}
  BY PlainIs DEF F!Plain
<1>5. CASE out[n].cmd \in {"a", "r"}
  BY <1>1, <1>2, <1>4, <1>5
<1>6. CASE out[n].cmd = "f"
  <2>1. out[n].id \in F!LiveAfter(out, n - 1)
    BY <1>3, <1>6 DEF LegalTrace
  <2>2. n - 1 \in 0..Len(out)
    BY <1>1
  <2>3. \E k \in 1..(n - 1) : out[k].cmd = "a" /\ out[k].id = out[n].id
    BY <1>1, <1>4, <2>1, <2>2, LiveOf
  <2>4. PICK k \in 1..(n - 1) : out[k].cmd = "a" /\ out[k].id = out[n].id
    BY <2>3
  <2>5. k \in 1..Len(out)
    BY <1>1
  <2> QED BY <1>1, <1>2, <1>4, <2>4, <2>5
<1> QED BY <1>4, <1>5, <1>6

-----------------------------------------------------------------------------
(* The counts: the file written begins with the requests checked, the rest *)
(* are the frees of the residue, and the header counts them all; max_index *)
(* is the largest id that a malloc or realloc read so far names.           *)
Begins(t, u) ==
    /\ Len(u) <= Len(t)
    /\ \A k \in 1..Len(t) : IF k <= Len(u) THEN t[k] = u[k] ELSE t[k].cmd = "f"

ReadIds(m) == {Index(out[k]) : k \in {l \in 1..m : Type(out[l]) \in {"a", "r"}}}

ReadSoFar == max_index \in {0} \union ReadIds(op_index) /\ Largest

CountInv ==
    /\ old_num_ops \in Nat /\ num_ops \in Nat
    /\ file \notin {"check", "died"} => Begins(out, lines) /\ (F!Plain(lines) => F!Plain(out))
    /\ file = "balance" => num_ops = old_num_ops + Len(out) - Len(lines) + Cardinality(F!Keys)
    /\ file \notin {"check", "died", "balance"} =>
          /\ num_ops >= old_num_ops
          /\ F!Plain(lines) => num_ops = old_num_ops + Len(out) - Len(lines)

LoadInv ==
    /\ file \in {"check", "balance"} => max_index = 0 /\ op_index = 0
    /\ file \in {"load", "assertion"} => ReadSoFar
    /\ file = "assertion" =>
          op_index = Len(out) /\ ~(max_index = num_ids - 1 /\ num_ops = op_index)
    /\ file = "overrun" => op_index \in 1..Len(out) /\ op_index - 1 >= num_ops

LEMMA KeysFinite == ASSUME TraceInv PROVE IsFiniteSet(F!Keys) /\ Cardinality(F!Keys) \in Nat
<1>1. F!Keys \subseteq F!Written /\ F!IsFiniteSet(F!Written)
  BY Assumptions DEF TraceInv, TraceTypes, F!TraceFileAssumption
<1>2. IsFiniteSet(F!Written)
  BY <1>1, Zenon DEF F!IsFiniteSet, IsFiniteSet
<1> QED BY <1>1, <1>2, FS_Subset, FS_CardinalityType

LEMMA CountsInitially == ASSUME F!Init PROVE CountInv /\ LoadInv
  BY Assumptions DEF F!Init, CountInv, LoadInv, F!TraceFileAssumption

(* A free of the residue is counted already.                               *)
LEMMA PrintFreeCounts == ASSUME TraceInv, CountInv, F!PrintFree PROVE CountInv'
<1>1. file = "balance" /\ UNCHANGED <<old_num_ops, num_ops, lines>>
  BY DEF F!PrintFree
<1>2. SoundTrace(out, hash) /\ out \in Seq(Req) /\ lines \in Seq(Req)
  BY <1>1 DEF TraceInv, TraceTypes, TallyInv
<1>3. PICK key \in F!Keys :
         \/ /\ out' = Append(out, [cmd |-> "f", id |-> key])
            /\ hash' = F!Delete(key) /\ file' = file
         \/ file' = "load" /\ out' = out /\ hash' = hash /\ hash[key] \notin {"a", "r"}
  BY DEF F!PrintFree
<1> DEFINE q == [cmd |-> "f", id |-> key]
<1>0. q \in Req /\ q.cmd = "f" /\ q.id = key
  BY Assumptions DEF Req, TraceInv, TraceTypes, F!TraceFileAssumption
<1> HIDE DEF q
<1>4. IsFiniteSet(F!Keys) /\ Cardinality(F!Keys) \in Nat
  BY KeysFinite
<1>5. /\ Begins(out, lines) /\ old_num_ops \in Nat /\ num_ops \in Nat
      /\ F!Plain(lines) => F!Plain(out)
      /\ num_ops = old_num_ops + Len(out) - Len(lines) + Cardinality(F!Keys)
  BY <1>1 DEF CountInv
<1>6. Len(out) \in Nat /\ Len(lines) \in Nat /\ Len(lines) <= Len(out)
  BY <1>2, <1>5 DEF Begins
<1>7. CASE out' = Append(out, q) /\ hash' = F!Delete(key) /\ file' = file
  <2>1. F!Keys' = F!Keys \ {key}
    BY <1>7 DEF F!Delete, F!Keys
  <2>2. Cardinality(F!Keys') = Cardinality(F!Keys) - 1
    BY <1>3, <1>4, <2>1, FS_RemoveElement
  <2>3. Len(out') = Len(out) + 1
    BY <1>2, <1>7
  <2>4. Begins(out, lines)'
    <3>1. /\ Len(lines') = Len(lines) /\ lines' = lines /\ out' = Append(out, q)
      BY <1>1, <1>7
    <3>2. \A k \in 1..Len(out) : out'[k] = out[k]
      BY <1>2, <3>1
    <3>3. out'[Len(out) + 1] = q
      BY <1>0, <1>2, <3>1
    <3>4. \A k \in 1..Len(out') :
              IF k <= Len(lines) THEN out'[k] = lines[k] ELSE out'[k].cmd = "f"
      <4> TAKE k \in 1..Len(out')
      <4>1. CASE k = Len(out) + 1
        BY <1>0, <1>6, <3>3, <4>1
      <4>2. CASE k \in 1..Len(out)
        BY <1>5, <3>2, <4>2 DEF Begins
      <4> QED BY <1>6, <2>3, <4>1, <4>2
    <3>5. Len(lines) <= Len(out')
      BY <1>6, <2>3
    <3> QED BY <3>1, <3>4, <3>5 DEF Begins
  <2>5. num_ops' = old_num_ops' + Len(out') - Len(lines') + Cardinality(F!Keys')
    <3>1. old_num_ops' = old_num_ops /\ num_ops' = num_ops /\ Len(lines') = Len(lines)
      BY <1>1
    <3> DEFINE m == Cardinality(F!Keys)
               r == Cardinality(F!Keys')
               a == Len(out)
               b == Len(out')
               c == Len(lines)
    <3>2. r = m - 1 /\ b = a + 1 /\ m \in Nat /\ a \in Nat /\ c \in Nat
      BY <1>4, <1>6, <2>2, <2>3
    <3>3. num_ops = old_num_ops + a - c + m
      BY <1>5
    <3> HIDE DEF m, r, a, b, c
    <3>4. num_ops = old_num_ops + b - c + r
      BY <1>5, <3>2, <3>3
    <3> QED BY <3>1, <3>4 DEF r, b, c
  <2>6. ASSUME F!Plain(lines) PROVE F!Plain(out')
    <3>1. F!Plain(out) /\ key \in F!LiveAfter(out, Len(out))
      BY <1>2, <1>5, <2>6 DEF SoundTrace, F!Keys
    <3>2. key \in F!AllIds
      BY <3>1 DEF F!LiveAfter
    <3>3. \A n \in DOMAIN out' : out'[n] = q \/ (n \in DOMAIN out /\ out'[n] = out[n])
      <4>1. out' = Append(out, q)
        BY <1>7
      <4> QED BY <1>0, <1>2, <4>1
    <3> QED BY <1>0, <3>1, <3>2, <3>3 DEF F!Plain
  <2>7. (F!Plain(lines) => F!Plain(out))'
    BY <1>1, <2>6 DEF F!Plain
  <2> QED BY <1>1, <1>5, <1>7, <2>4, <2>5, <2>7, Zenon DEF CountInv
<1>8. CASE file' = "load" /\ out' = out /\ hash' = hash /\ hash[key] \notin {"a", "r"}
  <2>1. ~F!Plain(out)
    BY <1>2, <1>8 DEF SoundTrace, F!Keys
  <2>2. ~F!Plain(lines)
    BY <1>5, <2>1
  <2>3. num_ops >= old_num_ops
    BY <1>4, <1>5, <1>6
  <2>4. ~F!Plain(lines)' /\ Begins(out, lines)'
    BY <1>1, <1>5, <1>8, <2>2 DEF F!Plain, Begins
  <2> QED BY <1>1, <1>5, <1>8, <2>3, <2>4 DEF CountInv
<1> QED BY <1>3, <1>7, <1>8 DEF q

LEMMA CountsKept == ASSUME TraceInv, CountInv, [F!Next]_(F!vars) PROVE CountInv'
<1>0. /\ lines \in Seq(Req) /\ out \in Seq(Req) /\ Len(lines) \in Nat /\ Len(out) \in Nat
      /\ Cardinality(F!Keys) \in Nat
  BY KeysFinite DEF TraceInv, TraceTypes
<1>1. CASE \E cmd \in F!Commands, id \in F!Written : F!CheckLine(cmd, id)
  BY <1>1 DEF F!CheckLine, CountInv
<1>2. CASE F!Balance
  <2>1. Begins(lines, lines)
    BY <1>0 DEF Begins
  <2>2. /\ out' = lines /\ lines' = lines /\ old_num_ops' = old_num_ops /\ file' = "balance"
        /\ hash' = hash /\ num_ops' = F!NewNumOps
    BY <1>2 DEF F!Balance
  <2>6. F!NewNumOps = old_num_ops + Cardinality(F!Keys)
    BY Zenon DEF F!NewNumOps, F!Cardinality, Cardinality
  <2>5. F!Keys' = F!Keys
    BY <2>2 DEF F!Keys
  <2>3. old_num_ops \in Nat
    BY DEF CountInv
  <2>4. num_ops' \in Nat /\ num_ops' = old_num_ops' + Len(out') - Len(lines') + Cardinality(F!Keys')
    BY <1>0, <2>2, <2>3, <2>5, <2>6
  <2> QED BY <2>1, <2>2, <2>3, <2>4 DEF CountInv
<1>3. CASE F!PrintFree
  BY <1>3, PrintFreeCounts
<1>4. CASE F!Balanced
  <2>1. Cardinality(F!Keys) = 0
    BY <1>4, FS_EmptySet DEF F!Balanced
  <2> QED BY <1>0, <1>4, <2>1 DEF F!Balanced, CountInv, Begins, F!Plain
<1>5. CASE F!ReadRequest
  BY <1>5 DEF F!ReadRequest, CountInv, Begins, F!Plain
<1>6. CASE F!ReadEnds
  BY <1>6 DEF F!ReadEnds, CountInv, Begins, F!Plain
<1>7. CASE UNCHANGED F!vars
  BY <1>7 DEF F!vars, F!Keys, CountInv, Begins, F!Plain
<1> QED BY <1>1, <1>2, <1>3, <1>4, <1>5, <1>6, <1>7 DEF F!Next

(* The greatest id read so far is one of them, or still 0.                 *)
LEMMA ReadRequestLoads == ASSUME TraceInv, LoadInv, F!ReadRequest PROVE LoadInv'
<1>0. F!TraceFileAssumption
  BY Assumptions
<1>1. /\ file = "load" /\ op_index + 1 \in 1..Len(out) /\ op_index' = op_index + 1
      /\ UNCHANGED <<num_ids, num_ops, lines, hash, out>> /\ op_index \in Nat
      /\ file' \in {"bogus type", "overrun", "load"} /\ (file' = "overrun" => op_index >= num_ops)
  BY <1>0, IndexTaken DEF TraceInv, TraceTypes
<1>2. ReadSoFar
  BY <1>1 DEF LoadInv
<1>7. op_index \in Nat
  BY DEF TraceInv, TraceTypes
<1>3. max_index' \in {0} \union ReadIds(op_index + 1)
  <2>1. ReadIds(op_index) \subseteq ReadIds(op_index + 1)
    <3>1. 1..op_index \subseteq 1..(op_index + 1)
      BY <1>7
    <3> QED BY <3>1, Zenon DEF ReadIds
  <2>2. Type(out[op_index + 1]) \in {"a", "r"} =>
           Index(out[op_index + 1]) \in ReadIds(op_index + 1)
    <3>1. op_index + 1 \in 1..(op_index + 1)
      BY <1>7
    <3> QED BY <3>1, Zenon DEF ReadIds
  <2>3. \/ max_index' = max_index
        \/ /\ Type(out[op_index + 1]) \in {"a", "r"}
           /\ max_index' = Index(out[op_index + 1])
    BY <1>0, IndexTaken
  <2> QED BY <1>2, <2>1, <2>2, <2>3 DEF ReadSoFar
<1>4. ReadIds(op_index + 1) = ReadIds(op_index)'
  BY <1>1 DEF ReadIds, Type, Index
<1>5. ReadSoFar'
  BY <1>0, <1>2, <1>3, <1>4, LargestKept DEF ReadSoFar
<1>6. file' = "overrun" => op_index' \in 1..Len(out') /\ op_index' - 1 >= num_ops'
  BY <1>1
<1> QED BY <1>1, <1>5, <1>6 DEF LoadInv

LEMMA LoadKept == ASSUME TraceInv, LoadInv, [F!Next]_(F!vars) PROVE LoadInv'
<1>1. CASE \E cmd \in F!Commands, id \in F!Written : F!CheckLine(cmd, id)
  BY <1>1 DEF F!CheckLine, LoadInv
<1>2. CASE F!Balance
  BY <1>2 DEF F!Balance, LoadInv
<1>3. CASE F!PrintFree \/ F!Balanced
  <2>1. /\ file = "balance" /\ file' \in {"balance", "load"}
        /\ UNCHANGED <<op_index, max_index>> /\ op_index = 0 /\ max_index = 0
    BY <1>3 DEF F!PrintFree, F!Balanced, LoadInv
  <2>2. ReadSoFar'
    BY <2>1 DEF ReadSoFar, Largest
  <2> QED BY <2>1, <2>2 DEF LoadInv
<1>4. CASE F!ReadRequest
  BY <1>4, ReadRequestLoads
<1>5. CASE F!ReadEnds
  BY <1>5 DEF F!ReadEnds, LoadInv, ReadSoFar, ReadIds, Largest, Type, Index
<1>6. CASE UNCHANGED F!vars
  BY <1>6 DEF F!vars, LoadInv, ReadSoFar, ReadIds, Largest, Type, Index
<1> QED BY <1>1, <1>2, <1>3, <1>4, <1>5, <1>6 DEF F!Next

-----------------------------------------------------------------------------
(* What checktrace.pl accepts is loaded.                                   *)
LEMMA MaxIs ==
    ASSUME NEW S \in SUBSET Nat, NEW m \in S, \A i \in S : i <= m PROVE F!Max(S) = m
<1>1. \E x \in S : \A y \in S : x >= y
  OBVIOUS
<1>2. F!Max(S) \in S /\ \A y \in S : F!Max(S) >= y
  BY <1>1 DEF F!Max
<1>3. F!Max(S) >= m /\ F!Max(S) <= m /\ F!Max(S) \in Nat /\ m \in Nat
  BY <1>2
<1> QED BY <1>3

(* All requests of the file written have been read: the last id is the     *)
(* largest that a malloc or realloc of the file checked names.             *)
LEMMA LargestIsRequested ==
    ASSUME TraceInv, ReadSoFar, Begins(out, lines), F!Plain(lines), F!Plain(out),
           op_index = Len(out)
    PROVE  max_index = F!Max({0} \union F!Requested)
<1> DEFINE S == {0} \union F!Requested
<1>0. F!TraceFileAssumption
  BY Assumptions
<1>1. /\ lines \in Seq(Req) /\ out \in Seq(Req) /\ Len(lines) \in Nat /\ Len(out) \in Nat
      /\ max_index \in Nat
  BY DEF TraceInv, TraceTypes
<1>2. \A k \in DOMAIN lines : lines[k].id \in Nat
  BY <1>0, PlainIs
<1>3. S \subseteq Nat
  BY <1>2 DEF F!Requested
<1>4. \A k \in 1..Len(out) : IF k <= Len(lines) THEN out[k] = lines[k] ELSE out[k].cmd = "f"
  BY DEF Begins
<1>5. Len(lines) <= Len(out)
  BY DEF Begins
<1>6. ReadIds(Len(out)) = F!Requested
  <2>0. \A k \in 1..Len(out) : Type(out[k]) = out[k].cmd /\ Index(out[k]) = out[k].id
    BY <1>0, <1>1, PlainIs
  <2>1. ASSUME NEW k \in 1..Len(out), out[k].cmd \in {"a", "r"} PROVE out[k].id \in F!Requested
    <3>1. k <= Len(lines) /\ out[k] = lines[k] /\ k \in DOMAIN lines
      BY <1>1, <1>4, <2>1
    <3> QED BY <2>1, <3>1 DEF F!Requested
  <2>2. ASSUME NEW k \in DOMAIN lines, lines[k].cmd \in {"a", "r"}
        PROVE  lines[k].id \in ReadIds(Len(out))
    <3>1. k \in 1..Len(out) /\ k <= Len(lines)
      BY <1>1, <1>5
    <3>2. out[k] = lines[k]
      BY <1>4, <3>1
    <3> QED BY <2>0, <2>2, <3>1, <3>2 DEF ReadIds
  <2> QED BY <2>0, <2>1, <2>2 DEF ReadIds, F!Requested
<1>7. max_index \in S
  BY <1>6 DEF ReadSoFar
<1>8. \A i \in F!Requested : i <= max_index
  BY <1>6 DEF ReadSoFar, Largest, ReadIds
<1>9. \A i \in S : i <= max_index
  BY <1>1, <1>8
<1> HIDE DEF S
<1>10. F!Max(S) = max_index
  BY <1>3, <1>7, <1>9, MaxIs
<1> QED BY <1>10 DEF S

(* If the header of the file checked was right, so is that of the file     *)
(* written, and nothing stops read_trace.                                  *)
LEMMA AcceptedAreLoaded == ASSUME TraceInv, CountInv, LoadInv PROVE F!AcceptedLoads
<1> SUFFICES ASSUME file \in {"assertion", "overrun"}, F!Plain(lines), old_num_ops = Len(lines)
             PROVE  num_ids # F!Max({0} \union F!Requested) + 1
  BY DEF F!AcceptedLoads
<1>1. /\ lines \in Seq(Req) /\ out \in Seq(Req) /\ Len(lines) \in Nat /\ Len(out) \in Nat
      /\ max_index \in Nat /\ num_ids \in Nat /\ op_index \in Nat
  BY DEF TraceInv, TraceTypes
<1>2. Begins(out, lines) /\ F!Plain(out) /\ num_ops = Len(out)
  BY <1>1 DEF CountInv
<1>3. CASE file = "overrun"
  BY <1>1, <1>2, <1>3 DEF LoadInv
<1>4. CASE file = "assertion"
  <2>1. ReadSoFar /\ op_index = Len(out) /\ ~(max_index = num_ids - 1 /\ num_ops = op_index)
    BY <1>4 DEF LoadInv
  <2>2. max_index = F!Max({0} \union F!Requested)
    BY <1>2, <2>1, LargestIsRequested
  <2> QED BY <1>1, <1>2, <2>1, <2>2
<1> QED BY <1>3, <1>4

-----------------------------------------------------------------------------
(* In a file of one-letter commands and ids in their usual form (Plain), a *)
(* trace that read_trace has loaded from what checktrace.pl wrote allocates*)
(* ids that are not live, resizes and frees ids that are, ends with none,  *)
(* and names no id outside the arrays of num_ids elements; and such a trace*)
(* whose header was right when checktrace.pl accepted it is never stopped  *)
(* by read_trace's assertions or by the end of its array of ops.  Of other *)
(* files, whose commands are words (mdriver.c:561, checktrace.pl:85), it   *)
(* says nothing.                                                           *)
THEOREM TracesAreSound == DriverSpec => []TracesSound
<1> DEFINE Inv == part = "file" => TraceInv /\ CountInv /\ LoadInv
<1>0. F!TraceFileAssumption
  BY Assumptions
<1>1. AnyInit => Inv
  <2>1. F!Init => TraceInv
    BY <1>0, TraceInit
  <2>2. F!Init => CountInv /\ LoadInv
    BY CountsInitially
  <2> QED BY <2>1, <2>2 DEF AnyInit
<1>2. Inv /\ [DriverNext]_drivervars => Inv'
  <2> SUFFICES ASSUME Inv, [DriverNext]_drivervars, part' = "file"
               PROVE  (TraceInv /\ CountInv /\ LoadInv)'
    OBVIOUS
  <2>1. part = "file" /\ [F!Next]_(F!vars)
    <3>1. CASE MainNext
      BY <3>1 DEF MainNext
    <3>2. CASE FileNext
      BY <3>2 DEF FileNext
    <3>3. CASE ClockNext
      BY <3>3 DEF ClockNext
    <3>4. CASE UNCHANGED drivervars
      BY <3>4 DEF drivervars, tracefile, F!vars
    <3> QED BY <3>1, <3>2, <3>3, <3>4 DEF DriverNext
  <2>2. TraceInv /\ CountInv /\ LoadInv
    BY <2>1
  <2>3. TraceInv'
    BY <1>0, <2>1, <2>2, TraceStep
  <2>4. CountInv'
    BY <2>1, <2>2, CountsKept
  <2>5. LoadInv'
    BY <2>1, <2>2, LoadKept
  <2> QED BY <2>3, <2>4, <2>5
<1>3. Inv => TracesSound
  BY <1>0, LoadedLegal, LoadedInArrays, AcceptedAreLoaded DEF TracesSound
<1> QED BY <1>1, <1>2, <1>3, PTL DEF DriverSpec

-----------------------------------------------------------------------------
(***************************************************************************)
(* Sums.  Induction over finite sets needs no operator: the sets that have *)
(* a property are a set Q, to which a set belongs if all smaller ones do.  *)
(***************************************************************************)
LEMMA FiniteSetsInduct ==
    ASSUME NEW S, IsFiniteSet(S), NEW Q,
           \A T \in SUBSET S : (\A U \in SUBSET T : U # T => U \in Q) => T \in Q
    PROVE  S \in Q
<1> DEFINE N == {n \in Nat : \E T \in SUBSET S : T \notin Q /\ Cardinality(T) = n}
<1> SUFFICES ASSUME S \notin Q PROVE FALSE
  OBVIOUS
<1>1. Cardinality(S) \in N
  BY FS_CardinalityType
<1>2. PICK n \in N : \A m \in N : n <= m
  <2> HIDE DEF N
  <2>1. N \in SUBSET Nat
    BY DEF N
  <2> QED BY <1>1, <2>1, LeastElement
<1>3. PICK T \in SUBSET S : T \notin Q /\ Cardinality(T) = n
  BY <1>2
<1>4. IsFiniteSet(T)
  BY FS_Subset
<1>5. ASSUME NEW U \in SUBSET T, U # T PROVE U \in Q
  <2>1. Cardinality(U) <= n /\ Cardinality(U) # n /\ IsFiniteSet(U)
    BY <1>3, <1>4, <1>5, FS_Subset
  <2>2. Cardinality(U) \in Nat /\ n \in Nat
    BY <2>1, <1>2, FS_CardinalityType
  <2>3. Cardinality(U) \notin N
    <3> HIDE DEF N
    <3> QED BY <1>2, <2>1, <2>2
  <2> QED BY <2>2, <2>3
<1> QED BY <1>3, <1>5

SomeOf(s) == CHOOSE x \in s : TRUE

Summed(f, S, g) ==
    g = [s \in SUBSET S |-> IF s = {} THEN 0 ELSE f[SomeOf(s)] + g[s \ {SomeOf(s)}]]

LEMMA SumIs ==
    ASSUME NEW f, NEW S
    PROVE  SumFunctionOnSet(f, S) = (CHOOSE g : Summed(f, S, g))[S]
BY Zenon DEF SumFunctionOnSet, FoldFunctionOnSet, MapThenFoldSet, Summed, SomeOf

LEMMA SummedExists ==
    ASSUME NEW f, NEW S, IsFiniteSet(S)
    PROVE  \E g : Summed(f, S, g)
<1> DEFINE D    == SUBSET S
           K    == Cardinality(S)
           val  == [s \in D |-> IF s = {} THEN 0 ELSE f[SomeOf(s)]]
           next == [s \in D |-> s \ {SomeOf(s)}]
           ord  == [s \in D |-> Cardinality(s)]
<1>1. K \in Nat
  BY FS_CardinalityType
<1>2. \A s \in D : Cardinality(s) \in 0..K /\ IsFiniteSet(s)
  <2> SUFFICES ASSUME NEW s \in SUBSET S PROVE Cardinality(s) \in 0..K /\ IsFiniteSet(s)
    OBVIOUS
  <2>1. IsFiniteSet(s) /\ Cardinality(s) <= K
    BY FS_Subset
  <2>2. Cardinality(s) \in Nat
    BY <2>1, FS_CardinalityType
  <2> QED BY <2>1, <2>2, <1>1
<1>3. ord \in [D -> 0..K]
  BY <1>2
<1>4. ASSUME NEW s \in D \ {{}} PROVE next[s] \in D /\ ord[next[s]] < ord[s]
  <2>1. SomeOf(s) \in s /\ next[s] = s \ {SomeOf(s)} /\ next[s] \in D
    BY DEF SomeOf
  <2>2. Cardinality(next[s]) = Cardinality(s) - 1
    BY <1>2, <2>1, FS_RemoveElement
  <2>3. ord[next[s]] = Cardinality(next[s]) /\ ord[s] = Cardinality(s)
    BY <2>1
  <2>4. Cardinality(s) \in Nat
    BY <1>2
  <2> QED BY <2>1, <2>2, <2>3, <2>4
<1>5. Descends(D, {{}}, next, ord, K)
  <2> HIDE DEF D, K, next, ord
  <2> QED BY <1>1, <1>3, <1>4 DEF Descends
<1>6. PICK g : Solves(g, D, {{}}, {}, D, val, next)
  <2> HIDE DEF D, K, val, next, ord
  <2> QED BY <1>5, RecursionExists
<1>7. ASSUME NEW s \in D
      PROVE  g[s] = IF s = {} THEN 0 ELSE f[SomeOf(s)] + g[s \ {SomeOf(s)}]
  <2>1. g[s] = IF s \in {{}} THEN val[s] ELSE val[s] + g[next[s]]
    <3> HIDE DEF D, val, next
    <3> QED BY <1>6 DEF Solves
  <2>2. val[s] = (IF s = {} THEN 0 ELSE f[SomeOf(s)]) /\ next[s] = s \ {SomeOf(s)}
    OBVIOUS
  <2> HIDE DEF val, next
  <2> QED BY <2>1, <2>2
<1>8. g = [s \in D |-> g[s]]
  BY <1>6 DEF Solves
<1>9. g = [s \in SUBSET S |-> IF s = {} THEN 0 ELSE f[SomeOf(s)] + g[s \ {SomeOf(s)}]]
  BY <1>7, <1>8
<1> QED BY <1>9 DEF Summed

LEMMA SumStep ==
    ASSUME NEW f, NEW S, IsFiniteSet(S)
    PROVE  /\ SumFunctionOnSet(f, {}) = 0
           /\ S # {} => /\ SomeOf(S) \in S
                        /\ SumFunctionOnSet(f, S)
                              = f[SomeOf(S)] + SumFunctionOnSet(f, S \ {SomeOf(S)})
<1> DEFINE G(T) == CHOOSE g : Summed(f, T, g)
           R == S \ {SomeOf(S)}
<1>1. \A T : IsFiniteSet(T) => Summed(f, T, G(T))
  BY SummedExists
<1>2. \A T : SumFunctionOnSet(f, T) = G(T)[T]
  BY SumIs
<1>3. IsFiniteSet({}) /\ IsFiniteSet(R)
  BY FS_EmptySet, FS_Subset
<1> HIDE DEF G
<1>4. SumFunctionOnSet(f, {}) = 0
  BY <1>1, <1>2, <1>3 DEF Summed
<1>5. ASSUME S # {} PROVE SomeOf(S) \in S /\ G(S)[S] = f[SomeOf(S)] + G(S)[R]
  BY <1>1, <1>5 DEF Summed, SomeOf
<1>6. G(S)[R] = G(R)[R]
  <2> DEFINE Q == {T \in SUBSET R : G(S)[T] = G(R)[T]}
  <2>1. ASSUME NEW T \in SUBSET R, \A U \in SUBSET T : U # T => U \in Q PROVE T \in Q
    <3>1. /\ G(S)[T] = IF T = {} THEN 0 ELSE f[SomeOf(T)] + G(S)[T \ {SomeOf(T)}]
          /\ G(R)[T] = IF T = {} THEN 0 ELSE f[SomeOf(T)] + G(R)[T \ {SomeOf(T)}]
      BY <1>1, <1>3 DEF Summed
    <3>2. T # {} => G(S)[T \ {SomeOf(T)}] = G(R)[T \ {SomeOf(T)}]
      <4> SUFFICES ASSUME T # {} PROVE T \ {SomeOf(T)} \in Q
        OBVIOUS
      <4>1. SomeOf(T) \in T
        BY DEF SomeOf
      <4> DEFINE U == T \ {SomeOf(T)}
      <4>2. U \in SUBSET T /\ U # T
        BY <4>1
      <4> HIDE DEF U, Q
      <4>3. U \in Q
        BY <4>2, <2>1
      <4> QED BY <4>3 DEF U
    <3> QED BY <3>1, <3>2
  <2>2. R \in Q
    <3> HIDE DEF Q
    <3> QED BY <1>3, <2>1, FiniteSetsInduct
  <2> QED BY <2>2
<1> QED BY <1>2, <1>4, <1>5, <1>6

LEMMA SumNone == \A f : SumFunctionOnSet(f, {}) = 0
BY SumStep, FS_EmptySet

Numbers(f, S) == IsFiniteSet(S) /\ \A x \in S : f[x] \in Int

LEMMA SumType ==
    ASSUME NEW f, NEW S, Numbers(f, S)
    PROVE  SumFunctionOnSet(f, S) \in Int
<1> DEFINE Q == {T \in SUBSET S : SumFunctionOnSet(f, T) \in Int}
<1>1. ASSUME NEW T \in SUBSET S, \A U \in SUBSET T : U # T => U \in Q PROVE T \in Q
  <2>1. IsFiniteSet(T)
    BY FS_Subset DEF Numbers
  <2>2. CASE T = {}
    BY <2>2, SumNone
  <2>3. CASE T # {}
    <3>1. /\ SomeOf(T) \in T
          /\ SumFunctionOnSet(f, T) = f[SomeOf(T)] + SumFunctionOnSet(f, T \ {SomeOf(T)})
      BY <2>1, <2>3, SumStep
    <3>2. T \ {SomeOf(T)} \in Q
      BY <1>1, <3>1
    <3>3. SumFunctionOnSet(f, T \ {SomeOf(T)}) \in Int /\ f[SomeOf(T)] \in Int
      BY <3>1, <3>2 DEF Numbers
    <3> QED BY <3>1, <3>3
  <2> QED BY <2>2, <2>3
<1>2. S \in Q
  <2> HIDE DEF Q
  <2> QED BY <1>1, FiniteSetsInduct DEF Numbers
<1> QED BY <1>2

(* Any element can be taken out.                                           *)
LEMMA SumRemove ==
    ASSUME NEW f, NEW S, Numbers(f, S), NEW y \in S
    PROVE  SumFunctionOnSet(f, S) = f[y] + SumFunctionOnSet(f, S \ {y})
<1> DEFINE Sum(T) == SumFunctionOnSet(f, T)
           Q == {T \in SUBSET S : \A x \in T : Sum(T) = f[x] + Sum(T \ {x})}
<1>1. \A T \in SUBSET S : IsFiniteSet(T) /\ Sum(T) \in Int /\ \A x \in T : f[x] \in Int
  <2> SUFFICES ASSUME NEW T \in SUBSET S
               PROVE  IsFiniteSet(T) /\ Sum(T) \in Int /\ \A x \in T : f[x] \in Int
    OBVIOUS
  <2>1. IsFiniteSet(T) /\ \A x \in T : f[x] \in Int
    BY FS_Subset DEF Numbers
  <2> QED BY <2>1, SumType DEF Numbers
<1>2. ASSUME NEW T \in SUBSET S, \A U \in SUBSET T : U # T => U \in Q PROVE T \in Q
  <2> SUFFICES ASSUME NEW x \in T PROVE Sum(T) = f[x] + Sum(T \ {x})
    OBVIOUS
  <2> DEFINE s == SomeOf(T)
  <2>1. s \in T /\ Sum(T) = f[s] + Sum(T \ {s})
    BY <1>1, SumStep
  <2> HIDE DEF s
  <2>2. CASE x = s
    BY <2>1, <2>2
  <2>3. CASE x # s
    <3>1. T \ {x} \in Q /\ T \ {s} \in Q
      BY <1>2, <2>1
    <3>2. s \in T \ {x} /\ x \in T \ {s} /\ (T \ {x}) \ {s} = (T \ {s}) \ {x}
      BY <2>1, <2>3
    <3>3. Sum(T \ {x}) = f[s] + Sum((T \ {x}) \ {s})
      <4> HIDE DEF Sum
      <4> QED BY <3>1, <3>2
    <3>4. Sum(T \ {s}) = f[x] + Sum((T \ {s}) \ {x})
      <4> HIDE DEF Sum
      <4> QED BY <3>1, <3>2
    <3>5. f[x] \in Int /\ f[s] \in Int /\ Sum((T \ {s}) \ {x}) \in Int
      <4> HIDE DEF Sum
      <4> QED BY <1>1, <2>1
    <3> DEFINE rest == Sum((T \ {x}) \ {s})
    <3>6. Sum(T) = f[s] + Sum(T \ {s})
      BY <2>1
    <3>7. Sum((T \ {s}) \ {x}) = rest
      BY <3>2
    <3> HIDE DEF Sum, rest
    <3>8. Sum(T) = f[s] + (f[x] + rest) /\ Sum(T \ {x}) = f[s] + rest /\ rest \in Int
      BY <3>3, <3>4, <3>5, <3>6, <3>7 DEF rest
    <3>9. Sum(T) = f[x] + Sum(T \ {x})
      BY <3>5, <3>8
    <3> QED BY <3>9 DEF Sum
  <2> QED BY <2>2, <2>3
<1>3. S \in Q
  <2> HIDE DEF Q
  <2> QED BY <1>2, FiniteSetsInduct DEF Numbers
<1> QED BY <1>3

LEMMA SumSame ==
    ASSUME NEW f, NEW g, NEW S, Numbers(f, S), \A x \in S : f[x] = g[x]
    PROVE  SumFunctionOnSet(f, S) = SumFunctionOnSet(g, S)
<1> DEFINE Q == {T \in SUBSET S : SumFunctionOnSet(f, T) = SumFunctionOnSet(g, T)}
<1>1. ASSUME NEW T \in SUBSET S, \A U \in SUBSET T : U # T => U \in Q PROVE T \in Q
  <2>1. IsFiniteSet(T)
    BY FS_Subset DEF Numbers
  <2>2. CASE T = {}
    BY <2>2, SumNone
  <2>3. CASE T # {}
    <3>1. /\ SomeOf(T) \in T
          /\ SumFunctionOnSet(f, T) = f[SomeOf(T)] + SumFunctionOnSet(f, T \ {SomeOf(T)})
          /\ SumFunctionOnSet(g, T) = g[SomeOf(T)] + SumFunctionOnSet(g, T \ {SomeOf(T)})
      BY <2>1, <2>3, SumStep
    <3>2. T \ {SomeOf(T)} \in Q
      BY <1>1, <3>1
    <3> QED BY <3>1, <3>2
  <2> QED BY <2>2, <2>3
<1>2. S \in Q
  <2> HIDE DEF Q
  <2> QED BY <1>1, FiniteSetsInduct DEF Numbers
<1> QED BY <1>2

(* Numbers that are each at most k.                                        *)
LEMMA SumBetween ==
    ASSUME NEW f, NEW S, IsFiniteSet(S), NEW k \in Nat, \A x \in S : f[x] \in 0..k
    PROVE  SumFunctionOnSet(f, S) \in 0..(k * Cardinality(S))
<1> DEFINE Q == {T \in SUBSET S : SumFunctionOnSet(f, T) \in 0..(k * Cardinality(T))}
<1>1. ASSUME NEW T \in SUBSET S, \A U \in SUBSET T : U # T => U \in Q PROVE T \in Q
  <2>1. IsFiniteSet(T)
    BY FS_Subset
  <2>2. CASE T = {}
    BY <2>2, SumNone, FS_EmptySet
  <2>3. CASE T # {}
    <3> DEFINE s == SomeOf(T)
               R == T \ {s}
               n == Cardinality(T)
    <3>1. s \in T /\ SumFunctionOnSet(f, T) = f[s] + SumFunctionOnSet(f, R)
      BY <2>1, <2>3, SumStep
    <3> HIDE DEF s
    <3>2. R \in Q
      BY <1>1, <3>1
    <3>3. Cardinality(R) = n - 1 /\ n \in Nat /\ IsFiniteSet(R)
      BY <2>1, <3>1, FS_RemoveElement, FS_CardinalityType
    <3>4. SumFunctionOnSet(f, R) \in 0..(k * (n - 1)) /\ f[s] \in 0..k
      BY <3>1, <3>2, <3>3
    <3> HIDE DEF R, n
    <3>5. k * (n - 1) + k = k * n /\ k * (n - 1) \in Int
      BY <3>3
    <3>6. SumFunctionOnSet(f, T) \in 0..(k * n)
      BY <3>1, <3>4, <3>5
    <3> QED BY <3>6 DEF n
  <2> QED BY <2>2, <2>3
<1>2. S \in Q
  <2> HIDE DEF Q
  <2> QED BY <1>1, FiniteSetsInduct
<1> QED BY <1>2

(* Naturals one of which is not 0.                                         *)
LEMMA SumPositive ==
    ASSUME NEW f, NEW S, IsFiniteSet(S), \A x \in S : f[x] \in Nat
    PROVE  /\ SumFunctionOnSet(f, S) \in Nat
           /\ \A x \in S : SumFunctionOnSet(f, S) >= f[x]
<1> DEFINE Q == {T \in SUBSET S : SumFunctionOnSet(f, T) \in Nat}
<1>1. ASSUME NEW T \in SUBSET S, \A U \in SUBSET T : U # T => U \in Q PROVE T \in Q
  <2>1. IsFiniteSet(T)
    BY FS_Subset
  <2>2. CASE T = {}
    BY <2>2, SumNone
  <2>3. CASE T # {}
    <3>1. /\ SomeOf(T) \in T
          /\ SumFunctionOnSet(f, T) = f[SomeOf(T)] + SumFunctionOnSet(f, T \ {SomeOf(T)})
      BY <2>1, <2>3, SumStep
    <3>2. T \ {SomeOf(T)} \in Q
      BY <1>1, <3>1
    <3> QED BY <3>1, <3>2
  <2> QED BY <2>2, <2>3
<1>2. \A T \in SUBSET S : T \in Q
  <2> SUFFICES ASSUME NEW R \in SUBSET S PROVE R \in Q
    OBVIOUS
  <2>1. IsFiniteSet(R)
    BY FS_Subset
  <2>2. \A T \in SUBSET R : (\A U \in SUBSET T : U # T => U \in Q) => T \in Q
    <3> HIDE DEF Q
    <3> QED BY <1>1
  <2> HIDE DEF Q
  <2> QED BY <2>1, <2>2, FiniteSetsInduct
<1>3. ASSUME NEW x \in S PROVE SumFunctionOnSet(f, S) >= f[x]
  <2>1. SumFunctionOnSet(f, S) = f[x] + SumFunctionOnSet(f, S \ {x})
    BY SumRemove DEF Numbers
  <2>2. S \ {x} \in Q
    BY <1>2
  <2>3. SumFunctionOnSet(f, S \ {x}) \in Nat /\ f[x] \in Nat
    BY <2>2
  <2> QED BY <2>1, <2>3
<1> QED BY <1>2, <1>3

-----------------------------------------------------------------------------
(***************************************************************************)
(* The driver's table of live ids, and the total of their payloads.        *)
(***************************************************************************)
Noted(tbl, i, p, n) ==
    [j \in DOMAIN tbl \union {i} |-> IF j = i THEN [ptr |-> p, size |-> n] ELSE tbl[j]]

Erased(tbl, i) == [j \in DOMAIN tbl \ {i} |-> tbl[j]]

LEMMA TableSteps ==
    \A i, p, n : Record(i, p, n) = Noted(blocks, i, p, n) /\ Forget(i) = Erased(blocks, i)
BY DEF Record, Forget, Noted, Erased, Live

Ledger(tbl) == IsFiniteSet(DOMAIN tbl) /\ \A i \in DOMAIN tbl : tbl[i].size \in Nat

SizesIn(tbl) == [i \in DOMAIN tbl |-> tbl[i].size]
SizeSum(tbl) == SumFunction(SizesIn(tbl))

LEMMA SizesAreNumbers ==
    ASSUME NEW tbl, Ledger(tbl)
    PROVE  /\ DOMAIN SizesIn(tbl) = DOMAIN tbl
           /\ \A i \in DOMAIN tbl : SizesIn(tbl)[i] = tbl[i].size
           /\ \A T \in SUBSET DOMAIN tbl : Numbers(SizesIn(tbl), T)
           /\ SizeSum(tbl) = SumFunctionOnSet(SizesIn(tbl), DOMAIN tbl)
<1>1. DOMAIN SizesIn(tbl) = DOMAIN tbl /\ \A i \in DOMAIN tbl : SizesIn(tbl)[i] = tbl[i].size
  BY DEF SizesIn
<1>2. ASSUME NEW T \in SUBSET DOMAIN tbl PROVE Numbers(SizesIn(tbl), T)
  BY <1>1, FS_Subset DEF Ledger, Numbers
<1> QED BY <1>1, <1>2 DEF SizeSum, SumFunction

LEMMA SizeSumType ==
    ASSUME NEW tbl, Ledger(tbl)
    PROVE  SizeSum(tbl) \in Nat
<1>1. SizeSum(tbl) = SumFunctionOnSet(SizesIn(tbl), DOMAIN tbl)
  BY SizesAreNumbers
<1>2. IsFiniteSet(DOMAIN tbl) /\ \A i \in DOMAIN tbl : SizesIn(tbl)[i] \in Nat
  BY SizesAreNumbers DEF Ledger
<1> QED BY <1>1, <1>2, SumPositive

SizeOf(tbl, i) == IF i \in DOMAIN tbl THEN tbl[i].size ELSE 0

(* The total without one entry.                                            *)
LEMMA SizeSumErased ==
    ASSUME NEW tbl, Ledger(tbl), NEW i
    PROVE  /\ Ledger(Erased(tbl, i))
           /\ SizeSum(Erased(tbl, i)) = SizeSum(tbl) - SizeOf(tbl, i)
<1> DEFINE new == Erased(tbl, i)
           D == DOMAIN tbl
<1>1. DOMAIN new = D \ {i} /\ \A j \in D \ {i} : new[j] = tbl[j]
  <2> HIDE DEF new
  <2>1. new = Erased(tbl, i)
    BY DEF new
  <2> QED BY <2>1 DEF Erased
<1> HIDE DEF new
<1>2. Ledger(new)
  BY <1>1, FS_Subset DEF Ledger
<1>3. /\ SizeSum(new) = SumFunctionOnSet(SizesIn(new), D \ {i})
      /\ SizeSum(tbl) = SumFunctionOnSet(SizesIn(tbl), D)
      /\ Numbers(SizesIn(tbl), D) /\ Numbers(SizesIn(tbl), D \ {i})
      /\ \A j \in D \ {i} : SizesIn(tbl)[j] = SizesIn(new)[j]
  BY <1>1, <1>2, SizesAreNumbers
<1>4. SizeSum(new) = SumFunctionOnSet(SizesIn(tbl), D \ {i})
  BY <1>3, SumSame
<1>5. CASE i \in D
  <2>1. SizeSum(tbl) = SizesIn(tbl)[i] + SumFunctionOnSet(SizesIn(tbl), D \ {i})
    BY <1>3, <1>5, SumRemove
  <2>2. SizesIn(tbl)[i] = SizeOf(tbl, i) /\ SizeOf(tbl, i) \in Nat
    BY <1>5, SizesAreNumbers DEF SizeOf, Ledger
  <2>3. SizeSum(new) \in Nat
    BY <1>2, SizeSumType
  <2> QED BY <1>2, <1>4, <2>1, <2>2, <2>3 DEF new
<1>6. CASE i \notin D
  <2>1. D \ {i} = D /\ SizeOf(tbl, i) = 0
    BY <1>6 DEF SizeOf
  <2>2. SizeSum(tbl) \in Nat
    BY SizeSumType
  <2> QED BY <1>2, <1>3, <1>4, <2>1, <2>2 DEF new
<1> QED BY <1>5, <1>6

(* The total with a new entry, in place of an old one or not.              *)
LEMMA SizeSumNoted ==
    ASSUME NEW tbl, Ledger(tbl), NEW i, NEW p, NEW n \in Nat
    PROVE  /\ Ledger(Noted(tbl, i, p, n))
           /\ SizeSum(Noted(tbl, i, p, n)) = SizeSum(tbl) + (n - SizeOf(tbl, i))
<1> DEFINE new == Noted(tbl, i, p, n)
           D == DOMAIN tbl
<1>1. /\ DOMAIN new = D \union {i} /\ new[i].size = n
      /\ \A j \in D : j # i => new[j] = tbl[j]
  <2> HIDE DEF new
  <2>1. new = Noted(tbl, i, p, n)
    BY DEF new
  <2> QED BY <2>1 DEF Noted
<1> HIDE DEF new
<1>2. Ledger(new)
  BY <1>1, FS_AddElement DEF Ledger
<1>3. Ledger(Erased(tbl, i)) /\ SizeSum(Erased(tbl, i)) = SizeSum(tbl) - SizeOf(tbl, i)
  BY SizeSumErased
<1>4. SizeSum(new) = n + SizeSum(Erased(tbl, i))
  <2> DEFINE old == Erased(tbl, i)
             R == D \ {i}
             f == SizesIn(new)
             g == SizesIn(old)
  <2>1. DOMAIN old = R /\ \A j \in R : old[j] = tbl[j]
    <3> HIDE DEF old
    <3>1. old = Erased(tbl, i)
      BY DEF old
    <3> QED BY <3>1 DEF Erased
  <2> HIDE DEF old
  <2>2. /\ SizeSum(new) = SumFunctionOnSet(f, D \union {i})
        /\ \A j \in D \union {i} : f[j] = new[j].size
        /\ Numbers(f, D \union {i})
    BY <1>1, <1>2, SizesAreNumbers
  <2>3. /\ SizeSum(old) = SumFunctionOnSet(g, R)
        /\ \A j \in R : g[j] = old[j].size
        /\ Numbers(g, R)
    BY <1>3, <2>1, SizesAreNumbers DEF old
  <2>4. SumFunctionOnSet(f, D \union {i}) = f[i] + SumFunctionOnSet(f, (D \union {i}) \ {i})
    BY <2>2, SumRemove
  <2>5. (D \union {i}) \ {i} = R
    OBVIOUS
  <2>6. f[i] = n /\ \A j \in R : g[j] = f[j]
    BY <1>1, <2>1, <2>2, <2>3
  <2> HIDE DEF f, g, R
  <2>7. SumFunctionOnSet(g, R) = SumFunctionOnSet(f, R)
    BY <2>3, <2>6, SumSame
  <2> QED BY <2>2, <2>3, <2>4, <2>5, <2>6, <2>7 DEF old
<1>5. SizeSum(tbl) \in Nat /\ SizeOf(tbl, i) \in Nat
  BY SizeSumType DEF SizeOf, Ledger
<1>6. SizeSum(new) = SizeSum(tbl) + (n - SizeOf(tbl, i))
  <2> DEFINE a == SizeSum(tbl)
             b == SizeOf(tbl, i)
             c == SizeSum(Erased(tbl, i))
             d == SizeSum(new)
  <2>1. a \in Nat /\ b \in Nat /\ c = a - b /\ d = n + c
    BY <1>3, <1>4, <1>5
  <2> HIDE DEF a, b, c, d
  <2>2. d = a + (n - b)
    BY <2>1
  <2> QED BY <2>2 DEF a, b, d
<1> QED BY <1>2, <1>6 DEF new

-----------------------------------------------------------------------------
(* Blocks of a heap that hold payloads with their tags leave room for no   *)
(* more than the heap has: all payloads together are below its end.        *)
Holders(tbl, z) ==
    /\ Ledger(tbl)
    /\ \A i \in DOMAIN tbl : tbl[i].ptr \in Blk(z) /\ tbl[i].size + 8 <= z[tbl[i].ptr]
    /\ \A i, j \in DOMAIN tbl : tbl[i].ptr = tbl[j].ptr => i = j

LEMMA PayloadRoom ==
    ASSUME NEW z, NEW end, Chain(z, end), NEW tbl, Holders(tbl, z)
    PROVE  SizeSum(tbl) + 24 <= end
<1> DEFINE D == DOMAIN tbl
           Below(T, x) == \A i \in T : tbl[i].ptr + z[tbl[i].ptr] <= x
           Sum(T) == SumFunctionOnSet(SizesIn(tbl), T)
           Roomy == {T \in SUBSET D : \A x \in Nat : x >= 24 /\ Below(T, x) => Sum(T) + 24 <= x}
<1>1. \A i \in D : /\ tbl[i].ptr \in Nat /\ tbl[i].ptr >= 24 /\ tbl[i].ptr <= MAX_HEAP
                   /\ z[tbl[i].ptr] \in Nat /\ tbl[i].size \in Nat
                   /\ tbl[i].size + 8 <= z[tbl[i].ptr]
                   /\ tbl[i].ptr + z[tbl[i].ptr] <= end
  BY ChainType DEF Holders, Ledger
<1>2. \A i, j \in D : tbl[i].ptr < tbl[j].ptr => tbl[i].ptr + z[tbl[i].ptr] <= tbl[j].ptr
  BY DEF Holders, Chain
<1>3. ASSUME NEW T \in SUBSET D, \A U \in SUBSET T : U # T => U \in Roomy PROVE T \in Roomy
  <2> SUFFICES ASSUME NEW x \in Nat, x >= 24, Below(T, x) PROVE Sum(T) + 24 <= x
    BY Zenon
  <2>1. CASE T = {}
    <3>1. Sum(T) = 0
      BY <2>1, SumNone
    <3> QED BY <3>1
  <2>2. CASE T # {}
    <3> DEFINE P == {tbl[i].ptr : i \in T}
    <3>1. P \in SUBSET (0..MAX_HEAP) /\ P # {} /\ MAX_HEAP \in Nat
      BY <1>1, <2>2, WordsType
    <3>2. PICK m \in P : \A n \in P : n <= m
      <4> HIDE DEF P
      <4> QED BY <3>1, GreatestElement
    <3>3. PICK i \in T : tbl[i].ptr = m
      BY <3>2
    <3> DEFINE U == T \ {i}
               y == tbl[i].ptr
    <3>4. U \in Roomy
      <4>1. U \in SUBSET T /\ U # T
        BY <3>3
      <4> HIDE DEF Roomy, U
      <4> QED BY <4>1, <1>3
    <3>5. Below(U, y)
      <4> SUFFICES ASSUME NEW j \in U PROVE tbl[j].ptr + z[tbl[j].ptr] <= y
        OBVIOUS
      <4>1. j \in D /\ i \in D /\ j # i
        BY <3>3
      <4>2. tbl[j].ptr # y
        BY <4>1 DEF Holders
      <4>3. tbl[j].ptr <= y
        BY <3>2, <3>3
      <4> QED BY <1>1, <1>2, <4>1, <4>2, <4>3
    <3>6. y \in Nat /\ y >= 24 /\ y + z[y] <= x /\ tbl[i].size + 8 <= z[y] /\ tbl[i].size \in Nat
          /\ z[y] \in Nat
      BY <1>1, <3>3
    <3>7. Sum(U) + 24 <= y
      <4> HIDE DEF y, U, Sum, Below
      <4> QED BY <3>4, <3>5, <3>6
    <3>8. Sum(T) = tbl[i].size + Sum(U) /\ Sum(U) \in Int
      <4>1. /\ Numbers(SizesIn(tbl), T) /\ Numbers(SizesIn(tbl), U)
            /\ SizesIn(tbl)[i] = tbl[i].size
        BY <3>3, SizesAreNumbers DEF Holders
      <4>2. Sum(T) = SizesIn(tbl)[i] + Sum(U)
        BY <4>1, SumRemove
      <4>3. Sum(U) \in Int
        BY <4>1, SumType
      <4> QED BY <4>1, <4>2, <4>3
    <3> HIDE DEF Sum, U, y
    <3> QED BY <3>6, <3>7, <3>8
  <2> QED BY <2>1, <2>2
<1>4. D \in Roomy
  <2>1. IsFiniteSet(D)
    BY DEF Holders, Ledger
  <2> HIDE DEF Roomy, D
  <2> QED BY <1>3, <2>1, FiniteSetsInduct
<1>5. end \in Nat /\ end >= 24 /\ Below(D, end)
  BY <1>1, ChainType
<1>6. Sum(D) + 24 <= end
  <2> HIDE DEF Below, Sum, D
  <2> QED BY <1>4, <1>5
<1>7. SizeSum(tbl) = Sum(D)
  BY SizesAreNumbers DEF Holders
<1> QED BY <1>6, <1>7

-----------------------------------------------------------------------------
(***************************************************************************)
(* The story of a trace: what its requests do to the blocks of a heap that *)
(* loses no memory.  A chapter is the blocks, those in use, the end of the *)
(* list and the table of the driver.                                       *)
(***************************************************************************)
Begin == [z |-> OneBlock(CHUNKSIZE), used |-> {}, end |-> CHUNKSIZE + 24, tbl |-> <<>>]

MoveA(s, op, t) ==
    /\ op.id \notin DOMAIN s.tbl
    /\ \E p : /\ Placing(s.z, s.used, s.end, Adjust(op.size), t.z, t.end, p)
              /\ t.used = s.used \union {p}
              /\ t.tbl = Noted(s.tbl, op.id, p, op.size)

MoveF(s, op, t) ==
    /\ op.id \in DOMAIN s.tbl
    /\ t.used = s.used \ {s.tbl[op.id].ptr} /\ t.end = s.end
    /\ t.tbl = Erased(s.tbl, op.id)
    /\ \E ret : Coalescing(s.z, t.used, s.tbl[op.id].ptr, t.z, ret)

(* The first half of a realloc, and the second.                            *)
Half(s, op, zm, top, p) ==
    /\ op.id \in DOMAIN s.tbl /\ s.tbl[op.id].ptr + op.size <= MAX_HEAP
    /\ Placing(s.z, s.used, s.end, Adjust(op.size), zm, top, p)

MoveR(s, op, t) ==
    \E zm, p, ret :
        /\ Half(s, op, zm, t.end, p)
        /\ t.used = (s.used \union {p}) \ {s.tbl[op.id].ptr}
        /\ Coalescing(zm, t.used, s.tbl[op.id].ptr, t.z, ret)
        /\ t.tbl = Noted(s.tbl, op.id, p, op.size)

Move(s, op, t) ==
    \/ op.type = "a" /\ MoveA(s, op, t)
    \/ op.type = "f" /\ MoveF(s, op, t)
    \/ op.type = "r" /\ MoveR(s, op, t)

Story(reqs, st, n) ==
    /\ CHUNKSIZE + 24 <= MAX_HEAP /\ st[1] = Begin
    /\ \A k \in 1..n : Move(st[k], reqs[k], st[k + 1])

(* What each chapter says.                                                 *)
Fine(s) ==
    /\ Chain(s.z, s.end) /\ s.used \subseteq Blk(s.z)
    /\ DOMAIN s.tbl \subseteq Ids /\ IsFiniteSet(DOMAIN s.tbl)
    /\ \A i \in DOMAIN s.tbl : /\ s.tbl[i].ptr \in s.used /\ s.tbl[i].size \in Sizes
                               /\ s.tbl[i].size + 8 <= s.z[s.tbl[i].ptr]
    /\ \A i, j \in DOMAIN s.tbl : s.tbl[i].ptr = s.tbl[j].ptr => i = j

LEMMA BeginFine ==
    ASSUME CHUNKSIZE + 24 <= MAX_HEAP, NEW h, Good(h, OneBlock(CHUNKSIZE), {}),
           h.brk = CHUNKSIZE + 20
    PROVE  Fine(Begin)
<1>1. /\ Begin.z = OneBlock(CHUNKSIZE) /\ Begin.used = {} /\ Begin.end = CHUNKSIZE + 24
      /\ Begin.tbl = <<>>
  BY DEF Begin
<1>2. Chain(OneBlock(CHUNKSIZE), CHUNKSIZE + 24)
  <2>1. CHUNKSIZE + 20 + 4 = CHUNKSIZE + 24
    BY ChunkAssumption
  <2>2. Chain(OneBlock(CHUNKSIZE), h.brk + 4)
    BY DEF Good
  <2> QED BY <2>1, <2>2
<1>3. DOMAIN Begin.tbl = {}
  BY <1>1
<1> QED BY <1>1, <1>2, <1>3, FS_EmptySet DEF Fine

(* A block comes into use and the table notes it, in place of an old entry *)
(* or not.                                                                 *)
LEMMA NotedFine ==
    ASSUME NEW s, Fine(s), NEW i \in Ids, NEW n \in Sizes, NEW p, NEW t,
           Chain(t.z, t.end), t.used \subseteq Blk(t.z), p \in t.used, p \notin s.used,
           n + 8 <= t.z[p], t.tbl = Noted(s.tbl, i, p, n),
           \A j \in DOMAIN s.tbl : j # i => /\ s.tbl[j].ptr \in t.used
                                            /\ t.z[s.tbl[j].ptr] = s.z[s.tbl[j].ptr]
    PROVE  Fine(t)
<1> DEFINE old == s.tbl
           new == t.tbl
           D == DOMAIN old
           E == DOMAIN new
<1>1. E = D \union {i} /\ new[i].ptr = p /\ new[i].size = n /\ \A j \in D : j # i => new[j] = old[j]
  <2>1. new = Noted(old, i, p, n)
    OBVIOUS
  <2> HIDE DEF old, new
  <2> QED BY <2>1 DEF Noted
<1>2. /\ D \subseteq Ids /\ IsFiniteSet(D)
      /\ \A j \in D : old[j].ptr \in s.used /\ old[j].size \in Sizes /\ old[j].size + 8 <= s.z[old[j].ptr]
      /\ \A j, k \in D : old[j].ptr = old[k].ptr => j = k
  BY DEF Fine
<1>3. \A j \in D : j # i => old[j].ptr \in t.used /\ t.z[old[j].ptr] = s.z[old[j].ptr]
  OBVIOUS
<1> HIDE DEF D, E, old, new
<1>4. E \subseteq Ids /\ IsFiniteSet(E)
  BY <1>1, <1>2, FS_AddElement
<1>5. \A j \in E : new[j].ptr \in t.used /\ new[j].size \in Sizes /\ new[j].size + 8 <= t.z[new[j].ptr]
  <2> SUFFICES ASSUME NEW j \in E
               PROVE  new[j].ptr \in t.used /\ new[j].size \in Sizes /\ new[j].size + 8 <= t.z[new[j].ptr]
    OBVIOUS
  <2>1. CASE j = i
    BY <1>1, <2>1
  <2>2. CASE j # i
    BY <1>1, <1>2, <1>3, <2>2
  <2> QED BY <2>1, <2>2
<1>6. \A j, k \in E : new[j].ptr = new[k].ptr => j = k
  <2> SUFFICES ASSUME NEW j \in E, NEW k \in E, new[j].ptr = new[k].ptr PROVE j = k
    OBVIOUS
  <2>1. \A m \in D : m # i => new[m].ptr \in s.used /\ new[m].ptr = old[m].ptr
    BY <1>1, <1>2
  <2>2. CASE j = i \/ k = i
    BY <1>1, <2>1, <2>2
  <2>3. CASE j # i /\ k # i
    BY <1>1, <1>2, <2>1, <2>3
  <2> QED BY <2>2, <2>3
<1> QED BY <1>4, <1>5, <1>6 DEF Fine, E, new

LEMMA ErasedFine ==
    ASSUME NEW s, Fine(s), NEW i, NEW t,
           Chain(t.z, t.end), t.used \subseteq Blk(t.z), t.tbl = Erased(s.tbl, i),
           \A j \in DOMAIN s.tbl : j # i => /\ s.tbl[j].ptr \in t.used
                                            /\ t.z[s.tbl[j].ptr] = s.z[s.tbl[j].ptr]
    PROVE  Fine(t)
<1> DEFINE old == s.tbl
           new == t.tbl
           D == DOMAIN old
           E == DOMAIN new
<1>1. E = D \ {i} /\ \A j \in D : j # i => new[j] = old[j]
  <2>1. new = Erased(old, i)
    OBVIOUS
  <2> HIDE DEF old, new
  <2> QED BY <2>1 DEF Erased
<1>2. /\ D \subseteq Ids /\ IsFiniteSet(D)
      /\ \A j \in D : old[j].ptr \in s.used /\ old[j].size \in Sizes /\ old[j].size + 8 <= s.z[old[j].ptr]
      /\ \A j, k \in D : old[j].ptr = old[k].ptr => j = k
  BY DEF Fine
<1>3. \A j \in D : j # i => old[j].ptr \in t.used /\ t.z[old[j].ptr] = s.z[old[j].ptr]
  OBVIOUS
<1> HIDE DEF D, E, old, new
<1>4. E \subseteq Ids /\ IsFiniteSet(E)
  BY <1>1, <1>2, FS_Subset
<1>5. \A j \in E : new[j].ptr \in t.used /\ new[j].size \in Sizes /\ new[j].size + 8 <= t.z[new[j].ptr]
  BY <1>1, <1>2, <1>3
<1>6. \A j, k \in E : new[j].ptr = new[k].ptr => j = k
  BY <1>1, <1>2
<1> QED BY <1>4, <1>5, <1>6 DEF Fine, E, new

(* What a placing leaves, as the driver's table sees it.                   *)
Placed(s, n, zm, top, p) ==
    /\ Chain(zm, top) /\ p \notin s.used /\ s.used \subseteq Blk(zm) /\ p \in Blk(zm)
    /\ n + 8 <= zm[p] /\ \A c \in s.used : zm[c] = s.z[c]
    /\ p \in Nat /\ p >= 24

LEMMA PlacedIs ==
    ASSUME NEW s, Fine(s), NEW n \in Sizes, NEW zm, NEW top, NEW p,
           Placing(s.z, s.used, s.end, Adjust(n), zm, top, p)
    PROVE  Placed(s, n, zm, top, p)
<1> DEFINE asize == Adjust(n)
           z == s.z
           end == s.end
           A == s.used
<1>1. asize \in Nat /\ asize % 8 = 0 /\ asize >= 16 /\ asize >= n + 8 /\ n \in Nat
  BY SizeType, AdjustType
<1>2. Chain(z, end) /\ A \subseteq Blk(z) /\ Placing(z, A, end, asize, zm, top, p)
  BY DEF Fine
<1> HIDE DEF asize, z, end, A
<1>3. /\ p \notin A /\ p \in Blk(zm) /\ A \subseteq Blk(zm) /\ p \in Nat /\ p >= 24
      /\ \A c \in A : zm[c] = z[c]
      /\ asize <= zm[p] /\ Chain(zm, top)
  BY <1>1, <1>2, PlacingType
<1>4. zm[p] \in Nat
  BY <1>3, ChainType
<1>5. n + 8 <= zm[p]
  BY <1>1, <1>3, <1>4
<1> QED BY <1>3, <1>5 DEF Placed, z, A

(* And what giving back a block does.                                      *)
LEMMA GivenIs ==
    ASSUME NEW z, NEW end, Chain(z, end), NEW A, A \subseteq Blk(z), NEW b \in Blk(z) \ A,
           NEW z2, NEW ret, Coalescing(z, A, b, z2, ret)
    PROVE  /\ Chain(z2, end) /\ A \subseteq Blk(z2) /\ \A c \in A : z2[c] = z[c]
           /\ ret \in Nat /\ ret >= 24
<1>1. /\ Chain(z2, end) /\ A \subseteq Blk(z2) /\ ret \in Blk(z2) \ A /\ Others(z, z2, b, ret)
  BY CoalescingChain
<1>2. \A c \in A : z2[c] = z[c]
  BY <1>1 DEF Others
<1>3. ret \in Nat /\ ret >= 24
  BY <1>1, ChainType
<1> QED BY <1>1, <1>2, <1>3

LEMMA MoveFine ==
    ASSUME NEW s, Fine(s), NEW op \in Request, NEW t, Move(s, op, t)
    PROVE  Fine(t)
<1> DEFINE old == s.tbl
           i == op.id
           b == old[i].ptr
<1>1. i \in Ids /\ op.size \in Sizes
  BY DEF Request
<1>2. /\ Chain(s.z, s.end) /\ s.used \subseteq Blk(s.z)
      /\ \A j \in DOMAIN old : old[j].ptr \in s.used
      /\ \A j, k \in DOMAIN old : old[j].ptr = old[k].ptr => j = k
  BY DEF Fine
<1>3. CASE MoveA(s, op, t)
  <2>1. PICK p : /\ Placing(s.z, s.used, s.end, Adjust(op.size), t.z, t.end, p)
                 /\ t.used = s.used \union {p}
                 /\ t.tbl = Noted(s.tbl, op.id, p, op.size)
    BY <1>3 DEF MoveA
  <2>2. Placed(s, op.size, t.z, t.end, p)
    BY <1>1, <2>1, PlacedIs
  <2>3. /\ Chain(t.z, t.end) /\ t.used \subseteq Blk(t.z) /\ p \in t.used /\ p \notin s.used
        /\ op.size + 8 <= t.z[p]
    BY <2>1, <2>2 DEF Placed
  <2>4. \A j \in DOMAIN s.tbl : s.tbl[j].ptr \in t.used /\ t.z[s.tbl[j].ptr] = s.z[s.tbl[j].ptr]
    BY <1>2, <2>1, <2>2 DEF Placed
  <2> HIDE DEF i
  <2>5. op.id \in Ids
    BY <1>1 DEF i
  <2> QED BY <1>1, <2>1, <2>3, <2>4, <2>5, NotedFine
<1>4. CASE MoveF(s, op, t)
  <2>1. /\ i \in DOMAIN old /\ t.used = s.used \ {b} /\ t.end = s.end /\ t.tbl = Erased(old, i)
    BY <1>4 DEF MoveF
  <2>2. PICK ret : Coalescing(s.z, t.used, b, t.z, ret)
    BY <1>4 DEF MoveF
  <2>3. b \in s.used
    BY <1>2, <2>1
  <2>4. /\ Chain(s.z, s.end) /\ t.used \subseteq Blk(s.z) /\ b \in Blk(s.z) \ t.used
    BY <1>2, <2>1, <2>3
  <2>5. \A j \in DOMAIN old : j # i => old[j].ptr \in t.used
    BY <1>2, <2>1
  <2> HIDE DEF b, old, i
  <2>6. /\ Chain(t.z, s.end) /\ t.used \subseteq Blk(t.z) /\ \A c \in t.used : t.z[c] = s.z[c]
    <3> DEFINE z == s.z
               en == s.end
               y == t.z
               A == t.used
    <3>1. Chain(z, en) /\ A \subseteq Blk(z) /\ b \in Blk(z) \ A /\ Coalescing(z, A, b, y, ret)
      BY <2>2, <2>4
    <3> HIDE DEF z, en, y, A
    <3>2. Chain(y, en) /\ A \subseteq Blk(y) /\ \A c \in A : y[c] = z[c]
      BY <3>1, GivenIs, SMTT(30)
    <3> QED BY <3>2 DEF z, en, y, A
  <2>7. Chain(t.z, t.end)
    BY <2>1, <2>6
  <2>8. \A j \in DOMAIN s.tbl : j # i => s.tbl[j].ptr \in t.used /\ t.z[s.tbl[j].ptr] = s.z[s.tbl[j].ptr]
    BY <2>5, <2>6 DEF old
  <2>9. t.tbl = Erased(s.tbl, i)
    BY <2>1 DEF old
  <2> QED BY <2>6, <2>7, <2>8, <2>9, ErasedFine
<1>5. CASE MoveR(s, op, t)
  <2>1. PICK zm, p, ret : /\ Half(s, op, zm, t.end, p)
                          /\ t.used = (s.used \union {p}) \ {b}
                          /\ Coalescing(zm, t.used, b, t.z, ret)
                          /\ t.tbl = Noted(old, i, p, op.size)
    BY <1>5 DEF MoveR
  <2>2. i \in DOMAIN old /\ Placed(s, op.size, zm, t.end, p)
    BY <1>1, <2>1, PlacedIs DEF Half
  <2>3. b \in s.used /\ b # p
    BY <1>2, <2>2 DEF Placed
  <2>4. Chain(zm, t.end) /\ t.used \subseteq Blk(zm) /\ b \in Blk(zm) \ t.used
    BY <2>1, <2>2, <2>3 DEF Placed
  <2>5. \A j \in DOMAIN old : j # i => old[j].ptr \in t.used /\ old[j].ptr \in s.used
    BY <1>2, <2>1, <2>2
  <2>6. p \in t.used /\ p \notin s.used /\ op.size + 8 <= zm[p] /\ \A c \in s.used : zm[c] = s.z[c]
    BY <2>1, <2>2, <2>3 DEF Placed
  <2> HIDE DEF b, old, i
  <2>7. Chain(t.z, t.end) /\ t.used \subseteq Blk(t.z) /\ \A c \in t.used : t.z[c] = zm[c]
    <3> DEFINE en == t.end
               y == t.z
               A == t.used
    <3>1. Chain(zm, en) /\ A \subseteq Blk(zm) /\ b \in Blk(zm) \ A /\ Coalescing(zm, A, b, y, ret)
      BY <2>1, <2>4
    <3> HIDE DEF en, y, A
    <3>2. Chain(y, en) /\ A \subseteq Blk(y) /\ \A c \in A : y[c] = zm[c]
      BY <3>1, GivenIs, SMTT(30)
    <3> QED BY <3>2 DEF en, y, A
  <2>8. op.size + 8 <= t.z[p]
    BY <2>6, <2>7
  <2>9. \A j \in DOMAIN s.tbl : j # i => s.tbl[j].ptr \in t.used /\ t.z[s.tbl[j].ptr] = s.z[s.tbl[j].ptr]
    BY <2>5, <2>6, <2>7 DEF old
  <2>10. t.tbl = Noted(s.tbl, i, p, op.size)
    BY <2>1 DEF old
  <2> QED BY <1>1, <2>6, <2>7, <2>8, <2>9, <2>10, NotedFine
<1> QED BY <1>3, <1>4, <1>5 DEF Move

-----------------------------------------------------------------------------
(***************************************************************************)
(* A heap and the driver's table are at a chapter of the story.            *)
(***************************************************************************)
At(h, tbl, s) ==
    Fine(s) /\ Good(h, s.z, s.used) /\ h.brk + 4 = s.end /\ h.lossless = TRUE /\ tbl = s.tbl

(* What a replay makes of the driver's table.                              *)
Table(tbl, op, p) == IF op.type = "f" THEN Erased(tbl, op.id) ELSE Noted(tbl, op.id, p, op.size)

LEMMA ReplayMalloc ==
    ASSUME NEW h, NEW tbl, NEW s, At(h, tbl, s), NEW op \in Request, op.type = "a",
           NEW t, MoveA(s, op, t), NEW r, r = mm_malloc(h, op.size)
    PROVE  r.ret \notin {NULL, Wild} /\ At(r.heap, Table(tbl, op, r.ret), t)
<1> DEFINE z == s.z
           A == s.used
           n == op.size
           z2 == t.z
           top == t.end
           old == s.tbl
<1>1. PICK p : /\ Placing(z, A, s.end, Adjust(n), z2, top, p) /\ t.used = A \union {p}
               /\ t.tbl = Noted(old, op.id, p, n)
  BY DEF MoveA
<1>2. /\ n \in Sizes /\ n \in Nat /\ n > 0 /\ Fine(s) /\ Good(h, z, A) /\ h.lossless = TRUE
      /\ h.brk + 4 = s.end /\ tbl = old
  BY SizeType DEF At, Request
<1>3. Placing(z, A, h.brk + 4, Adjust(n), z2, top, p)
  BY <1>1, <1>2
<1>4. Placed(s, n, z2, top, p)
  BY <1>1, <1>2, PlacedIs
<1>5. r = mm_malloc(h, n)
  OBVIOUS
<1> HIDE DEF z, A, n, z2, top, old
<1>6. r.ret = p /\ r.heap.lossless /\ r.heap.brk + 4 = top /\ Good(r.heap, z2, A \union {p})
  <2> DEFINE q == mm_malloc(h, n)
  <2>1. h.lossless
    BY <1>2
  <2>2. q.ret = p /\ q.heap.lossless /\ q.heap.brk + 4 = top /\ Good(q.heap, z2, A \union {p})
    BY <1>2, <1>3, <2>1, MallocFollows
  <2> HIDE DEF q
  <2> QED BY <1>5, <2>2 DEF q
<1>7. p \notin {NULL, Wild}
  BY <1>4 DEF Placed, NULL, Wild
<1>8. Move(s, op, t)
  BY DEF Move
<1>9. Fine(t)
  BY <1>2, <1>8, MoveFine
<1>10. Table(tbl, op, r.ret) = t.tbl
  BY <1>1, <1>2, <1>6 DEF Table, n
<1>11. r.heap.lossless = TRUE
  BY <1>6 DEF Good, Ready, Typed
<1> QED BY <1>1, <1>6, <1>7, <1>9, <1>10, <1>11 DEF At, z2, top

LEMMA ReplayFree ==
    ASSUME NEW h, NEW tbl, NEW s, At(h, tbl, s), NEW op \in Request, op.type = "f",
           NEW t, MoveF(s, op, t), NEW r, r = mm_free(h, tbl[op.id].ptr)
    PROVE  r.ret \notin {NULL, Wild} /\ At(r.heap, Table(tbl, op, r.ret), t)
<1> DEFINE z == s.z
           A == s.used
           b == tbl[op.id].ptr
           z2 == t.z
<1>1. /\ op.id \in DOMAIN s.tbl /\ Fine(s) /\ Good(h, z, A) /\ h.lossless = TRUE
      /\ h.brk + 4 = s.end /\ tbl = s.tbl
      /\ t.used = A \ {b} /\ t.end = s.end /\ t.tbl = Erased(s.tbl, op.id)
  BY DEF At, MoveF
<1>2. PICK ret : Coalescing(z, A \ {b}, b, z2, ret)
  BY <1>1 DEF MoveF
<1>3. b \in A /\ r = mm_free(h, b)
  BY <1>1 DEF Fine
<1> HIDE DEF z, A, b, z2
<1>4. /\ r.ret = ret /\ ret \in Nat /\ ret >= 24 /\ r.heap.lossless = h.lossless
      /\ r.heap.brk = h.brk /\ Good(r.heap, z2, A \ {b})
  BY <1>1, <1>2, <1>3, FreeFollows
<1>5. ret \notin {NULL, Wild}
  BY <1>4 DEF NULL, Wild
<1>6. Move(s, op, t)
  BY DEF Move
<1>7. Fine(t)
  BY <1>1, <1>6, MoveFine
<1>8. Table(tbl, op, r.ret) = t.tbl
  BY <1>1 DEF Table
<1>9. r.heap.lossless = TRUE
  BY <1>1, <1>4
<1> QED BY <1>1, <1>4, <1>5, <1>7, <1>8, <1>9 DEF At, z2

LEMMA ReplayRealloc ==
    ASSUME NEW h, NEW tbl, NEW s, At(h, tbl, s), NEW op \in Request, op.type = "r",
           NEW t, MoveR(s, op, t), NEW q \in ReallocCopies(h, tbl[op.id].ptr, op.size),
           NEW f, f = mm_free(q.heap, tbl[op.id].ptr)
    PROVE  /\ q.ret \notin {NULL, Wild} /\ f.ret # Wild
           /\ At(f.heap, Table(tbl, op, q.ret), t)
<1> DEFINE z == s.z
           A == s.used
           b == tbl[op.id].ptr
           n == op.size
           z2 == t.z
           top == t.end
<1>1. /\ Fine(s) /\ Good(h, z, A) /\ h.lossless = TRUE /\ h.brk + 4 = s.end /\ tbl = s.tbl
  BY DEF At
<1>2. PICK zm, p, ret : /\ Half(s, op, zm, top, p) /\ t.used = (A \union {p}) \ {b}
                        /\ Coalescing(zm, t.used, b, z2, ret)
                        /\ t.tbl = Noted(s.tbl, op.id, p, n)
  BY <1>1 DEF MoveR
<1>3. op.id \in DOMAIN s.tbl /\ b + n <= MAX_HEAP /\ Placing(z, A, s.end, Adjust(n), zm, top, p)
  BY <1>1, <1>2 DEF Half
<1>4. n \in Sizes /\ n \in Nat /\ n > 0
  BY SizeType DEF Request
<1>5. b \in A /\ q \in ReallocCopies(h, b, n) /\ f = mm_free(q.heap, b)
  BY <1>1, <1>3 DEF Fine
<1>6. Placed(s, n, zm, top, p)
  BY <1>1, <1>3, <1>4, PlacedIs
<1>7. Placing(z, A, h.brk + 4, Adjust(n), zm, top, p)
  BY <1>1, <1>3
<1> HIDE DEF z, A, b, z2, n, top
<1>8. /\ q.ret = p /\ p \notin {NULL, Wild} /\ q.heap.lossless /\ q.heap.brk + 4 = top
      /\ Good(q.heap, zm, A \union {p})
  BY <1>1, <1>3, <1>4, <1>5, <1>7, CopyFollows
<1> DEFINE g == q.heap
           A2 == A \union {p}
<1>9. Good(g, zm, A2) /\ b \in A2 /\ Coalescing(zm, A2 \ {b}, b, z2, ret) /\ f = mm_free(g, b)
  BY <1>2, <1>5, <1>8
<1> HIDE DEF g, A2
<1>10. /\ f.ret = ret /\ ret \in Nat /\ ret >= 24 /\ f.heap.lossless = g.lossless
       /\ f.heap.brk = g.brk /\ Good(f.heap, z2, A2 \ {b})
  BY <1>9, FreeFollows
<1>11. f.ret # Wild
  BY <1>10 DEF Wild
<1>12. Move(s, op, t)
  BY DEF Move
<1>13. Fine(t)
  BY <1>1, <1>12, MoveFine
<1>14. Table(tbl, op, q.ret) = t.tbl
  BY <1>1, <1>2, <1>8 DEF Table, n
<1>15. g.lossless = TRUE
  BY <1>8, <1>9 DEF Good, Ready, Typed, g
<1>16. f.heap.lossless = TRUE
  BY <1>10, <1>15
<1>17. Good(f.heap, z2, t.used) /\ f.heap.brk + 4 = top
  BY <1>2, <1>8, <1>10 DEF A2, g
<1> QED BY <1>8, <1>11, <1>13, <1>14, <1>16, <1>17 DEF At, z2, top

(* A request of a replay does what the same request did before.            *)
LEMMA ReplayFollows ==
    ASSUME NEW s, At(heap, blocks, s), NEW op \in Request, NEW t, Move(s, op, t),
           NEW r \in Answers(heap, op)
    PROVE  r.ret \notin {NULL, Wild} /\ At(r.heap, Table(blocks, op, r.ret), t)
<1>1. CASE op.type = "a"
  <2>1. r = mm_malloc(heap, op.size) /\ MoveA(s, op, t)
    BY <1>1 DEF Answers, Move
  <2> QED BY <1>1, <2>1, ReplayMalloc
<1>2. CASE op.type = "f"
  <2>1. r = mm_free(heap, blocks[op.id].ptr) /\ MoveF(s, op, t)
    BY <1>2 DEF Answers, Move
  <2> QED BY <1>2, <2>1, ReplayFree
<1>3. CASE op.type = "r"
  <2>1. MoveR(s, op, t)
    BY <1>3 DEF Move
  <2> DEFINE Freed(q) == mm_free(q.heap, blocks[op.id].ptr)
             Final(q) == IF q.ret \in {NULL, Wild} THEN q
                         ELSE Result(Freed(q).heap, IF Freed(q).ret = Wild THEN Wild ELSE q.ret)
  <2>2. PICK q \in ReallocCopies(heap, blocks[op.id].ptr, op.size) : r = Final(q)
    BY <1>3 DEF Answers
  <2> DEFINE f == Freed(q)
  <2>3. q.ret \notin {NULL, Wild} /\ f.ret # Wild /\ At(f.heap, Table(blocks, op, q.ret), t)
    BY <1>3, <2>1, ReplayRealloc
  <2> HIDE DEF f, Freed
  <2>4. r = Result(f.heap, q.ret)
    BY <2>2, <2>3 DEF f
  <2> HIDE DEF Final
  <2>5. r.heap = f.heap /\ r.ret = q.ret
    BY <2>4, ResultIs
  <2> QED BY <2>3, <2>5
<1> QED BY <1>1, <1>2, <1>3 DEF Request

-----------------------------------------------------------------------------
(***************************************************************************)
(* The evaluation of a trace, as long as no memory is lost and nothing     *)
(* fails, writes such a story.                                             *)
(***************************************************************************)
LEMMA FillGood ==
    ASSUME NEW h, NEW z, NEW A, Good(h, z, A), NEW b \in Blk(z), NEW n \in Nat, n + 8 <= z[b],
           NEW i \in Ids, NEW g, g = [h EXCEPT !.mem = Filled(@, b, n, i)]
    PROVE  Good(g, z, A) /\ g.brk = h.brk /\ g.lossless = h.lossless
<1> DEFINE m == Filled(h.mem, b, n, i)
<1>1. Typed(h) /\ Chain(z, h.brk + 4) /\ b \in Nat /\ z[b] \in Nat
  BY ChainType DEF Good, Ready
<1>2. m \in Arena /\ g = With(h, m) /\ \A w \in Words \ PayloadWords(b, n) : m[w] = h.mem[w]
  BY <1>1, FilledIs, SMTT(30)
<1> HIDE DEF m
<1>3. ASSUME NEW w \in Words, ~Inside(z, b, w) PROVE m[w] = h.mem[w]
  <2>1. w \in Nat
    BY WordsType
  <2>2. w \notin PayloadWords(b, n)
    BY <1>1, <1>3, <2>1 DEF Inside, PayloadWords
  <2> QED BY <1>2, <2>2
<1>4. Good(With(h, m), z, A)
  BY <1>2, <1>3, PayloadWrite
<1> QED BY <1>1, <1>2, <1>4, WithType

LEMMA AllocMoves ==
    ASSUME NEW s, At(heap, blocks, s), NEW op \in Request, op.type = "a",
           Alloc(op.id, op.size), verdict' = "running", heap'.lossless
    PROVE  \E t : Move(s, op, t) /\ At(heap', blocks', t)
<1> DEFINE i == op.id
           n == op.size
           z == s.z
           A == s.used
           r == mm_malloc(heap, n)
           g == r.heap
           p == r.ret
<1>1. /\ i \in Ids /\ n \in Sizes /\ n \in Nat /\ n > 0 /\ Fine(s) /\ Good(heap, z, A)
      /\ heap.brk + 4 = s.end /\ blocks = s.tbl
  BY SizeType DEF At, Request
<1>2. /\ i \notin DOMAIN blocks /\ p \notin {NULL, Wild}
      /\ heap' = [g EXCEPT !.mem = Filled(@, p, n, i)] /\ blocks' = Record(i, p, n)
  BY DEF Alloc, CallFailed, Live
<1>3. Typed(g)
  <2>1. Ready(heap)
    BY <1>1 DEF Good
  <2> HIDE DEF n
  <2>2. Grown(heap, r.heap)
    BY <1>1, <2>1, MallocType
  <2> QED BY <2>2 DEF Grown, Ready
<1>4. heap'.lossless = g.lossless /\ g.lossless \in BOOLEAN
  BY <1>2, <1>3 DEF Typed
<1>5. \E z2 : Placing(z, A, heap.brk + 4, Adjust(n), z2, g.brk + 4, p) /\ Good(g, z2, A \union {p})
  <2> HIDE DEF n, z, A
  <2>1. r.ret # NULL /\ r.heap.lossless
    BY <1>2, <1>4
  <2> QED BY <1>1, <2>1, MallocIs
<1>6. PICK z2 : /\ Placing(z, A, heap.brk + 4, Adjust(n), z2, g.brk + 4, p)
                /\ Good(g, z2, A \union {p})
  BY <1>5
<1> DEFINE top == g.brk + 4
           t == [z |-> z2, used |-> A \union {p}, end |-> top, tbl |-> Noted(s.tbl, i, p, n)]
<1>7. Placing(z, A, s.end, Adjust(n), z2, top, p)
  BY <1>1, <1>6
<1> HIDE DEF g, r, top
<1>8. MoveA(s, op, t)
  BY <1>1, <1>2, <1>7 DEF MoveA
<1>9. Move(s, op, t)
  BY <1>8 DEF Move
<1>10. Fine(t)
  BY <1>1, <1>9, MoveFine
<1>11. Placed(s, n, z2, top, p)
  BY <1>1, <1>7, PlacedIs
<1>12. Good(heap', z2, A \union {p}) /\ heap'.brk = g.brk
  <2>1. p \in Blk(z2) /\ n + 8 <= z2[p]
    BY <1>11 DEF Placed
  <2> HIDE DEF p, A, n, i
  <2> QED BY <1>1, <1>2, <1>6, <2>1, FillGood
<1>13. heap'.brk + 4 = t.end
  BY <1>12 DEF top
<1>14. blocks' = t.tbl
  BY <1>1, <1>2, TableSteps
<1>15. heap'.lossless = TRUE
  BY <1>4
<1> QED BY <1>9, <1>10, <1>12, <1>13, <1>14, <1>15 DEF At

LEMMA FreeMoves ==
    ASSUME NEW s, At(heap, blocks, s), NEW op \in Request, op.type = "f", Free(op.id)
    PROVE  \E t : Move(s, op, t) /\ At(heap', blocks', t)
<1> DEFINE i == op.id
           z == s.z
           A == s.used
           b == blocks[i].ptr
           r == mm_free(heap, b)
<1>1. /\ Fine(s) /\ Good(heap, z, A) /\ heap.lossless = TRUE
      /\ heap.brk + 4 = s.end /\ blocks = s.tbl
  BY DEF At
<1>2. i \in DOMAIN s.tbl /\ heap' = r.heap /\ blocks' = Forget(i)
  BY <1>1 DEF Free, Live
<1>3. b \in A
  BY <1>1, <1>2 DEF Fine
<1>4. Typed(heap)
  BY <1>1 DEF Good, Ready
<1>5. PICK z2 : Coalescing(z, A \ {b}, b, z2, r.ret) /\ Good(r.heap, z2, A \ {b}) /\ SameShape(heap, r.heap)
  <2> HIDE DEF z, A, b
  <2> QED BY <1>1, <1>3, FreeIs
<1> HIDE DEF r
<1>6. r.heap.brk = heap.brk /\ r.heap.lossless = heap.lossless
  BY <1>4, <1>5, ShapeType
<1> DEFINE t == [z |-> z2, used |-> A \ {b}, end |-> s.end, tbl |-> Erased(s.tbl, i)]
<1>7. MoveF(s, op, t)
  BY <1>1, <1>2, <1>5 DEF MoveF
<1>8. Move(s, op, t)
  BY <1>7 DEF Move
<1>9. Fine(t)
  BY <1>1, <1>8, MoveFine
<1>10. blocks' = t.tbl
  BY <1>1, <1>2, TableSteps
<1>11. heap'.brk + 4 = t.end /\ heap'.lossless = TRUE
  BY <1>1, <1>2, <1>6
<1> QED BY <1>2, <1>5, <1>8, <1>9, <1>10, <1>11 DEF At

(* Between the two calls of a realloc.                                     *)
Mid(h, tbl, s, op, p) ==
    /\ Fine(s) /\ h.lossless = TRUE /\ tbl = s.tbl
    /\ \E zm : Half(s, op, zm, h.brk + 4, p) /\ Good(h, zm, s.used \union {p})

(* The copy of a realloc leaves the blocks as they are.                    *)
LEMMA CopyGood ==
    ASSUME NEW h, NEW zm, NEW A, NEW b, NEW n \in Nat, NEW p, NEW q, NEW r, NEW k,
           q = mm_malloc(h, n), q.ret = p, Good(q.heap, zm, A), p \in Blk(zm), b \in A, b # p,
           n + 8 <= zm[p], r.ret # Wild, Copied(h, b, n, k, r)
    PROVE  /\ r.ret = p /\ Good(r.heap, zm, A) /\ r.heap.brk = q.heap.brk
           /\ r.heap.lossless = q.heap.lossless /\ b + n <= MAX_HEAP
<1>1. A \subseteq Blk(zm) /\ Chain(zm, q.heap.brk + 4) /\ b \in Blk(zm) /\ Typed(q.heap)
  BY DEF Good, Ready
<1>2. b \in Nat /\ b - 4 \in Words /\ HDRP(b) = b - 4
  <2>1. b \in Nat
    BY <1>1, ChainType
  <2>2. HDRP(b) = b - 4 /\ HDRP(b) \in Words
    BY <1>1, Reads
  <2> QED BY <2>1, <2>2
<1>3. q.heap.mem[HDRP(b)] > 0
  <2>1. q.heap.mem[b - 4] = Tag(zm, A, b)
    BY <1>1 DEF Good, Tagged
  <2>2. Tag(zm, A, b) > 0
    BY <1>1, TagIs
  <2> QED BY <1>2, <2>1, <2>2
<1>4. k = n
  BY <1>3 DEF Copied
<1>5. /\ b + n <= MAX_HEAP
      /\ \E m \in memcpy(q.heap.mem, p, b, n) : m \in Arena /\ r = Result(With(q.heap, m), p)
  <2>1. r # Result(q.heap, Wild)
    BY ResultIs
  <2> QED BY <1>4, <2>1 DEF Copied
<1>6. PICK m \in memcpy(q.heap.mem, p, b, n) : m \in Arena /\ r = Result(With(q.heap, m), p)
  BY <1>5
<1> DEFINE w == With(q.heap, m)
<1>7. Good(w, zm, A)
  BY <1>1, <1>2, <1>5, <1>6, CopyIs
<1>8. w.lossless = q.heap.lossless /\ w.brk = q.heap.brk
  BY <1>1, <1>6, WithType
<1> HIDE DEF w
<1>9. r.ret = p /\ r.heap = w
  BY <1>6, ResultIs DEF w
<1> QED BY <1>5, <1>7, <1>8, <1>9

LEMMA ReallocAllocMoves ==
    ASSUME NEW s, At(heap, blocks, s), NEW op \in Request,
           ReallocAlloc(op.id, op.size), verdict' = "running", heap'.lossless
    PROVE  /\ Mid(heap', blocks', s, op, pending'.ptr)
           /\ pending' = [id |-> op.id, ptr |-> pending'.ptr, size |-> op.size]
<1> DEFINE i == op.id
           n == op.size
           z == s.z
           A == s.used
           b == blocks[i].ptr
           q == mm_malloc(heap, n)
           p == q.ret
<1>1. /\ i \in Ids /\ n \in Sizes /\ n \in Nat /\ n > 0 /\ Fine(s) /\ Good(heap, z, A)
      /\ heap.brk + 4 = s.end /\ blocks = s.tbl
  BY SizeType DEF At, Request
<1>2. PICK r \in ReallocCopies(heap, b, n) :
          /\ r.ret \notin {NULL, Wild} /\ heap' = r.heap
          /\ pending' = [id |-> i, ptr |-> r.ret, size |-> n]
  BY DEF ReallocAlloc, CallFailed
<1>3. i \in DOMAIN s.tbl /\ blocks' = blocks
  BY <1>1 DEF ReallocAlloc, Live
<1>4. b \in A /\ b \in Blk(z) /\ Ready(heap) /\ Pointer(b) /\ b % 8 = 0
  <2>1. b \in A /\ b \in Blk(z) /\ Ready(heap) /\ Chain(z, heap.brk + 4)
    BY <1>1, <1>3 DEF Fine, Good
  <2>2. b \in Nat /\ b % 8 = 0
    BY <2>1, ChainType
  <2> HIDE DEF b, z, A
  <2>3. HDRP(b) \in Words
    BY <1>1, <2>1, Reads
  <2> QED BY <2>1, <2>2, <2>3 DEF Pointer
<1>5. PICK k : Copied(heap, b, n, k, r)
  <2> HIDE DEF b, n
  <2> QED BY <1>1, <1>2, <1>4, ReallocIs
<1>6. /\ q.ret # NULL /\ Typed(q.heap)
      /\ r.heap.lossless = q.heap.lossless
  <2>1. Grown(heap, q.heap)
    <3> HIDE DEF n
    <3> QED BY <1>1, <1>4, MallocType
  <2>2. Typed(q.heap)
    BY <2>1 DEF Grown, Ready
  <2> HIDE DEF q, b, n
  <2>3. q.ret # NULL /\ (r = Result(q.heap, Wild) \/ \E m \in Arena : r = Result(With(q.heap, m), q.ret))
    BY <1>5 DEF Copied, q
  <2>4. PICK m \in Arena : r = Result(With(q.heap, m), q.ret)
    BY <1>2, <2>3, ResultIs
  <2>5. r.heap = With(q.heap, m)
    BY <2>4, ResultIs
  <2> QED BY <2>2, <2>3, <2>5, WithType
<1>7. PICK zm : /\ Placing(z, A, heap.brk + 4, Adjust(n), zm, q.heap.brk + 4, p)
                /\ Good(q.heap, zm, A \union {p})
  <2>1. q.ret # NULL /\ q.heap.lossless
    BY <1>2, <1>6
  <2> HIDE DEF n, z, A
  <2> QED BY <1>1, <2>1, MallocIs
<1> DEFINE top == q.heap.brk + 4
           A2 == A \union {p}
<1>8. Placing(z, A, s.end, Adjust(n), zm, top, p)
  BY <1>1, <1>7
<1> HIDE DEF q, top
<1>9. Placed(s, n, zm, top, p)
  BY <1>1, <1>8, PlacedIs
<1>10. /\ q = mm_malloc(heap, n) /\ q.ret = p /\ Good(q.heap, zm, A2) /\ p \in Blk(zm)
       /\ b \in A2 /\ b # p /\ n + 8 <= zm[p] /\ r.ret # Wild
  BY <1>2, <1>4, <1>7, <1>9 DEF Placed, q
<1> HIDE DEF A2, p, b, n
<1>11. /\ r.ret = p /\ Good(r.heap, zm, A2) /\ r.heap.brk = q.heap.brk
       /\ r.heap.lossless = q.heap.lossless /\ b + n <= MAX_HEAP
  BY <1>1, <1>5, <1>10, CopyGood
<1>12. pending'.ptr = p /\ pending' = [id |-> i, ptr |-> p, size |-> n]
  BY <1>2, <1>11
<1>13. heap'.lossless = TRUE
  BY <1>2, <1>6 DEF Typed
<1>14. Half(s, op, zm, top, p)
  BY <1>1, <1>3, <1>8, <1>11 DEF Half, b, n
<1>15. Half(s, op, zm, heap'.brk + 4, p)
  BY <1>2, <1>11, <1>14 DEF top
<1>16. Good(heap', zm, s.used \union {p})
  BY <1>2, <1>11 DEF A2
<1> QED BY <1>1, <1>3, <1>12, <1>13, <1>15, <1>16 DEF Mid, n

LEMMA ReallocFreeMoves ==
    ASSUME NEW s, NEW op \in Request, op.type = "r",
           Mid(heap, blocks, s, op, pending.ptr),
           pending = [id |-> op.id, ptr |-> pending.ptr, size |-> op.size],
           ReallocFree, verdict' = "running"
    PROVE  \E t : Move(s, op, t) /\ At(heap', blocks', t)
<1> DEFINE i == op.id
           n == op.size
           A == s.used
           p == pending.ptr
           b == blocks[i].ptr
           r == mm_free(heap, b)
           A2 == A \union {p}
           left == A2 \ {b}
           top == heap.brk + 4
<1>1. /\ Fine(s) /\ heap.lossless = TRUE /\ blocks = s.tbl /\ i \in Ids /\ n \in Sizes
      /\ n \in Nat
  BY SizeType DEF Mid, Request
<1>2. PICK zm : Half(s, op, zm, top, p) /\ Good(heap, zm, A2)
  BY DEF Mid
<1>3. heap' = [r.heap EXCEPT !.mem = Filled(@, p, n, i)] /\ blocks' = Record(i, p, n)
  BY DEF ReallocFree
<1>4. i \in DOMAIN s.tbl /\ b \in A /\ Placed(s, n, zm, top, p)
  <2>1. i \in DOMAIN s.tbl /\ Placing(s.z, s.used, s.end, Adjust(n), zm, top, p)
    BY <1>2 DEF Half
  <2>2. b \in A
    BY <1>1, <2>1 DEF Fine
  <2> HIDE DEF top, n, p
  <2>3. Placed(s, n, zm, top, p)
    BY <1>1, <2>1, PlacedIs
  <2> QED BY <2>1, <2>2, <2>3
<1>5. b \in A2 /\ b # p /\ p \in left /\ left \subseteq Blk(zm) /\ b \in Blk(zm) \ left
      /\ Chain(zm, top) /\ n + 8 <= zm[p]
  BY <1>4 DEF Placed
<1>6. Typed(heap)
  BY <1>2 DEF Good, Ready
<1>7. PICK z2 : /\ Coalescing(zm, left, b, z2, r.ret) /\ Good(r.heap, z2, left)
                /\ SameShape(heap, r.heap)
  <2> HIDE DEF A2, b
  <2> QED BY <1>2, <1>5, FreeIs
<1> HIDE DEF r, left, b, top
<1>8. r.heap.brk = heap.brk /\ r.heap.lossless = heap.lossless
  BY <1>6, <1>7, ShapeType
<1>9. p \in Blk(z2) /\ n + 8 <= z2[p]
  <2>1. left \subseteq Blk(z2) /\ \A c \in left : z2[c] = zm[c]
    <3> DEFINE ret == r.ret
    <3>1. Coalescing(zm, left, b, z2, ret)
      BY <1>7
    <3> HIDE DEF ret, A2, p, n
    <3> QED BY <1>5, <3>1, GivenIs
  <2> QED BY <1>5, <2>1
<1>10. /\ Good(heap', z2, left) /\ heap'.brk = r.heap.brk /\ heap'.lossless = r.heap.lossless
  <2> HIDE DEF p, n, i
  <2> QED BY <1>1, <1>3, <1>7, <1>9, FillGood
<1> DEFINE t == [z |-> z2, used |-> left, end |-> top, tbl |-> Noted(s.tbl, i, p, n)]
<1>11. MoveR(s, op, t)
  <2>1. /\ Half(s, op, zm, t.end, p)
        /\ t.used = (s.used \union {p}) \ {s.tbl[op.id].ptr}
        /\ Coalescing(zm, t.used, s.tbl[op.id].ptr, t.z, r.ret)
        /\ t.tbl = Noted(s.tbl, op.id, p, op.size)
    BY <1>1, <1>2, <1>7 DEF left, b
  <2> HIDE DEF t, p
  <2> QED BY <2>1 DEF MoveR
<1>12. Move(s, op, t)
  BY <1>11 DEF Move
<1>13. Fine(t)
  BY <1>1, <1>12, MoveFine
<1>14. blocks' = t.tbl
  BY <1>1, <1>3, TableSteps
<1>15. heap'.brk + 4 = t.end /\ heap'.lossless = TRUE
  BY <1>1, <1>8, <1>10 DEF top
<1> QED BY <1>10, <1>12, <1>13, <1>14, <1>15 DEF At

LEMMA StoryGrows ==
    ASSUME NEW reqs, NEW n \in Nat, NEW st, Story(reqs, st, n), NEW t,
           Move(st[n + 1], reqs[n + 1], t)
    PROVE  \E st2 : Story(reqs, st2, n + 1) /\ st2[n + 2] = t
<1> DEFINE st2 == [k \in 1..(n + 2) |-> IF k = n + 2 THEN t ELSE st[k]]
<1>1. st2[n + 2] = t /\ \A k \in 1..(n + 1) : st2[k] = st[k]
  OBVIOUS
<1> HIDE DEF st2
<1>2. st2[1] = Begin
  BY <1>1 DEF Story
<1>3. ASSUME NEW k \in 1..(n + 1) PROVE Move(st2[k], reqs[k], st2[k + 1])
  <2>1. CASE k = n + 1
    <3>1. k + 1 = n + 2
      BY <2>1
    <3> QED BY <1>1, <2>1, <3>1
  <2>2. CASE k # n + 1
    <3>1. k \in 1..n /\ k + 1 \in 1..(n + 1)
      BY <2>2
    <3>2. st2[k] = st[k] /\ st2[k + 1] = st[k + 1]
      BY <1>1, <3>1
    <3> QED BY <3>1, <3>2 DEF Story
  <2> QED BY <2>1, <2>2
<1> QED BY <1>1, <1>2, <1>3 DEF Story

-----------------------------------------------------------------------------
(***************************************************************************)
(* Which ids are live after n requests of a trace, and that it is legal up *)
(* to there: the evaluation that a trace has passed is what its replays    *)
(* rely on, also when memory was lost.                                     *)
(***************************************************************************)
LiveBy(reqs, n) ==
    {i \in Ids : \E k \in 1..n : /\ reqs[k].id = i /\ reqs[k].type # "f"
                                 /\ \A j \in (k + 1)..n : reqs[j].id = i => reqs[j].type # "f"}

LegalAt(reqs, k) == reqs[k].type = "a" <=> reqs[k].id \notin LiveBy(reqs, k - 1)
LegalTo(reqs, n) == \A k \in 1..n : LegalAt(reqs, k)

LEMMA LiveByNone == \A reqs : LiveBy(reqs, 0) = {}
BY DEF LiveBy

LEMMA LiveByStep ==
    ASSUME NEW reqs, NEW n \in Nat, n >= 1, reqs[n].id \in Ids
    PROVE  LiveBy(reqs, n) = IF reqs[n].type = "f" THEN LiveBy(reqs, n - 1) \ {reqs[n].id}
                             ELSE LiveBy(reqs, n - 1) \union {reqs[n].id}
<1> DEFINE i == reqs[n].id
           Since(x, k, m) == /\ reqs[k].id = x /\ reqs[k].type # "f"
                             /\ \A j \in (k + 1)..m : reqs[j].id = x => reqs[j].type # "f"
<1>1. \A x, m : x \in LiveBy(reqs, m) <=> x \in Ids /\ \E k \in 1..m : Since(x, k, m)
  BY DEF LiveBy
<1>2. ASSUME NEW x, NEW k \in 1..(n - 1)
      PROVE  Since(x, k, n) <=> Since(x, k, n - 1) /\ (i = x => reqs[n].type # "f")
  <2>1. (k + 1)..n = ((k + 1)..(n - 1)) \union {n}
    BY <1>2
  <2> QED BY <2>1
<1>3. \A x : Since(x, n, n) <=> i = x /\ reqs[n].type # "f"
  <2>1. (n + 1)..n = {}
    OBVIOUS
  <2> QED BY <2>1
<1>4. 1..n = (1..(n - 1)) \union {n}
  OBVIOUS
<1> HIDE DEF Since
<1>5. ASSUME NEW x
      PROVE  x \in LiveBy(reqs, n) <=> \/ x \in LiveBy(reqs, n - 1) /\ (i = x => reqs[n].type # "f")
                                       \/ i = x /\ reqs[n].type # "f"
  <2>1. (\E k \in 1..n : Since(x, k, n)) <=> \/ \E k \in 1..(n - 1) : Since(x, k, n)
                                             \/ Since(x, n, n)
    BY <1>4
  <2>2. (\E k \in 1..(n - 1) : Since(x, k, n))
           <=> (\E k \in 1..(n - 1) : Since(x, k, n - 1)) /\ (i = x => reqs[n].type # "f")
    BY <1>2
  <2>3. i = x => x \in Ids
    OBVIOUS
  <2> QED BY <1>1, <1>3, <2>1, <2>2, <2>3
<1> QED BY <1>5

LEMMA LegalStep ==
    ASSUME NEW reqs, NEW n \in Nat, n >= 1, LegalTo(reqs, n - 1), LegalAt(reqs, n)
    PROVE  LegalTo(reqs, n)
<1>1. 1..n = (1..(n - 1)) \union {n}
  OBVIOUS
<1> QED BY <1>1 DEF LegalTo

-----------------------------------------------------------------------------
(***************************************************************************)
(* The invariant of the driver's run.                                      *)
(***************************************************************************)
Loaded == trace \in Seq(Request) /\ Len(trace) >= 1 /\ pos \in 1..(Len(trace) + 1)

StatsRecord == [valid : BOOLEAN, ops : Nat \ {0}, secs : Nat, util : Nat \X (Nat \ {0})]

(* Traces started but not yet in the table of results.                     *)
Open == IF phase \in {"valid", "util"} THEN 1 ELSE 0

StatsInv ==
    /\ stats \in Seq(StatsRecord) /\ errors \in Nat
    /\ Cardinality({i \in DOMAIN stats : ~stats[i].valid}) = errors
    /\ ~checked.lossy => \A i \in DOMAIN stats : stats[i].util[1] <= stats[i].util[2]
    /\ phase \in {"read", "valid", "util", "speed"} => Len(stats) + Open = evals

BetweenInv ==
    /\ phase \in {"read", "valid", "util", "speed", "app_error", "undefined", "exit"}
    /\ evals \in 0..MaxEvals
    /\ phase = "read" => Typed(heap) /\ pending = NoCall

(* The evaluation, its table and its trace.                                *)
Here(s) ==
    \/ pending = NoCall /\ At(heap, blocks, s)
    \/ /\ pending # NoCall /\ Mid(heap, blocks, s, trace[pos], pending.ptr)
       /\ pending = [id |-> trace[pos].id, ptr |-> pending.ptr, size |-> trace[pos].size]

ValidInv ==
    phase = "valid" =>
        /\ Loaded /\ Shape /\ LegalTo(trace, pos - 1)
        /\ pending # NoCall => /\ pos <= Len(trace) /\ trace[pos].type = "r"
                               /\ pending.id = trace[pos].id
        /\ verdict = "running" =>
              /\ Live = LiveBy(trace, pos - 1)
              /\ heap.lossless => \E st : Story(trace, st, pos - 1) /\ Here(st[pos])

ReplayInv ==
    phase \in {"util", "speed"} =>
        /\ Loaded /\ Ready(heap) /\ pending = NoCall
        /\ LegalTo(trace, Len(trace)) /\ Live = LiveBy(trace, pos - 1) /\ IsFiniteSet(Live)
        /\ \A i \in Live : Pointer(blocks[i].ptr) /\ blocks[i].size \in Sizes
        /\ checked.lossy \/ checked.heap.lossless
        /\ checked.heap.lossless =>
              \E st : /\ Story(trace, st, Len(trace)) /\ At(heap, blocks, st[pos])
                      /\ At(checked.heap, checked.blocks, st[Len(trace) + 1])

UtilInv ==
    phase = "util" => /\ total = SizeSum(blocks) /\ hwm \in Nat
                      /\ checked.heap.lossless => hwm <= heap.brk

PhaseInv ==
    StatsInv /\ BetweenInv /\ ValidInv /\ ReplayInv /\ UtilInv /\ ReplaySafe /\ ScoreSound

LEMMA LoadedIs ==
    ASSUME Loaded
    PROVE  /\ Len(trace) \in Nat /\ pos \in Nat /\ pos >= 1 /\ pos <= Len(trace) + 1
           /\ pos <= Len(trace) => /\ trace[pos] \in Request /\ trace[pos].id \in Ids
                                   /\ trace[pos].size \in Sizes
                                   /\ trace[pos].type \in {"a", "r", "f"}
                                   /\ pos + 1 \in 1..(Len(trace) + 1)
<1>1. Len(trace) \in Nat /\ pos \in Nat /\ pos >= 1 /\ pos <= Len(trace) + 1
  BY DEF Loaded
<1>2. ASSUME pos <= Len(trace) PROVE trace[pos] \in Request /\ pos + 1 \in 1..(Len(trace) + 1)
  BY <1>1, <1>2 DEF Loaded
<1>3. \A q \in Request : q.id \in Ids /\ q.size \in Sizes /\ q.type \in {"a", "r", "f"}
  BY DEF Request
<1> QED BY <1>1, <1>2, <1>3

(* mem_reset_brk and mm_init.                                              *)
LEMMA StartIs ==
    ASSUME NEW h, Typed(h), NEW r, r = mm_init(mem_reset_brk(h))
    PROVE  /\ Ready(r.heap)
           /\ r.ret # Fail => CHUNKSIZE + 24 <= MAX_HEAP
           /\ CHUNKSIZE + 24 <= MAX_HEAP => At(r.heap, <<>>, Begin)
<1>1. /\ Ready(r.heap) /\ r.heap.lossless = TRUE
      /\ \/ r.ret = Fail /\ CHUNKSIZE + 20 > MAX_HEAP
         \/ /\ r.ret = 0 /\ CHUNKSIZE + 24 <= MAX_HEAP /\ r.heap.brk = 20 + CHUNKSIZE
            /\ Good(r.heap, OneBlock(CHUNKSIZE), {})
  BY InitIs
<1>2. CHUNKSIZE \in Nat /\ MAX_HEAP \in Nat
  BY ChunkAssumption, ArenaAssumption
<1>3. ASSUME CHUNKSIZE + 24 <= MAX_HEAP PROVE At(r.heap, <<>>, Begin)
  <2>1. r.heap.brk = CHUNKSIZE + 20 /\ Good(r.heap, OneBlock(CHUNKSIZE), {})
    BY <1>1, <1>2, <1>3
  <2>2. Fine(Begin)
    BY <1>3, <2>1, BeginFine
  <2>3. r.heap.brk + 4 = CHUNKSIZE + 24
    BY <1>2, <2>1
  <2> QED BY <1>1, <2>1, <2>2, <2>3 DEF At, Begin
<1> QED BY <1>1, <1>3

LEMMA StartShape == Typed(heap) /\ evals \in 0..MaxEvals /\ EvalStart => Shape'
<1> SUFFICES ASSUME Typed(heap), evals \in 0..MaxEvals, EvalStart PROVE Shape'
  OBVIOUS
<1> DEFINE r == mm_init(mem_reset_brk(heap))
<1>1. Ready(r.heap) /\ (r.ret = Fail \/ r.ret # Fail)
  BY InitIs
<1>2. /\ evals < MaxEvals /\ evals' = evals + 1 /\ heap' = r.heap /\ ranges' = {} /\ blocks' = <<>>
      /\ verdict' = IF r.ret = Fail THEN "mm_init failed" ELSE "running"
      /\ pending = NoCall /\ pending' = NoCall
  BY DEF EvalStart
<1> HIDE DEF r
<1>3. Ready(heap') /\ Typed(heap')
  BY <1>1, <1>2 DEF Ready
<1>4. evals' \in 0..MaxEvals /\ Initialised' /\ verdict' \in Verdicts
  <2>1. evals \in 0..MaxEvals /\ MaxEvals \in Nat
    BY TraceAssumption
  <2>4. evals < MaxEvals /\ evals' = evals + 1
    BY <1>2
  <2>2. evals' \in 0..MaxEvals /\ evals' > 0
    BY <2>1, <2>4
  <2>3. verdict' \in Verdicts
    BY <1>2 DEF Verdicts
  <2> QED BY <2>2, <2>3 DEF Initialised
<1>5. Live' = {} /\ IsFiniteSet(Live')
  <2>1. blocks' = <<>>
    BY <1>2
  <2>2. Live' = {}
    BY <2>1 DEF Live
  <2> QED BY <2>2, FS_EmptySet
<1>6. Mirror' = {}
  BY <1>5 DEF Mirror
<1> QED BY <1>2, <1>3, <1>4, <1>5, <1>6 DEF Shape, Calls

-----------------------------------------------------------------------------
(* The table of results.                                                   *)
Failed(tbl) == {i \in DOMAIN tbl : ~tbl[i].valid}

LEMMA StatsSame ==
    ASSUME StatsInv, UNCHANGED <<stats, errors, checked>>,
           phase' \in {"read", "valid", "util", "speed"} => Len(stats) + Open' = evals'
    PROVE  StatsInv'
BY DEF StatsInv

LEMMA StatsType ==
    ASSUME NEW tbl \in Seq(StatsRecord)
    PROVE  /\ Len(tbl) \in Nat /\ DOMAIN tbl = 1..Len(tbl) /\ IsFiniteSet(DOMAIN tbl)
           /\ Cardinality(DOMAIN tbl) = Len(tbl)
           /\ \A i \in DOMAIN tbl : /\ tbl[i] \in StatsRecord /\ tbl[i].valid \in BOOLEAN
                                    /\ tbl[i].ops \in Nat \ {0} /\ tbl[i].secs \in Nat
                                    /\ tbl[i].util[1] \in Nat /\ tbl[i].util[2] \in Nat \ {0}
<1>1. Len(tbl) \in Nat /\ DOMAIN tbl = 1..Len(tbl) /\ \A i \in DOMAIN tbl : tbl[i] \in StatsRecord
  <2> HIDE DEF StatsRecord
  <2> QED OBVIOUS
<1>2. IsFiniteSet(DOMAIN tbl) /\ Cardinality(DOMAIN tbl) = Len(tbl)
  BY <1>1, FS_Interval
<1>3. \A q \in StatsRecord : /\ q.valid \in BOOLEAN /\ q.ops \in Nat \ {0} /\ q.secs \in Nat
                             /\ q.util[1] \in Nat /\ q.util[2] \in Nat \ {0}
  BY DEF StatsRecord
<1> QED BY <1>1, <1>2, <1>3

LEMMA Appended ==
    ASSUME NEW tbl \in Seq(StatsRecord), NEW rec \in StatsRecord, NEW new, new = Append(tbl, rec)
    PROVE  /\ new \in Seq(StatsRecord) /\ Len(new) = Len(tbl) + 1
           /\ \A i \in DOMAIN new : (i \in DOMAIN tbl /\ new[i] = tbl[i]) \/ new[i] = rec
           /\ Cardinality(Failed(new)) = Cardinality(Failed(tbl)) + (IF rec.valid THEN 0 ELSE 1)
<1> DEFINE n == Len(tbl)
<1>1. /\ n \in Nat /\ DOMAIN tbl = 1..n /\ IsFiniteSet(DOMAIN tbl)
      /\ \A i \in DOMAIN tbl : tbl[i].valid \in BOOLEAN
  BY StatsType
<1>2. rec.valid \in BOOLEAN
  BY DEF StatsRecord
<1> HIDE DEF StatsRecord
<1>3. /\ new \in Seq(StatsRecord) /\ Len(new) = n + 1 /\ DOMAIN new = 1..(n + 1)
      /\ new[n + 1] = rec /\ \A i \in 1..n : new[i] = tbl[i]
  OBVIOUS
<1>4. DOMAIN new = DOMAIN tbl \union {n + 1} /\ n + 1 \notin DOMAIN tbl
  BY <1>1, <1>3
<1>5. IsFiniteSet(Failed(tbl)) /\ n + 1 \notin Failed(tbl)
  BY <1>1, <1>4, FS_Subset DEF Failed
<1> HIDE DEF n
<1>6. CASE rec.valid
  <2>1. Failed(new) = Failed(tbl)
    BY <1>1, <1>3, <1>4, <1>6 DEF Failed
  <2>2. Cardinality(Failed(tbl)) \in Nat
    BY <1>5, FS_CardinalityType
  <2> QED BY <1>1, <1>3, <1>4, <1>6, <2>1, <2>2 DEF n
<1>7. CASE ~rec.valid
  <2>1. Failed(new) = Failed(tbl) \union {n + 1}
    BY <1>1, <1>3, <1>4, <1>7 DEF Failed
  <2>2. Cardinality(Failed(new)) = Cardinality(Failed(tbl)) + 1
    BY <1>5, <2>1, FS_AddElement
  <2> QED BY <1>1, <1>3, <1>4, <1>7, <2>2 DEF n
<1> QED BY <1>6, <1>7

LEMMA StatsAppended ==
    ASSUME StatsInv, NEW rec \in StatsRecord, stats' = Append(stats, rec), checked' = checked,
           errors' = errors + (IF rec.valid THEN 0 ELSE 1),
           ~checked.lossy => rec.util[1] <= rec.util[2],
           phase' \in {"read", "valid", "util", "speed"} => Len(stats) + 1 + Open' = evals'
    PROVE  StatsInv'
<1>1. /\ stats \in Seq(StatsRecord) /\ errors \in Nat /\ Cardinality(Failed(stats)) = errors
      /\ ~checked.lossy => \A i \in DOMAIN stats : stats[i].util[1] <= stats[i].util[2]
  BY DEF StatsInv, Failed
<1> DEFINE old == stats
           new == stats'
<1>2. old \in Seq(StatsRecord) /\ new = Append(old, rec)
  BY <1>1
<1> HIDE DEF old, new
<1>0. /\ new \in Seq(StatsRecord) /\ Len(new) = Len(old) + 1
      /\ \A i \in DOMAIN new : (i \in DOMAIN old /\ new[i] = old[i]) \/ new[i] = rec
      /\ Cardinality(Failed(new)) = Cardinality(Failed(old)) + (IF rec.valid THEN 0 ELSE 1)
  <2>1. ASSUME NEW t \in Seq(StatsRecord), NEW n, n = Append(t, rec)
        PROVE  /\ n \in Seq(StatsRecord) /\ Len(n) = Len(t) + 1
               /\ \A i \in DOMAIN n : (i \in DOMAIN t /\ n[i] = t[i]) \/ n[i] = rec
               /\ Cardinality(Failed(n)) = Cardinality(Failed(t)) + (IF rec.valid THEN 0 ELSE 1)
    <3>1. n \in Seq(StatsRecord) /\ Len(n) = Len(t) + 1
      BY <2>1, Appended
    <3>2. \A i \in DOMAIN n : (i \in DOMAIN t /\ n[i] = t[i]) \/ n[i] = rec
      BY <2>1, Appended
    <3>3. Cardinality(Failed(n)) = Cardinality(Failed(t)) + (IF rec.valid THEN 0 ELSE 1)
      BY <2>1, Appended
    <3> QED BY <3>1, <3>2, <3>3
  <2> QED BY <1>2, <2>1
<1> HIDE DEF StatsRecord
<1>3. /\ new \in Seq(StatsRecord) /\ Len(new) = Len(stats) + 1
      /\ \A i \in DOMAIN new : (i \in DOMAIN stats /\ new[i] = stats[i]) \/ new[i] = rec
      /\ Cardinality(Failed(new)) = Cardinality(Failed(stats)) + (IF rec.valid THEN 0 ELSE 1)
  BY <1>0 DEF old
<1>4. errors' \in Nat /\ Cardinality(Failed(new)) = errors'
  BY <1>1, <1>3
<1>5. ~checked'.lossy => \A i \in DOMAIN new : new[i].util[1] <= new[i].util[2]
  BY <1>1, <1>3
<1>6. phase' \in {"read", "valid", "util", "speed"} => Len(new) + Open' = evals'
  BY <1>3
<1> QED BY <1>3, <1>4, <1>5, <1>6 DEF StatsInv, new, Failed

-----------------------------------------------------------------------------
(* The steps of the run.                                                   *)
LEMMA PhasesInitInv == PhasesInit => PhaseInv
<1> SUFFICES ASSUME PhasesInit PROVE PhaseInv
  OBVIOUS
<1>1. /\ Init /\ phase = "read" /\ stats = <<>> /\ errors = 0
  BY DEF PhasesInit
<1>2. Shape /\ pending = NoCall /\ evals = 0
  BY <1>1, InitShape DEF Init
<1>3. Typed(heap) /\ evals \in 0..MaxEvals
  BY <1>2 DEF Shape
<1>4. StatsInv
  <2>1. {i \in DOMAIN stats : ~stats[i].valid} = {}
    BY <1>1
  <2>2. Cardinality({i \in DOMAIN stats : ~stats[i].valid}) = 0
    BY <2>1, FS_EmptySet
  <2>3. Open = 0 /\ Len(stats) = 0
    BY <1>1 DEF Open
  <2>4. stats \in Seq(StatsRecord) /\ \A i \in DOMAIN stats : FALSE
    BY <1>1
  <2> QED BY <1>1, <1>2, <2>2, <2>3, <2>4 DEF StatsInv
<1> QED BY <1>1, <1>2, <1>3, <1>4
        DEF PhaseInv, BetweenInv, ValidInv, ReplayInv, UtilInv, ReplaySafe, ScoreSound

LEMMA ReadTraceKeeps == ASSUME PhaseInv, ReadTrace PROVE PhaseInv'
<1> DEFINE r == mm_init(mem_reset_brk(heap))
<1>1. /\ phase = "read" /\ phase' = "valid" /\ trace' \in Traces[evals'] /\ pos' = 1 /\ EvalStart
      /\ UNCHANGED <<stats, errors, checked>>
  BY DEF ReadTrace
<1>2. Typed(heap) /\ evals \in 0..MaxEvals /\ StatsInv
  BY <1>1 DEF PhaseInv, BetweenInv
<1>3. /\ evals < MaxEvals /\ evals' = evals + 1 /\ heap' = r.heap /\ blocks' = <<>>
      /\ verdict' = IF r.ret = Fail THEN "mm_init failed" ELSE "running"
      /\ pending = NoCall /\ pending' = NoCall
  BY <1>1 DEF EvalStart
<1>4. Shape'
  BY <1>1, <1>2, StartShape
<1>5. /\ r.ret # Fail => CHUNKSIZE + 24 <= MAX_HEAP
      /\ CHUNKSIZE + 24 <= MAX_HEAP => At(r.heap, <<>>, Begin)
  BY <1>2, StartIs
<1> HIDE DEF r
<1>6. evals' \in 1..MaxEvals /\ evals' \in 0..MaxEvals
  <2>1. MaxEvals \in Nat
    BY TraceAssumption
  <2>2. evals < MaxEvals /\ evals' = evals + 1
    BY <1>3
  <2>3. evals \in 0..MaxEvals
    BY <1>2
  <2> QED BY <2>1, <2>2, <2>3
<1>7. trace' \in Seq(Request) /\ Len(trace') >= 1
  <2>1. trace' \in Seq(Request) /\ trace' # <<>>
    BY <1>1, <1>6, PhaseAssumption
  <2> HIDE DEF Request
  <2> QED BY <2>1
<1>8. Loaded'
  BY <1>1, <1>7 DEF Loaded
<1>9. StatsInv'
  <2>1. Len(stats) + 0 = evals /\ Open' = 1
    BY <1>1, <1>2 DEF StatsInv, Open
  <2>2. Len(stats) \in Nat
    BY <1>2, StatsType DEF StatsInv
  <2>3. evals' = evals + 1
    BY <1>3
  <2>4. Len(stats) + Open' = evals'
    BY <2>1, <2>2, <2>3
  <2>5. StatsInv /\ UNCHANGED <<stats, errors, checked>>
    BY <1>1, <1>2
  <2> QED BY <2>4, <2>5, StatsSame
<1>10. ValidInv'
  <2>1. LegalTo(trace', pos' - 1)
    <3>1. pos' - 1 = 0
      BY <1>1
    <3>2. LegalTo(trace', 0)
      BY DEF LegalTo
    <3> QED BY <3>1, <3>2
  <2>2. Live' = LiveBy(trace', pos' - 1)
    <3>3. blocks' = <<>>
      BY <1>3
    <3>4. Live' = {}
      BY <3>3 DEF Live
    <3>1. Live' = {} /\ pos' - 1 = 0
      BY <1>1, <3>4
    <3>2. LiveBy(trace', 0) = {}
      BY LiveByNone
    <3> QED BY <3>1, <3>2
  <2>3. ASSUME verdict' = "running"
        PROVE  \E st : Story(trace', st, pos' - 1) /\ Here(st[pos])'
    <3>5. heap' = r.heap /\ blocks' = <<>>
      BY <1>3
    <3>6. r.ret # Fail
      BY <1>3, <2>3
    <3>1. CHUNKSIZE + 24 <= MAX_HEAP /\ At(heap', blocks', Begin)
      BY <1>5, <3>5, <3>6
    <3> DEFINE st == [k \in {1} |-> Begin]
    <3>2. st[1] = Begin /\ pos' - 1 = 0 /\ st[pos'] = Begin
      BY <1>1
    <3> HIDE DEF st
    <3>3. Story(trace', st, pos' - 1)
      BY <3>1, <3>2 DEF Story
    <3>4. Here(st[pos])'
      BY <1>3, <3>1, <3>2 DEF Here
    <3> QED BY <3>3, <3>4
  <2> QED BY <1>3, <1>4, <1>8, <2>1, <2>2, <2>3 DEF ValidInv
<1>11. BetweenInv'
  BY <1>1, <1>6 DEF BetweenInv
<1> QED BY <1>1, <1>9, <1>10, <1>11 DEF PhaseInv, ReplayInv, UtilInv, ReplaySafe, ScoreSound

LEMMA StoryNext ==
    ASSUME Loaded, NEW st, Story(trace, st, pos - 1), NEW t, Move(st[pos], trace[pos], t)
    PROVE  \E st2 : Story(trace, st2, pos) /\ st2[pos + 1] = t
<1> DEFINE n == pos - 1
           reqs == trace
<1>1. n \in Nat /\ n + 1 = pos /\ n + 2 = pos + 1
  BY LoadedIs
<1>2. Story(reqs, st, n) /\ Move(st[n + 1], reqs[n + 1], t)
  BY <1>1
<1> HIDE DEF n, reqs
<1>3. \E st2 : Story(reqs, st2, n + 1) /\ st2[n + 2] = t
  BY <1>1, <1>2, StoryGrows
<1> QED BY <1>1, <1>3 DEF reqs

(* Nothing of a checked evaluation's step reaches the parts of the run.    *)
LEMMA CheckingKeeps ==
    ASSUME PhaseInv, phase = "valid", ValidInv', phase' = phase, Shape',
           UNCHANGED <<evals, stats, errors, checked>>
    PROVE  PhaseInv'
<1>1. StatsInv /\ BetweenInv
  BY DEF PhaseInv
<1>2. StatsInv'
  <2>1. Len(stats) + Open = evals /\ Open' = Open
    BY <1>1 DEF StatsInv, Open
  <2> QED BY <1>1, <2>1, StatsSame
<1>3. BetweenInv'
  BY <1>1 DEF BetweenInv
<1> QED BY <1>2, <1>3 DEF PhaseInv, ReplayInv, UtilInv, ReplaySafe, ScoreSound

(* A request that the evaluation has done with, well or badly.             *)
LEMMA RequestDone ==
    ASSUME ValidInv, phase = "valid", pos <= Len(trace), UNCHANGED <<phase, trace>>,
           pos' = pos + 1, pending' = NoCall, Shape', verdict = "running",
           trace[pos].type = "a" <=> trace[pos].id \notin Live,
           verdict' = "running" =>
              /\ Live' = IF trace[pos].type = "f" THEN Live \ {trace[pos].id}
                         ELSE Live \union {trace[pos].id}
              /\ heap'.lossless => \E st : Story(trace, st, pos) /\ At(heap', blocks', st[pos + 1])
    PROVE  ValidInv'
<1> DEFINE op == trace[pos]
<1>1. /\ Loaded /\ LegalTo(trace, pos - 1) /\ Live = LiveBy(trace, pos - 1)
  BY DEF ValidInv
<1>2. /\ Len(trace) \in Nat /\ pos \in Nat /\ pos >= 1 /\ op.id \in Ids
      /\ pos + 1 \in 1..(Len(trace) + 1)
  BY <1>1, LoadedIs
<1>3. Loaded' /\ pos' - 1 = pos
  BY <1>1, <1>2 DEF Loaded
<1>4. LegalTo(trace', pos' - 1)
  <2>1. LegalAt(trace, pos)
    BY <1>1 DEF LegalAt
  <2>2. LegalTo(trace, pos)
    BY <1>1, <1>2, <2>1, LegalStep
  <2> QED BY <1>3, <2>2
<1>5. ASSUME verdict' = "running" PROVE Live' = LiveBy(trace', pos' - 1)
  <2>1. LiveBy(trace, pos) = IF op.type = "f" THEN LiveBy(trace, pos - 1) \ {op.id}
                             ELSE LiveBy(trace, pos - 1) \union {op.id}
    BY <1>2, LiveByStep
  <2> QED BY <1>1, <1>3, <1>5, <2>1
<1>6. ASSUME verdict' = "running", heap'.lossless
      PROVE  \E st : Story(trace', st, pos' - 1) /\ Here(st[pos])'
  <2>1. PICK st : Story(trace, st, pos) /\ At(heap', blocks', st[pos + 1])
    BY <1>6
  <2>2. Here(st[pos])'
    BY <2>1 DEF Here
  <2> QED BY <1>3, <2>1, <2>2
<1> QED BY <1>3, <1>4, <1>5, <1>6 DEF ValidInv

LEMMA AllocKeeps ==
    ASSUME ValidInv, phase = "valid", pos <= Len(trace), UNCHANGED <<phase, trace>>,
           trace[pos].type = "a", Alloc(trace[pos].id, trace[pos].size),
           pos' = IF pending' = NoCall THEN pos + 1 ELSE pos
    PROVE  ValidInv' /\ Shape' /\ evals' = evals
<1> DEFINE op == trace[pos]
<1>1. Loaded /\ Shape
  BY DEF ValidInv
<1>2. op \in Request /\ op.id \in Ids /\ op.size \in Sizes /\ pos \in Nat /\ pos >= 1
  BY <1>1, LoadedIs
<1>3. /\ verdict = "running" /\ pending = NoCall /\ pending' = NoCall /\ op.id \notin Live
      /\ evals' = evals
  BY DEF Alloc, Running
<1>4. Shape'
  BY <1>1, <1>2, AllocShape
<1>5. ASSUME verdict' = "running" PROVE Live' = Live \union {op.id}
  <2>1. \E p : blocks' = Record(op.id, p, op.size)
    BY <1>5 DEF Alloc, CallFailed
  <2> QED BY <2>1 DEF Record, Live
<1>6. ASSUME verdict' = "running", heap'.lossless
      PROVE  \E st : Story(trace, st, pos) /\ At(heap', blocks', st[pos + 1])
  <2>1. heap.lossless
    BY <1>1, <1>2, <1>6, StaysLossless
  <2>2. PICK st : Story(trace, st, pos - 1) /\ Here(st[pos])
    BY <1>3, <2>1 DEF ValidInv
  <2>3. At(heap, blocks, st[pos])
    BY <1>3, <2>2 DEF Here
  <2>4. PICK t : Move(st[pos], op, t) /\ At(heap', blocks', t)
    BY <1>2, <1>6, <2>3, AllocMoves
  <2>5. \E st2 : Story(trace, st2, pos) /\ st2[pos + 1] = t
    BY <1>1, <2>2, <2>4, StoryNext
  <2> QED BY <2>4, <2>5
<1>7. pos' = pos + 1
  BY <1>3
<1>8. op.type # "f" /\ (op.type = "a" <=> op.id \notin Live)
  BY <1>3
<1>9. ValidInv'
  BY <1>3, <1>4, <1>5, <1>6, <1>7, <1>8, RequestDone
<1> QED BY <1>3, <1>4, <1>9

LEMMA FreeKeeps ==
    ASSUME ValidInv, phase = "valid", pos <= Len(trace), UNCHANGED <<phase, trace>>,
           trace[pos].type = "f", Free(trace[pos].id),
           pos' = IF pending' = NoCall THEN pos + 1 ELSE pos
    PROVE  ValidInv' /\ Shape' /\ evals' = evals
<1> DEFINE op == trace[pos]
<1>1. Loaded /\ Shape
  BY DEF ValidInv
<1>2. op \in Request /\ op.id \in Ids /\ op.size \in Sizes /\ pos \in Nat /\ pos >= 1
  BY <1>1, LoadedIs
<1>3. /\ verdict = "running" /\ pending = NoCall /\ pending' = NoCall /\ op.id \in Live
      /\ evals' = evals /\ blocks' = Forget(op.id)
  BY DEF Free, Running
<1>4. Shape'
  BY <1>1, <1>2, FreeShape
<1>5. Live' = Live \ {op.id}
  BY <1>3 DEF Forget, Live
<1>6. ASSUME verdict' = "running", heap'.lossless
      PROVE  \E st : Story(trace, st, pos) /\ At(heap', blocks', st[pos + 1])
  <2>1. heap.lossless
    BY <1>1, <1>2, <1>6, StaysLossless
  <2>2. PICK st : Story(trace, st, pos - 1) /\ Here(st[pos])
    BY <1>3, <2>1 DEF ValidInv
  <2>3. At(heap, blocks, st[pos])
    BY <1>3, <2>2 DEF Here
  <2>4. PICK t : Move(st[pos], op, t) /\ At(heap', blocks', t)
    BY <1>2, <2>3, FreeMoves
  <2>5. \E st2 : Story(trace, st2, pos) /\ st2[pos + 1] = t
    BY <1>1, <2>2, <2>4, StoryNext
  <2> QED BY <2>4, <2>5
<1>7. pos' = pos + 1
  BY <1>3
<1>8. op.type = "a" <=> op.id \notin Live
  BY <1>3
<1>9. ValidInv'
  BY <1>3, <1>4, <1>5, <1>6, <1>7, <1>8, RequestDone
<1> QED BY <1>3, <1>4, <1>9

LEMMA ReallocAllocKeeps ==
    ASSUME ValidInv, phase = "valid", pos <= Len(trace), UNCHANGED <<phase, trace>>,
           trace[pos].type = "r", ReallocAlloc(trace[pos].id, trace[pos].size),
           pos' = IF pending' = NoCall THEN pos + 1 ELSE pos
    PROVE  ValidInv' /\ Shape' /\ evals' = evals
<1> DEFINE op == trace[pos]
<1>1. Loaded /\ Shape /\ LegalTo(trace, pos - 1)
  BY DEF ValidInv
<1>2. op \in Request /\ op.id \in Ids /\ op.size \in Sizes /\ pos \in Nat /\ pos >= 1
  BY <1>1, LoadedIs
<1>3. /\ verdict = "running" /\ pending = NoCall /\ op.id \in Live
      /\ evals' = evals /\ blocks' = blocks
  BY DEF ReallocAlloc, Running
<1>4. Shape'
  BY <1>1, <1>2, ReallocAllocShape
<1>5. \/ pending' = NoCall /\ verdict' # "running"
      \/ pending' # NoCall /\ pending'.id = op.id /\ verdict' = "running"
  <2>1. \A p : [id |-> op.id, ptr |-> p, size |-> op.size] # NoCall
    BY DEF NoCall
  <2>2. PICK r \in ReallocCopies(heap, blocks[op.id].ptr, op.size) :
          \/ CallFailed(r, "mm_realloc failed") /\ UNCHANGED pending
          \/ /\ pending' = [id |-> op.id, ptr |-> r.ret, size |-> op.size]
             /\ UNCHANGED verdict
    BY DEF ReallocAlloc
  <2>3. CASE CallFailed(r, "mm_realloc failed") /\ UNCHANGED pending
    BY <1>3, <2>3 DEF CallFailed
  <2>4. CASE /\ pending' = [id |-> op.id, ptr |-> r.ret, size |-> op.size]
             /\ UNCHANGED verdict
    BY <1>3, <2>1, <2>4
  <2> QED BY <2>2, <2>3, <2>4
<1>6. CASE pending' = NoCall /\ verdict' # "running"
  <2>1. pos' = pos + 1
    BY <1>6
  <2>2. op.type = "a" <=> op.id \notin Live
    BY <1>3
  <2>3. ValidInv'
    BY <1>3, <1>4, <1>6, <2>1, <2>2, RequestDone
  <2> QED BY <1>3, <1>4, <2>3
<1>7. CASE pending' # NoCall /\ pending'.id = op.id /\ verdict' = "running"
  <2>1. pos' = pos /\ Loaded' /\ Live' = Live
    BY <1>1, <1>3, <1>7 DEF Loaded, Live
  <2>2. Live = LiveBy(trace, pos - 1)
    BY <1>3 DEF ValidInv
  <2>3. ASSUME heap'.lossless
        PROVE  \E st : Story(trace', st, pos' - 1) /\ Here(st[pos])'
    <3>1. heap.lossless
      BY <1>1, <1>2, <2>3, StaysLossless
    <3>2. PICK st : Story(trace, st, pos - 1) /\ Here(st[pos])
      BY <1>3, <3>1 DEF ValidInv
    <3>3. At(heap, blocks, st[pos])
      BY <1>3, <3>2 DEF Here
    <3>4. /\ Mid(heap', blocks', st[pos], op, pending'.ptr)
          /\ pending' = [id |-> op.id, ptr |-> pending'.ptr, size |-> op.size]
      BY <1>2, <1>7, <2>3, <3>3, ReallocAllocMoves
    <3>5. Here(st[pos])'
      BY <1>7, <2>1, <3>4 DEF Here
    <3> QED BY <2>1, <3>2, <3>5
  <2>4. ValidInv'
    BY <1>1, <1>4, <1>7, <2>1, <2>2, <2>3 DEF ValidInv
  <2> QED BY <1>3, <1>4, <2>4
<1> QED BY <1>5, <1>6, <1>7

LEMMA ReallocFreeKeeps ==
    ASSUME ValidInv, phase = "valid", pos <= Len(trace), UNCHANGED <<phase, trace>>,
           trace[pos].type = "r", ReallocFree,
           pos' = IF pending' = NoCall THEN pos + 1 ELSE pos
    PROVE  ValidInv' /\ Shape' /\ evals' = evals
<1> DEFINE op == trace[pos]
<1>1. Loaded /\ Shape
  BY DEF ValidInv
<1>2. op \in Request /\ op.id \in Ids /\ op.size \in Sizes /\ pos \in Nat /\ pos >= 1
  BY <1>1, LoadedIs
<1>3. pending # NoCall /\ pending' = NoCall /\ evals' = evals
  BY DEF ReallocFree
<1>4. verdict = "running" /\ pending.id \in Live /\ pending.id = op.id
  BY <1>1, <1>3 DEF Shape, ValidInv
<1>5. Shape'
  BY <1>1, ReallocFreeShape
<1>6. ASSUME verdict' = "running" PROVE Live' = Live \union {op.id}
  <2>1. \E p, n : blocks' = Record(op.id, p, n)
    BY <1>4, <1>6 DEF ReallocFree
  <2> QED BY <2>1 DEF Record, Live
<1>7. ASSUME verdict' = "running", heap'.lossless
      PROVE  \E st : Story(trace, st, pos) /\ At(heap', blocks', st[pos + 1])
  <2>1. heap.lossless
    BY <1>1, <1>2, <1>7, StaysLossless
  <2>2. PICK st : Story(trace, st, pos - 1) /\ Here(st[pos])
    BY <1>4, <2>1 DEF ValidInv
  <2>3. /\ Mid(heap, blocks, st[pos], op, pending.ptr)
        /\ pending = [id |-> op.id, ptr |-> pending.ptr, size |-> op.size]
    BY <1>3, <2>2 DEF Here
  <2>4. PICK t : Move(st[pos], op, t) /\ At(heap', blocks', t)
    BY <1>2, <1>7, <2>3, ReallocFreeMoves
  <2>5. \E st2 : Story(trace, st2, pos) /\ st2[pos + 1] = t
    BY <1>1, <2>2, <2>4, StoryNext
  <2> QED BY <2>4, <2>5
<1>8. pos' = pos + 1
  BY <1>3
<1>9. op.type # "f" /\ (op.type = "a" <=> op.id \notin Live)
  BY <1>4
<1>10. ValidInv'
  BY <1>3, <1>4, <1>5, <1>6, <1>7, <1>8, <1>9, RequestDone
<1> QED BY <1>3, <1>5, <1>10

LEMMA ValidRequestKeeps == ASSUME PhaseInv, ValidRequest PROVE PhaseInv'
<1> DEFINE op == trace[pos]
<1>1. /\ phase = "valid" /\ pos <= Len(trace) /\ UNCHANGED <<phase, trace, stats, errors, checked>>
      /\ pos' = IF pending' = NoCall THEN pos + 1 ELSE pos
      /\ \/ op.type = "a" /\ Alloc(op.id, op.size)
         \/ op.type = "r" /\ ReallocAlloc(op.id, op.size)
         \/ op.type = "r" /\ ReallocFree
         \/ op.type = "f" /\ Free(op.id)
  BY DEF ValidRequest
<1>2. ValidInv
  BY DEF PhaseInv
<1>3. ValidInv' /\ Shape' /\ evals' = evals
  <2>1. CASE op.type = "a" /\ Alloc(op.id, op.size)
    BY <1>1, <1>2, <2>1, AllocKeeps
  <2>2. CASE op.type = "r" /\ ReallocAlloc(op.id, op.size)
    BY <1>1, <1>2, <2>2, ReallocAllocKeeps
  <2>3. CASE op.type = "r" /\ ReallocFree
    BY <1>1, <1>2, <2>3, ReallocFreeKeeps
  <2>4. CASE op.type = "f" /\ Free(op.id)
    BY <1>1, <1>2, <2>4, FreeKeeps
  <2> QED BY <1>1, <2>1, <2>2, <2>3, <2>4
<1> QED BY <1>1, <1>3, CheckingKeeps

LEMMA InvalidKeeps == ASSUME PhaseInv, Invalid PROVE PhaseInv'
<1> DEFINE rec == Stats(FALSE, 0, <<0, 1>>)
<1>1. /\ phase = "valid" /\ pending = NoCall /\ phase' = "read" /\ errors' = errors + 1
      /\ stats' = Append(stats, rec) /\ checked' = checked
      /\ heap' = heap /\ pending' = pending /\ evals' = evals
  BY DEF Invalid, vars
<1>2. StatsInv /\ BetweenInv /\ Loaded /\ Shape
  BY <1>1 DEF PhaseInv, ValidInv
<1>3. Len(trace) \in Nat \ {0}
  BY <1>2 DEF Loaded
<1>4. /\ rec \in StatsRecord /\ rec.valid = FALSE /\ rec.util[1] <= rec.util[2]
  BY <1>3 DEF StatsRecord, Stats
<1>5. Len(stats) \in Nat
  BY <1>2, StatsType DEF StatsInv
<1>6. Len(stats) + 1 + Open' = evals'
  <2>1. Open = 1 /\ Open' = 0
    BY <1>1 DEF Open
  <2>2. Len(stats) + Open = evals
    BY <1>1, <1>2 DEF StatsInv
  <2> QED BY <1>1, <1>5, <2>1, <2>2
<1> HIDE DEF rec
<1>7. errors' = errors + (IF rec.valid THEN 0 ELSE 1)
  BY <1>1, <1>4
<1>8. StatsInv'
  BY <1>1, <1>2, <1>4, <1>6, <1>7, StatsAppended
<1>9. BetweenInv'
  <2>1. Typed(heap) /\ evals \in 0..MaxEvals
    BY <1>2 DEF Shape
  <2> QED BY <1>1, <2>1 DEF BetweenInv
<1> QED BY <1>1, <1>8, <1>9 DEF PhaseInv, ValidInv, ReplayInv, UtilInv, ReplaySafe, ScoreSound

-----------------------------------------------------------------------------
(***************************************************************************)
(* The replays.                                                            *)
(***************************************************************************)
LEMMA RestartIs ==
    ASSUME Typed(heap), Restart
    PROVE  /\ Ready(heap') /\ blocks' = <<>> /\ pos' = 1 /\ Live' = {} /\ IsFiniteSet(Live')
           /\ CHUNKSIZE + 24 <= MAX_HEAP => At(heap', blocks', Begin)
<1> DEFINE r == mm_init(mem_reset_brk(heap))
<1>1. heap' = r.heap /\ blocks' = <<>> /\ pos' = 1
  BY DEF Restart
<1>2. Ready(r.heap) /\ (CHUNKSIZE + 24 <= MAX_HEAP => At(r.heap, <<>>, Begin))
  BY StartIs
<1> HIDE DEF r
<1>3. Ready(heap') /\ (CHUNKSIZE + 24 <= MAX_HEAP => At(heap', blocks', Begin))
  BY <1>1, <1>2
<1>4. blocks' = <<>>
  BY <1>1
<1>5. Live' = {}
  BY <1>4 DEF Live
<1>6. IsFiniteSet(Live')
  BY <1>5, FS_EmptySet
<1> QED BY <1>1, <1>3, <1>5, <1>6

(* What the replays of a trace may rely on.                                *)
Passed(c) ==
    /\ LegalTo(trace, Len(trace)) /\ (c.lossy \/ c.heap.lossless)
    /\ c.heap.lossless => \E st : /\ Story(trace, st, Len(trace))
                                  /\ At(c.heap, c.blocks, st[Len(trace) + 1])

LEMMA RestartReplay ==
    ASSUME Typed(heap), Restart, Loaded, trace' = trace, pending' = NoCall, Passed(checked')
    PROVE  ReplayInv'
<1>1. /\ Ready(heap') /\ blocks' = <<>> /\ pos' = 1 /\ Live' = {} /\ IsFiniteSet(Live')
      /\ CHUNKSIZE + 24 <= MAX_HEAP => At(heap', blocks', Begin)
  BY RestartIs
<1>2. Loaded'
  BY <1>1 DEF Loaded
<1>3. Live' = LiveBy(trace', pos' - 1)
  <2>1. pos' - 1 = 0
    BY <1>1
  <2>2. LiveBy(trace', 0) = {}
    BY LiveByNone
  <2> QED BY <1>1, <2>1, <2>2
<1>4. \A i \in Live' : Pointer(blocks'[i].ptr) /\ blocks'[i].size \in Sizes
  BY <1>1
<1>5. ASSUME checked'.heap.lossless
      PROVE  \E st : /\ Story(trace', st, Len(trace')) /\ At(heap', blocks', st[pos'])
                     /\ At(checked'.heap, checked'.blocks, st[Len(trace') + 1])
  <2>1. PICK st : /\ Story(trace, st, Len(trace))
                  /\ At(checked'.heap, checked'.blocks, st[Len(trace) + 1])
    BY <1>5 DEF Passed
  <2>2. st[1] = Begin /\ CHUNKSIZE + 24 <= MAX_HEAP
    BY <2>1 DEF Story
  <2> QED BY <1>1, <2>1, <2>2
<1>6. LegalTo(trace', Len(trace')) /\ (checked'.lossy \/ checked'.heap.lossless)
  BY DEF Passed
<1> QED BY <1>1, <1>2, <1>3, <1>4, <1>5, <1>6 DEF ReplayInv

LEMMA ReplayPassed ==
    ASSUME ReplayInv, phase \in {"util", "speed"}
    PROVE  Passed(checked) /\ Loaded /\ Typed(heap) /\ Ready(heap) /\ pending = NoCall
BY DEF ReplayInv, Passed, Ready

LEMMA ValidKeeps == ASSUME PhaseInv, Valid PROVE PhaseInv'
<1>1. /\ phase = "valid" /\ verdict = "running" /\ pending = NoCall /\ pos > Len(trace)
      /\ checked' = [heap |-> heap, blocks |-> blocks,
                     lossy |-> checked.lossy \/ ~heap.lossless]
      /\ phase' = "util" /\ total' = 0 /\ hwm' = 0 /\ Restart
      /\ pending' = pending /\ evals' = evals /\ trace' = trace /\ stats' = stats
      /\ errors' = errors
  BY DEF Valid, Running
<1>2. StatsInv /\ BetweenInv /\ ValidInv /\ Loaded /\ Shape /\ LegalTo(trace, pos - 1)
  BY <1>1 DEF PhaseInv, ValidInv
<1>3. Typed(heap) /\ evals \in 0..MaxEvals
  BY <1>2 DEF Shape
<1>4. Len(trace) = pos - 1 /\ Len(trace) + 1 = pos
  BY <1>1, <1>2, LoadedIs
<1>5. /\ checked'.heap = heap /\ checked'.blocks = blocks
      /\ checked'.lossy <=> (checked.lossy \/ ~heap.lossless)
  BY <1>1
<1>6. Passed(checked')
  <2>1. checked'.lossy \/ checked'.heap.lossless
    BY <1>5
  <2>2. ASSUME checked'.heap.lossless
        PROVE  \E st : /\ Story(trace, st, Len(trace))
                       /\ At(checked'.heap, checked'.blocks, st[Len(trace) + 1])
    <3>1. PICK st : Story(trace, st, pos - 1) /\ Here(st[pos])
      BY <1>1, <1>2, <1>5, <2>2 DEF ValidInv
    <3>2. At(heap, blocks, st[pos])
      BY <1>1, <3>1 DEF Here
    <3> QED BY <1>4, <1>5, <3>1, <3>2
  <2> QED BY <1>2, <1>4, <2>1, <2>2 DEF Passed
<1>7. ReplayInv'
  BY <1>1, <1>2, <1>3, <1>6, RestartReplay
<1>8. StatsInv'
  <2>1. ~checked'.lossy => ~checked.lossy
    BY <1>5
  <2>2. Open' = Open
    BY <1>1 DEF Open
  <2>3. Len(stats) + Open' = evals'
    BY <1>1, <1>2, <2>2 DEF StatsInv
  <2> QED BY <1>1, <1>2, <2>1, <2>3 DEF StatsInv
<1>9. UtilInv'
  <2>1. Ready(heap') /\ blocks' = <<>>
    BY <1>3, <1>1, RestartIs
  <2>2. SizeSum(<<>>) = 0
    <3>1. DOMAIN <<>> = {}
      OBVIOUS
    <3>2. Ledger(<<>>)
      BY <3>1, FS_EmptySet DEF Ledger
    <3>3. SizeSum(<<>>) = SumFunctionOnSet(SizesIn(<<>>), {})
      BY <3>1, <3>2, SizesAreNumbers
    <3> QED BY <3>3, SumNone
  <2>3. heap'.brk \in Nat /\ 0 <= heap'.brk
    BY <2>1 DEF Ready, Typed
  <2> QED BY <1>1, <2>1, <2>2, <2>3 DEF UtilInv
<1>10. BetweenInv'
  BY <1>1, <1>3 DEF BetweenInv
<1> QED BY <1>1, <1>7, <1>8, <1>9, <1>10 DEF PhaseInv, ValidInv, ReplaySafe, ScoreSound

(* What the allocator answers, also in a heap that has lost memory.        *)
LEMMA AnswersType ==
    ASSUME Ready(heap), NEW op \in Request,
           op.type # "a" => Pointer(blocks[op.id].ptr),
           NEW r \in Answers(heap, op)
    PROVE  /\ Ready(r.heap) /\ r.heap.brk \in Nat /\ r.heap.brk >= heap.brk
           /\ op.type # "f" => r.ret \in {NULL, Wild} \/ Pointer(r.ret)
<1>1. op.size \in Nat /\ op.size > 0 /\ op.type \in {"a", "r", "f"}
  BY SizeType DEF Request
<1>2. Typed(heap) /\ heap.brk \in Nat
  BY DEF Ready, Typed
<1> DEFINE bp == blocks[op.id].ptr
<1>3. ASSUME NEW h, Ready(h), Pointer(bp), NEW f, f = mm_free(h, bp)
      PROVE  Ready(f.heap) /\ f.heap.brk = h.brk
  <2>1. Typed(h)
    BY <1>3 DEF Ready
  <2>2. SameShape(h, f.heap)
    BY <1>3, <2>1, FreeType
  <2> QED BY <1>3, <2>1, <2>2, ShapeType
<1>4. CASE op.type = "a"
  <2>1. r = mm_malloc(heap, op.size)
    BY <1>4 DEF Answers
  <2>2. Grown(heap, r.heap) /\ (r.ret \in {NULL, Wild} \/ Pointer(r.ret))
    BY <1>1, <2>1, MallocType
  <2> QED BY <2>2 DEF Grown
<1>5. CASE op.type = "f"
  <2>1. r = mm_free(heap, bp) /\ Pointer(bp)
    BY <1>5 DEF Answers
  <2>2. Ready(r.heap) /\ r.heap.brk = heap.brk
    BY <1>3, <2>1
  <2> QED BY <1>2, <1>5, <2>2
<1>6. CASE op.type = "r"
  <2> DEFINE Freed(q) == mm_free(q.heap, bp)
             Final(q) == IF q.ret \in {NULL, Wild} THEN q
                         ELSE Result(Freed(q).heap, IF Freed(q).ret = Wild THEN Wild ELSE q.ret)
  <2>1. PICK q \in ReallocCopies(heap, bp, op.size) : r = Final(q)
    BY <1>6 DEF Answers
  <2>2. Pointer(bp) /\ bp % 8 = 0
    BY <1>6 DEF Pointer
  <2>3. Grown(heap, q.heap) /\ (q.ret \in {NULL, Wild} \/ Pointer(q.ret))
    BY <1>1, <2>2, ReallocType
  <2>4. Ready(q.heap) /\ q.heap.brk \in Nat /\ q.heap.brk >= heap.brk
    BY <2>3 DEF Grown
  <2> DEFINE f == Freed(q)
  <2>5. Ready(f.heap) /\ f.heap.brk = q.heap.brk
    BY <1>3, <2>2, <2>4
  <2> HIDE DEF f, Freed
  <2>6. CASE q.ret \in {NULL, Wild}
    <3>1. r = q
      BY <2>1, <2>6
    <3> QED BY <2>4, <2>6, <3>1
  <2>7. CASE q.ret \notin {NULL, Wild}
    <3>1. r = Result(f.heap, IF f.ret = Wild THEN Wild ELSE q.ret)
      BY <2>1, <2>7 DEF f
    <3> HIDE DEF Final
    <3>2. r.heap = f.heap /\ (r.ret = Wild \/ r.ret = q.ret)
      BY <3>1, ResultIs
    <3> QED BY <2>3, <2>4, <2>5, <2>7, <3>2
  <2> QED BY <2>6, <2>7
<1> QED BY <1>1, <1>4, <1>5, <1>6

LEMMA RequestKnown ==
    ASSUME ReplayInv, phase \in {"util", "speed"}, pos <= Len(trace)
    PROVE  /\ trace[pos].type # "a" <=> trace[pos].id \in Live
           /\ LiveBy(trace, pos) = IF trace[pos].type = "f" THEN Live \ {trace[pos].id}
                                   ELSE Live \union {trace[pos].id}
<1>1. Loaded /\ LegalTo(trace, Len(trace)) /\ Live = LiveBy(trace, pos - 1)
  BY DEF ReplayInv
<1>2. pos \in Nat /\ pos >= 1 /\ pos \in 1..Len(trace) /\ trace[pos].id \in Ids
  BY <1>1, LoadedIs
<1>3. LegalAt(trace, pos)
  BY <1>1, <1>2 DEF LegalTo
<1>4. LiveBy(trace, pos) = IF trace[pos].type = "f" THEN LiveBy(trace, pos - 1) \ {trace[pos].id}
                           ELSE LiveBy(trace, pos - 1) \union {trace[pos].id}
  BY <1>2, LiveByStep
<1> QED BY <1>1, <1>3, <1>4 DEF LegalAt

(* In a heap that lost nothing while the trace was checked no call fails.  *)
LEMMA ReplayedIs ==
    ASSUME ReplayInv, phase \in {"util", "speed"}, pos <= Len(trace), checked.heap.lossless,
           NEW r \in Answers(heap, trace[pos])
    PROVE  /\ r.ret \notin {NULL, Wild}
           /\ \E st : /\ Story(trace, st, Len(trace))
                      /\ At(r.heap, Table(blocks, trace[pos], r.ret), st[pos + 1])
                      /\ At(checked.heap, checked.blocks, st[Len(trace) + 1])
<1>1. PICK st : /\ Story(trace, st, Len(trace)) /\ At(heap, blocks, st[pos])
                /\ At(checked.heap, checked.blocks, st[Len(trace) + 1])
  BY DEF ReplayInv
<1>2. Loaded
  BY DEF ReplayInv
<1>3. pos \in 1..Len(trace) /\ trace[pos] \in Request
  BY <1>2, LoadedIs
<1>4. Move(st[pos], trace[pos], st[pos + 1])
  BY <1>1, <1>3 DEF Story
<1> DEFINE s == st[pos]
           t == st[pos + 1]
           op == trace[pos]
<1>5. At(heap, blocks, s) /\ op \in Request /\ Move(s, op, t) /\ r \in Answers(heap, op)
  BY <1>1, <1>3, <1>4
<1> HIDE DEF s, t, op
<1>6. r.ret \notin {NULL, Wild} /\ At(r.heap, Table(blocks, op, r.ret), t)
  BY <1>5, ReplayFollows
<1> QED BY <1>1, <1>6 DEF t, op

(* A request of a replay that does not fail.                               *)
LEMMA ReplayedKeeps ==
    ASSUME ReplayInv, phase \in {"util", "speed"}, pos <= Len(trace), UNCHANGED <<trace, checked>>,
           NEW r \in Answers(heap, trace[pos]), r.ret \notin {NULL, Wild}, heap' = r.heap,
           blocks' = Table(blocks, trace[pos], r.ret), pos' = pos + 1, pending' = NoCall
    PROVE  ReplayInv' /\ heap'.brk \in Nat /\ heap'.brk >= heap.brk
<1> DEFINE op == trace[pos]
<1>1. /\ Loaded /\ Ready(heap) /\ Live = LiveBy(trace, pos - 1) /\ IsFiniteSet(Live)
      /\ \A i \in Live : Pointer(blocks[i].ptr) /\ blocks[i].size \in Sizes
      /\ LegalTo(trace, Len(trace)) /\ (checked.lossy \/ checked.heap.lossless)
  BY DEF ReplayInv
<1>2. /\ Len(trace) \in Nat /\ pos \in Nat /\ pos >= 1 /\ op \in Request /\ op.size \in Sizes
      /\ pos + 1 \in 1..(Len(trace) + 1)
  BY <1>1, LoadedIs
<1>3. /\ op.type # "a" <=> op.id \in Live
      /\ LiveBy(trace, pos) = IF op.type = "f" THEN Live \ {op.id} ELSE Live \union {op.id}
  BY RequestKnown
<1>4. op.type # "a" => Pointer(blocks[op.id].ptr)
  BY <1>1, <1>3
<1>5. /\ Ready(r.heap) /\ r.heap.brk \in Nat /\ r.heap.brk >= heap.brk
      /\ op.type # "f" => r.ret \in {NULL, Wild} \/ Pointer(r.ret)
  BY <1>1, <1>2, <1>4, AnswersType
<1>6. Loaded' /\ pos' - 1 = pos
  BY <1>1, <1>2 DEF Loaded
<1> DEFINE new == blocks'
<1>7. /\ DOMAIN new = LiveBy(trace, pos) /\ IsFiniteSet(DOMAIN new)
      /\ \A i \in DOMAIN new : Pointer(new[i].ptr) /\ new[i].size \in Sizes
  <2>1. CASE op.type = "f"
    <3>1. new = Erased(blocks, op.id)
      BY <2>1 DEF Table
    <3> HIDE DEF new
    <3>2. DOMAIN new = Live \ {op.id} /\ \A j \in Live : j # op.id => new[j] = blocks[j]
      BY <3>1 DEF Live, Erased
    <3>3. IsFiniteSet(Live \ {op.id})
      BY <1>1, FS_RemoveElement
    <3> QED BY <1>1, <1>3, <2>1, <3>2, <3>3
  <2>2. CASE op.type # "f"
    <3>1. new = Noted(blocks, op.id, r.ret, op.size) /\ Pointer(r.ret)
      BY <1>5, <2>2 DEF Table
    <3> HIDE DEF new
    <3>2. /\ DOMAIN new = Live \union {op.id} /\ new[op.id].ptr = r.ret
          /\ new[op.id].size = op.size
          /\ \A j \in Live : j # op.id => new[j] = blocks[j]
      BY <3>1 DEF Live, Noted
    <3>3. IsFiniteSet(Live \union {op.id})
      BY <1>1, FS_AddElement
    <3> QED BY <1>1, <1>2, <1>3, <2>2, <3>1, <3>2, <3>3
  <2> QED BY <2>1, <2>2
<1>8. Live' = LiveBy(trace', pos' - 1) /\ IsFiniteSet(Live')
  BY <1>6, <1>7 DEF Live
<1>9. \A i \in Live' : Pointer(blocks'[i].ptr) /\ blocks'[i].size \in Sizes
  BY <1>7 DEF Live
<1>10. ASSUME checked'.heap.lossless
       PROVE  \E st : /\ Story(trace', st, Len(trace')) /\ At(heap', blocks', st[pos'])
                      /\ At(checked'.heap, checked'.blocks, st[Len(trace') + 1])
  <2>1. checked.heap.lossless
    BY <1>10
  <2>2. PICK st : /\ Story(trace, st, Len(trace))
                  /\ At(r.heap, Table(blocks, trace[pos], r.ret), st[pos + 1])
                  /\ At(checked.heap, checked.blocks, st[Len(trace) + 1])
    BY <2>1, ReplayedIs
  <2> QED BY <2>2
<1>11. Ready(heap') /\ LegalTo(trace', Len(trace')) /\ (checked'.lossy \/ checked'.heap.lossless)
  BY <1>1, <1>5
<1>12. ReplayInv'
  BY <1>6, <1>8, <1>9, <1>10, <1>11 DEF ReplayInv
<1> QED BY <1>5, <1>12

(* A story tells that all payloads are in the heap.                        *)
LEMMA FineRoom ==
    ASSUME NEW h, NEW tbl, NEW s, At(h, tbl, s)
    PROVE  h.brk \in Nat /\ SizeSum(tbl) <= h.brk
<1> DEFINE z == s.z
           top == s.end
<1>1. Fine(s) /\ tbl = s.tbl /\ h.brk + 4 = top /\ Good(h, z, s.used)
  BY DEF At
<1>2. h.brk \in Nat
  BY <1>1 DEF Good, Ready, Typed
<1>3. Chain(z, top)
  BY <1>1 DEF Fine
<1>4. Holders(tbl, z)
  <2>1. \A n \in Sizes : n \in Nat
    BY SizeType
  <2>2. Ledger(tbl)
    BY <1>1, <2>1 DEF Fine, Ledger
  <2>3. \A i \in DOMAIN tbl : tbl[i].ptr \in Blk(z) /\ tbl[i].size + 8 <= z[tbl[i].ptr]
    BY <1>1 DEF Fine
  <2>4. \A i, j \in DOMAIN tbl : tbl[i].ptr = tbl[j].ptr => i = j
    BY <1>1 DEF Fine
  <2> QED BY <2>2, <2>3, <2>4 DEF Holders
<1> HIDE DEF z, top
<1>5. SizeSum(tbl) + 24 <= top
  BY <1>3, <1>4, PayloadRoom
<1>6. SizeSum(tbl) \in Nat
  BY <1>4, SizeSumType DEF Holders
<1> QED BY <1>1, <1>2, <1>5, <1>6

(* total_size is the total of the live payloads.                           *)
LEMMA TotalIs ==
    ASSUME ReplayInv, phase \in {"util", "speed"}, pos <= Len(trace), NEW p
    PROVE  /\ SizeSum(blocks) \in Nat /\ SizeSum(Table(blocks, trace[pos], p)) \in Nat
           /\ SizeSum(Table(blocks, trace[pos], p)) = SizeSum(blocks) + Growth(trace[pos])
<1> DEFINE op == trace[pos]
           x == SizeOf(blocks, op.id)
<1>1. Loaded /\ IsFiniteSet(Live) /\ \A i \in Live : blocks[i].size \in Sizes
  BY DEF ReplayInv
<1>2. op.size \in Nat
  BY <1>1, LoadedIs, SizeType
<1>3. Ledger(blocks)
  <2>1. \A n \in Sizes : n \in Nat
    BY SizeType
  <2> QED BY <1>1, <2>1 DEF Ledger, Live
<1>4. Held(op.id) = x
  BY DEF Held, SizeOf, Live
<1>5. x \in Nat
  BY <1>3 DEF Ledger, SizeOf
<1>6. SizeSum(blocks) \in Nat
  BY <1>3, SizeSumType
<1>7. CASE op.type = "f"
  <2>1. Ledger(Erased(blocks, op.id)) /\ SizeSum(Erased(blocks, op.id)) = SizeSum(blocks) - x
    BY <1>3, SizeSumErased
  <2>2. SizeSum(Erased(blocks, op.id)) \in Nat
    BY <2>1, SizeSumType
  <2>3. Table(blocks, op, p) = Erased(blocks, op.id) /\ Growth(op) = -x
    BY <1>4, <1>7 DEF Table, Growth
  <2> HIDE DEF x, op
  <2> QED BY <1>5, <1>6, <2>1, <2>2, <2>3 DEF op
<1>8. CASE op.type # "f"
  <2>1. /\ Ledger(Noted(blocks, op.id, p, op.size))
        /\ SizeSum(Noted(blocks, op.id, p, op.size)) = SizeSum(blocks) + (op.size - x)
    BY <1>2, <1>3, SizeSumNoted
  <2>2. SizeSum(Noted(blocks, op.id, p, op.size)) \in Nat
    BY <2>1, SizeSumType
  <2>3. Table(blocks, op, p) = Noted(blocks, op.id, p, op.size) /\ Growth(op) = op.size - x
    BY <1>4, <1>8 DEF Table, Growth
  <2> HIDE DEF x, op
  <2> QED BY <1>5, <1>6, <2>1, <2>2, <2>3 DEF op
<1> QED BY <1>7, <1>8

LEMMA ReplayKeeps == ASSUME PhaseInv, Replay PROVE PhaseInv'
<1> DEFINE op == trace[pos]
<1>1. /\ phase \in {"util", "speed"} /\ pos <= Len(trace) /\ pos' = pos + 1
      /\ pending' = pending /\ evals' = evals /\ trace' = trace /\ stats' = stats
      /\ errors' = errors /\ checked' = checked
  BY DEF Replay
<1>2. PICK r \in Answers(heap, op) :
          /\ heap' = r.heap
          /\ CASE r.ret = Wild -> phase' = "undefined" /\ UNCHANGED blocks
               [] r.ret = NULL -> phase' = "app_error" /\ UNCHANGED blocks
               [] r.ret \notin {Wild, NULL} ->
                    /\ blocks' = IF op.type = "f" THEN Forget(op.id)
                                 ELSE Record(op.id, r.ret, op.size)
                    /\ UNCHANGED phase
          /\ IF phase = "util"
             THEN total' = total + Growth(op) /\ hwm' = Larger(hwm, total')
             ELSE UNCHANGED <<total, hwm>>
  BY DEF Replay
<1>3. StatsInv /\ BetweenInv /\ ReplayInv /\ UtilInv
  BY DEF PhaseInv
<1>4. pending = NoCall /\ pending' = NoCall
  BY <1>1, <1>3 DEF ReplayInv
<1>5. phase' = phase \/ phase' \in {"undefined", "app_error"}
  BY <1>2
<1>6. StatsInv'
  <2>1. ASSUME phase' \in {"read", "valid", "util", "speed"} PROVE Len(stats) + Open' = evals'
    <3>1. phase' = phase
      BY <1>5, <2>1
    <3>2. Open' = Open
      BY <3>1 DEF Open
    <3> QED BY <1>1, <1>3, <3>2 DEF StatsInv
  <2> QED BY <1>1, <1>3, <2>1, StatsSame
<1>7. BetweenInv'
  BY <1>1, <1>3, <1>5 DEF BetweenInv
<1>8. CASE r.ret \in {NULL, Wild}
  <2>1. phase' \in {"undefined", "app_error"}
    BY <1>2, <1>8
  <2>2. ~checked.heap.lossless
    BY <1>1, <1>3, <1>8, ReplayedIs
  <2> QED BY <1>1, <1>6, <1>7, <2>1, <2>2
          DEF PhaseInv, ValidInv, ReplayInv, UtilInv, ReplaySafe, ScoreSound
<1>9. CASE r.ret \notin {NULL, Wild}
  <2>1. phase' = phase /\ heap' = r.heap /\ blocks' = Table(blocks, op, r.ret)
    <3>1. /\ phase' = phase
          /\ blocks' = IF op.type = "f" THEN Forget(op.id) ELSE Record(op.id, r.ret, op.size)
      BY <1>2, <1>9
    <3> QED BY <1>2, <3>1, TableSteps DEF Table
  <2>2. ReplayInv' /\ heap'.brk \in Nat /\ heap'.brk >= heap.brk
    BY <1>1, <1>3, <1>4, <1>9, <2>1, ReplayedKeeps
  <2>3. UtilInv'
    <3>1. CASE phase = "util"
      <4>1. total' = total + Growth(op) /\ hwm' = Larger(hwm, total')
        BY <1>2, <3>1
      <4>2. /\ total = SizeSum(blocks) /\ hwm \in Nat
            /\ checked.heap.lossless => hwm <= heap.brk
        BY <1>3, <3>1 DEF UtilInv
      <4>3. total' = SizeSum(blocks') /\ total' \in Nat
        BY <1>1, <1>3, <2>1, <4>1, <4>2, TotalIs
      <4>4. hwm' \in Nat
        BY <4>1, <4>2, <4>3 DEF Larger
      <4>5. ASSUME checked'.heap.lossless PROVE hwm' <= heap'.brk
        <5>1. hwm <= heap.brk
          BY <1>1, <4>2, <4>5
        <5>2. PICK st : At(heap', blocks', st[pos'])
          BY <1>1, <2>1, <2>2, <4>5 DEF ReplayInv
        <5>3. SizeSum(blocks') <= heap'.brk
          BY <5>2, FineRoom
        <5>4. heap.brk \in Nat
          BY <1>1, <1>3 DEF ReplayInv, Ready, Typed
        <5> QED BY <2>2, <4>1, <4>2, <4>3, <5>1, <5>3, <5>4 DEF Larger
      <4> QED BY <4>3, <4>4, <4>5 DEF UtilInv
    <3>2. CASE phase # "util"
      BY <2>1, <3>2 DEF UtilInv
    <3> QED BY <3>1, <3>2
  <2> QED BY <1>1, <1>6, <1>7, <2>1, <2>2, <2>3
          DEF PhaseInv, ValidInv, ReplaySafe, ScoreSound
<1> QED BY <1>8, <1>9

LEMMA UtilEndsKeeps == ASSUME PhaseInv, UtilEnds PROVE PhaseInv'
<1> DEFINE rec == Stats(TRUE, 0, <<hwm, heap.brk>>)
<1>1. /\ phase = "util" /\ pos > Len(trace) /\ stats' = Append(stats, rec)
      /\ phase' = "speed" /\ Restart
      /\ pending' = pending /\ evals' = evals /\ trace' = trace /\ errors' = errors
      /\ checked' = checked
  BY DEF UtilEnds
<1>2. StatsInv /\ BetweenInv /\ ReplayInv /\ UtilInv
  BY DEF PhaseInv
<1>3. Passed(checked) /\ Loaded /\ Typed(heap) /\ Ready(heap) /\ pending = NoCall
  BY <1>1, <1>2, ReplayPassed
<1>4. ReplayInv'
  BY <1>1, <1>3, RestartReplay
<1>5. Len(trace) \in Nat \ {0}
  BY <1>3 DEF Loaded
<1>6. heap.brk \in Nat \ {0} /\ hwm \in Nat /\ (checked.heap.lossless => hwm <= heap.brk)
  BY <1>1, <1>2, <1>3 DEF UtilInv, Ready, Typed
<1>7. /\ rec \in StatsRecord /\ rec.valid = TRUE
      /\ rec.util[1] = hwm /\ rec.util[2] = heap.brk
  BY <1>5, <1>6 DEF StatsRecord, Stats
<1>8. ~checked.lossy => rec.util[1] <= rec.util[2]
  <2>1. ~checked.lossy => checked.heap.lossless
    BY <1>3 DEF Passed
  <2> QED BY <1>6, <1>7, <2>1
<1>9. Len(stats) + 1 + Open' = evals' /\ errors \in Nat
  <2>1. Open = 1 /\ Open' = 0
    BY <1>1 DEF Open
  <2>2. Len(stats) + Open = evals /\ errors \in Nat
    BY <1>1, <1>2 DEF StatsInv
  <2>3. Len(stats) \in Nat
    BY <1>2, StatsType DEF StatsInv
  <2> QED BY <1>1, <2>1, <2>2, <2>3
<1> HIDE DEF rec
<1>10. errors' = errors + (IF rec.valid THEN 0 ELSE 1)
  BY <1>1, <1>7, <1>9
<1>11. StatsInv'
  BY <1>1, <1>2, <1>7, <1>8, <1>9, <1>10, StatsAppended
<1>12. BetweenInv'
  BY <1>1, <1>2 DEF BetweenInv
<1> QED BY <1>1, <1>4, <1>11, <1>12 DEF PhaseInv, ValidInv, UtilInv, ReplaySafe, ScoreSound

LEMMA RunEndsKeeps == ASSUME PhaseInv, RunEnds PROVE PhaseInv'
<1>1. /\ phase = "speed" /\ phase' = phase /\ Restart /\ UNCHANGED <<stats, errors, checked>>
      /\ pending' = pending /\ evals' = evals /\ trace' = trace
  BY DEF RunEnds
<1>2. StatsInv /\ BetweenInv /\ ReplayInv
  BY DEF PhaseInv
<1>3. Passed(checked) /\ Loaded /\ Typed(heap) /\ Ready(heap) /\ pending = NoCall
  BY <1>1, <1>2, ReplayPassed
<1>4. ReplayInv'
  BY <1>1, <1>3, RestartReplay
<1>5. StatsInv'
  <2>1. Open' = Open
    BY <1>1 DEF Open
  <2>2. Len(stats) + Open' = evals'
    BY <1>1, <1>2, <2>1 DEF StatsInv
  <2> QED BY <1>1, <1>2, <2>2, StatsSame
<1>6. BetweenInv'
  BY <1>1, <1>2 DEF BetweenInv
<1> QED BY <1>1, <1>4, <1>5, <1>6 DEF PhaseInv, ValidInv, UtilInv, ReplaySafe, ScoreSound

(* The seconds of one trace are set; whether it is valid stays.            *)
LEMMA Timed ==
    ASSUME NEW tbl \in Seq(StatsRecord), NEW k, NEW n \in Nat, NEW new,
           new = [tbl EXCEPT ![k].secs = n]
    PROVE  /\ new \in Seq(StatsRecord) /\ Len(new) = Len(tbl) /\ DOMAIN new = DOMAIN tbl
           /\ \A i \in DOMAIN tbl : /\ new[i].valid = tbl[i].valid /\ new[i].util = tbl[i].util
<1>1. /\ Len(tbl) \in Nat /\ DOMAIN tbl = 1..Len(tbl)
      /\ \A i \in DOMAIN tbl : tbl[i] \in StatsRecord
  BY StatsType
<1>2. ASSUME NEW q \in StatsRecord
      PROVE  /\ [q EXCEPT !.secs = n] \in StatsRecord /\ [q EXCEPT !.secs = n].valid = q.valid
             /\ [q EXCEPT !.secs = n].util = q.util
  BY DEF StatsRecord
<1> HIDE DEF StatsRecord
<1>3. /\ DOMAIN new = 1..Len(tbl)
      /\ \A i \in 1..Len(tbl) : new[i] = IF i = k THEN [tbl[i] EXCEPT !.secs = n] ELSE tbl[i]
  BY <1>1
<1>4. \A i \in 1..Len(tbl) : /\ new[i] \in StatsRecord /\ new[i].valid = tbl[i].valid
                             /\ new[i].util = tbl[i].util
  BY <1>1, <1>2, <1>3
<1>5. new = [i \in 1..Len(tbl) |-> new[i]]
  BY <1>1
<1>6. new \in Seq(StatsRecord)
  <2> DEFINE n0 == Len(tbl)
  <2>1. n0 \in Nat /\ new = [i \in 1..n0 |-> new[i]] /\ \A i \in 1..n0 : new[i] \in StatsRecord
    BY <1>1, <1>4, <1>5
  <2> HIDE DEF n0
  <2>2. new \in [1..n0 -> StatsRecord]
    BY <2>1
  <2> QED BY <2>1, <2>2
<1>7. Len(new) = Len(tbl)
  BY <1>1, <1>3, <1>6
<1> QED BY <1>1, <1>3, <1>4, <1>6, <1>7

LEMMA SpeedEndsKeeps == ASSUME PhaseInv, SpeedEnds PROVE PhaseInv'
<1>1. /\ phase = "speed" /\ phase' = "read" /\ errors' = errors /\ checked' = checked
      /\ heap' = heap /\ pending' = pending /\ evals' = evals
      /\ \E secs \in Times : stats' = [stats EXCEPT ![Len(stats)].secs = secs]
  BY DEF SpeedEnds, vars
<1>2. StatsInv /\ BetweenInv /\ ReplayInv
  BY DEF PhaseInv
<1>3. Typed(heap) /\ pending = NoCall
  BY <1>1, <1>2, ReplayPassed
<1>4. PICK secs \in Nat : stats' = [stats EXCEPT ![Len(stats)].secs = secs]
  BY <1>1, PhaseAssumption
<1>5. /\ stats \in Seq(StatsRecord) /\ errors \in Nat /\ Cardinality(Failed(stats)) = errors
      /\ ~checked.lossy => \A i \in DOMAIN stats : stats[i].util[1] <= stats[i].util[2]
      /\ Len(stats) + Open = evals
  BY <1>1, <1>2 DEF StatsInv, Failed
<1> DEFINE old == stats
           new == stats'
           k == Len(stats)
<1>6. old \in Seq(StatsRecord) /\ new = [old EXCEPT ![k].secs = secs]
  BY <1>4, <1>5
<1> HIDE DEF old, new, k
<1>7. /\ new \in Seq(StatsRecord) /\ Len(new) = Len(old) /\ DOMAIN new = DOMAIN old
      /\ \A i \in DOMAIN old : new[i].valid = old[i].valid /\ new[i].util = old[i].util
  <2>1. new \in Seq(StatsRecord)
    BY <1>6, Timed
  <2>2. Len(new) = Len(old)
    BY <1>6, Timed
  <2>3. DOMAIN new = DOMAIN old
    BY <1>6, Timed
  <2>4. \A i \in DOMAIN old : new[i].valid = old[i].valid
    BY <1>6, Timed
  <2>5. \A i \in DOMAIN old : new[i].util = old[i].util
    BY <1>6, Timed
  <2> QED BY <2>1, <2>2, <2>3, <2>4, <2>5
<1>8. Failed(new) = Failed(old)
  BY <1>7 DEF Failed
<1>9. Open = 0 /\ Open' = 0
  BY <1>1 DEF Open
<1>10. ~checked.lossy => \A i \in DOMAIN new : new[i].util[1] <= new[i].util[2]
  BY <1>5, <1>7 DEF old
<1>11. Len(new) + Open' = evals'
  BY <1>1, <1>5, <1>7, <1>9 DEF old
<1>12. Cardinality(Failed(new)) = errors
  BY <1>5, <1>8 DEF old
<1>13. StatsInv'
  BY <1>1, <1>5, <1>7, <1>10, <1>11, <1>12 DEF StatsInv, new, Failed
<1>14. BetweenInv'
  BY <1>1, <1>2, <1>3 DEF BetweenInv
<1> QED BY <1>1, <1>13, <1>14 DEF PhaseInv, ValidInv, ReplayInv, UtilInv, ReplaySafe, ScoreSound

-----------------------------------------------------------------------------
(***************************************************************************)
(* The score.                                                              *)
(***************************************************************************)
LEMMA AtMostTimes ==
    ASSUME NEW x \in Nat, NEW y \in Nat, y > 0, NEW k \in Nat, x <= k * y
    PROVE  x \div y \in 0..k
<1> DEFINE q == x \div y
<1>1. q \in Nat /\ q * y <= x
  OBVIOUS
<1> HIDE DEF q
<1>2. ASSUME q > k PROVE FALSE
  <2>1. PICK d \in Nat : q = k + 1 + d
    <3>1. q - k - 1 \in Nat /\ q = k + 1 + (q - k - 1)
      BY <1>1, <1>2
    <3> QED BY <3>1
  <2>2. q * y = k * y + y + d * y /\ d * y \in Nat /\ k * y \in Nat /\ d * y >= 0
    BY <2>1
  <2> QED BY <1>1, <2>2
<1> QED BY <1>1, <1>2 DEF q

(* Average utilization, out of 60 points, and throughput, out of 40.       *)
UtilScore(tbl) ==
    SumFunction([i \in DOMAIN tbl |-> (60 * tbl[i].util[1]) \div tbl[i].util[2]]) \div Len(tbl)

AllOps(tbl) == SumFunction([i \in DOMAIN tbl |-> tbl[i].ops])
LibcOps(tbl) == LibcRate * SumFunction([i \in DOMAIN tbl |-> tbl[i].secs])
SpeedScore(tbl) ==
    IF AllOps(tbl) > LibcOps(tbl) THEN 40 ELSE (40 * AllOps(tbl)) \div LibcOps(tbl)

LEMMA UtilPoints ==
    ASSUME NEW tbl \in Seq(StatsRecord), Len(tbl) >= 1,
           \A i \in DOMAIN tbl : tbl[i].util[1] <= tbl[i].util[2]
    PROVE  UtilScore(tbl) \in 0..60
<1> DEFINE f == [i \in DOMAIN tbl |-> (60 * tbl[i].util[1]) \div tbl[i].util[2]]
           S == DOMAIN tbl
           n == Len(tbl)
           sum == SumFunctionOnSet(f, S)
<1>1. n \in Nat /\ IsFiniteSet(S) /\ Cardinality(S) = n
  BY StatsType
<1>2. \A i \in S : tbl[i].util[1] \in Nat /\ tbl[i].util[2] \in Nat \ {0}
  BY StatsType
<1>3. ASSUME NEW i \in S PROVE f[i] \in 0..60
  <2> DEFINE x == tbl[i].util[1]
             y == tbl[i].util[2]
  <2>1. x \in Nat /\ y \in Nat /\ y > 0 /\ x <= y
    BY <1>2
  <2>2. f[i] = (60 * x) \div y
    OBVIOUS
  <2> HIDE DEF x, y, f
  <2>3. (60 * x) \in Nat /\ 60 * x <= 60 * y
    BY <2>1
  <2> QED BY <2>1, <2>2, <2>3, AtMostTimes
<1>4. SumFunction(f) = sum
  BY DEF SumFunction
<1> HIDE DEF f, S, n
<1>5. sum \in 0..(60 * Cardinality(S))
  BY <1>1, <1>3, SumBetween
<1> HIDE DEF sum
<1>6. sum \in Nat /\ sum <= 60 * n
  BY <1>1, <1>5
<1>7. n > 0
  BY DEF n
<1>8. sum \div n \in 0..60
  BY <1>1, <1>6, <1>7, AtMostTimes
<1> QED BY <1>4, <1>8 DEF f, S, n, UtilScore

LEMMA SpeedPoints ==
    ASSUME NEW tbl \in Seq(StatsRecord), Len(tbl) >= 1
    PROVE  SpeedScore(tbl) \in 0..40
<1> DEFINE ops == AllOps(tbl)
           libc == LibcOps(tbl)
           f == [i \in DOMAIN tbl |-> tbl[i].ops]
           g == [i \in DOMAIN tbl |-> tbl[i].secs]
           S == DOMAIN tbl
           secs == SumFunctionOnSet(g, S)
<1>1. /\ IsFiniteSet(S) /\ 1 \in S
      /\ \A i \in S : f[i] \in Nat /\ f[i] > 0 /\ g[i] \in Nat
  BY StatsType
<1>2. ops = SumFunctionOnSet(f, S) /\ libc = LibcRate * secs
  BY DEF SumFunction, AllOps, LibcOps
<1>9. SpeedScore(tbl) = IF ops > libc THEN 40 ELSE (40 * ops) \div libc
  BY DEF SpeedScore
<1> HIDE DEF f, g, S, ops, libc
<1>3. ops \in Nat /\ ops >= f[1]
  BY <1>1, <1>2, SumPositive
<1>4. secs \in Nat
  BY <1>1, SumPositive
<1> HIDE DEF secs
<1>5. libc \in Nat
  <2>1. LibcRate \in Nat
    BY PhaseAssumption
  <2>2. LibcRate * secs \in Nat
    BY <1>4, <2>1
  <2> QED BY <1>2, <2>2
<1>6. ops > 0
  BY <1>1, <1>3
<1>7. CASE ops <= libc
  <2>1. libc > 0 /\ (40 * ops) \in Nat /\ 40 * ops <= 40 * libc
    BY <1>3, <1>5, <1>6, <1>7
  <2>2. (40 * ops) \div libc \in 0..40
    BY <1>5, <2>1, AtMostTimes
  <2> QED BY <1>3, <1>5, <1>7, <1>9, <2>2
<1>8. CASE ops > libc
  BY <1>8, <1>9
<1> QED BY <1>3, <1>5, <1>7, <1>8

(* The traces are those that failed and those that did not.                *)
LEMMA CorrectCount ==
    ASSUME NEW tbl \in Seq(StatsRecord)
    PROVE  LET correct == Cardinality({i \in DOMAIN tbl : tbl[i].valid})
           IN  correct \in Nat /\ Len(tbl) = correct + Cardinality(Failed(tbl))
<1> DEFINE S == DOMAIN tbl
           C == {i \in DOMAIN tbl : tbl[i].valid}
           E == Failed(tbl)
<1>1. IsFiniteSet(S) /\ Cardinality(S) = Len(tbl)
  BY StatsType
<1>2. S = C \union E /\ C \intersect E = {} /\ C \subseteq S /\ E \subseteq S
  BY DEF Failed
<1> HIDE DEF S, C, E
<1>3. IsFiniteSet(C) /\ IsFiniteSet(E)
  BY <1>1, <1>2, FS_Subset
<1>4. Cardinality(C \union E) = Cardinality(C) + Cardinality(E) - Cardinality(C \intersect E)
  BY <1>3, FS_Union
<1>5. Cardinality(C \intersect E) = 0 /\ Cardinality(C) \in Nat /\ Cardinality(E) \in Nat
  BY <1>2, <1>3, FS_EmptySet, FS_CardinalityType
<1> QED BY <1>1, <1>2, <1>4, <1>5 DEF C, E

LEMMA ScoreKeeps == ASSUME PhaseInv, Score PROVE PhaseInv'
<1> DEFINE p1 == UtilScore(stats)
           p2 == SpeedScore(stats)
           correct == Cardinality({i \in DOMAIN stats : stats[i].valid})
<1>1. /\ phase = "read" /\ phase' = "exit" /\ evals = MaxEvals
      /\ evals' = evals /\ UNCHANGED <<stats, errors, checked>>
  BY DEF Score, vars
<1>2. score' = [index |-> IF errors = 0 THEN p1 + p2 ELSE 0, correct |-> correct]
  BY DEF Score, UtilScore, SpeedScore, AllOps, LibcOps
<1>3. StatsInv /\ BetweenInv
  BY DEF PhaseInv
<1>4. /\ stats \in Seq(StatsRecord) /\ errors \in Nat /\ Cardinality(Failed(stats)) = errors
      /\ Len(stats) + Open = evals
      /\ ~checked.lossy => \A i \in DOMAIN stats : stats[i].util[1] <= stats[i].util[2]
  BY <1>1, <1>3 DEF StatsInv, Failed
<1>5. Len(stats) = MaxEvals /\ MaxEvals \in Nat /\ MaxEvals > 0
  <2>1. Open = 0
    BY <1>1 DEF Open
  <2>2. Len(stats) \in Nat
    BY <1>4, StatsType
  <2> QED BY <1>1, <1>4, <2>1, <2>2, PhaseAssumption, TraceAssumption
<1>6. correct \in Nat /\ Len(stats) = correct + errors
  BY <1>4, CorrectCount
<1>16. stats \in Seq(StatsRecord) /\ Len(stats) >= 1
  BY <1>4, <1>5
<1>7. ASSUME ~checked.lossy PROVE p1 \in 0..60
  <2>1. \A i \in DOMAIN stats : stats[i].util[1] <= stats[i].util[2]
    BY <1>4, <1>7
  <2> QED BY <1>16, <2>1, UtilPoints, Zenon
<1>8. p2 \in 0..40
  BY <1>16, SpeedPoints, Zenon
<1> HIDE DEF p1, p2, correct
<1>9. score'.index = (IF errors = 0 THEN p1 + p2 ELSE 0) /\ score'.correct = correct
  BY <1>2
<1>10. ~checked.lossy => score'.index \in 0..100
  BY <1>7, <1>8, <1>9
<1>11. errors = MaxEvals - correct
  BY <1>4, <1>5, <1>6
<1>12. score'.index > 0 => correct = MaxEvals
  BY <1>5, <1>6, <1>9, <1>11
<1>13. ScoreSound'
  BY <1>1, <1>9, <1>10, <1>11, <1>12 DEF ScoreSound
<1>14. StatsInv'
  BY <1>1, <1>3, StatsSame
<1>15. BetweenInv'
  BY <1>1, <1>3 DEF BetweenInv
<1> QED BY <1>1, <1>13, <1>14, <1>15 DEF PhaseInv, ValidInv, ReplayInv, UtilInv, ReplaySafe

-----------------------------------------------------------------------------
LEMMA PhasesStutter == PhaseInv /\ UNCHANGED pvars => PhaseInv'
<1> SUFFICES ASSUME PhaseInv, UNCHANGED pvars PROVE PhaseInv'
  OBVIOUS
<1>1. UNCHANGED <<heap, blocks, ranges, pending, verdict, evals, phase, trace, pos, total, hwm,
                  stats, errors, score, checked>>
  BY DEF pvars, vars, phases
<1>2. StatsInv'
  BY <1>1 DEF PhaseInv, StatsInv, Open
<1>3. BetweenInv'
  BY <1>1 DEF PhaseInv, BetweenInv
<1>4. Shape => Shape'
  BY <1>1, StutterShape DEF vars
<1>5. ValidInv'
  BY <1>1, <1>4 DEF PhaseInv, ValidInv, Loaded, Live, Here
<1>6. ReplayInv' /\ UtilInv'
  BY <1>1 DEF PhaseInv, ReplayInv, UtilInv, Loaded, Live
<1>7. ReplaySafe' /\ ScoreSound'
  BY <1>1 DEF PhaseInv, ReplaySafe, ScoreSound
<1> QED BY <1>2, <1>3, <1>5, <1>6, <1>7 DEF PhaseInv

LEMMA PhasesKeep == PhaseInv /\ [PhasesNext]_pvars => PhaseInv'
BY ReadTraceKeeps, ValidRequestKeeps, InvalidKeeps, ValidKeeps, ReplayKeeps, UtilEndsKeeps,
   RunEndsKeeps, SpeedEndsKeeps, ScoreKeeps, PhasesStutter DEF PhasesNext

LEMMA PhasesHold == PhaseInv => ReplaysAgree /\ ReplaySafe /\ UtilAtMostOne /\ ScoreSound
<1> SUFFICES ASSUME PhaseInv PROVE ReplaysAgree /\ ReplaySafe /\ UtilAtMostOne /\ ScoreSound
  OBVIOUS
<1>1. StatsInv /\ ReplayInv /\ UtilInv /\ ReplaySafe /\ ScoreSound
  BY DEF PhaseInv
<1>2. ASSUME phase \in {"util", "speed"}, pos > Len(trace), checked.heap.lossless
      PROVE  blocks = checked.blocks /\ heap.brk = checked.heap.brk /\ heap.lossless
  <2>1. PICK st : At(heap, blocks, st[pos]) /\ At(checked.heap, checked.blocks, st[Len(trace) + 1])
    BY <1>1, <1>2 DEF ReplayInv
  <2>2. pos = Len(trace) + 1
    BY <1>1, <1>2, LoadedIs DEF ReplayInv
  <2> DEFINE s == st[pos]
             c == checked.heap
  <2>3. At(heap, blocks, s) /\ At(c, checked.blocks, s)
    BY <2>1, <2>2
  <2> HIDE DEF s, c
  <2>4. /\ blocks = s.tbl /\ checked.blocks = s.tbl /\ heap.lossless = TRUE
        /\ heap.brk + 4 = s.end /\ c.brk + 4 = s.end
    BY <2>3 DEF At
  <2>5. heap.brk \in Nat /\ c.brk \in Nat
    BY <2>3, FineRoom
  <2>6. heap.brk = c.brk
    BY <2>4, <2>5
  <2> QED BY <2>4, <2>6 DEF c
<1>3. phase = "util" => total = SumFunction([id \in Live |-> blocks[id].size])
  BY <1>1 DEF UtilInv, SizeSum, SizesIn, Live
<1>4. ~checked.lossy => \A i \in DOMAIN stats : stats[i].util[1] <= stats[i].util[2]
  BY <1>1 DEF StatsInv
<1> QED BY <1>1, <1>2, <1>3, <1>4 DEF ReplaysAgree, UtilAtMostOne

(* The replays of a trace that eval_mm_util and eval_mm_speed make, each in *)
(* an arena full of the data of the one before, end with the blocks, the   *)
(* places and the heap size that eval_mm_valid has checked, and none of    *)
(* their calls fails; utilization is the greatest total of live payloads   *)
(* over a heap that held them all, so at most 1; the index is within 0 to  *)
(* 100 and given only if all traces are correct.  For every arena, chunk   *)
(* size, set of ids, of sizes and of traces, legal or not.  The agreement  *)
(* and the bounds hold as long as no extension of the heap loses memory.   *)
THEOREM PhasesAreSound == DriverSpec => []PhasesSound
<1> DEFINE Inv == part = "phases" => PhaseInv
<1>1. AnyInit => Inv
  BY PhasesInitInv DEF AnyInit
<1>2. Inv /\ [DriverNext]_drivervars => Inv'
  <2> SUFFICES ASSUME Inv, [DriverNext]_drivervars, part' = "phases"
               PROVE  PhaseInv'
    OBVIOUS
  <2>1. part = "phases" /\ [PhasesNext]_pvars
    <3>1. CASE MainNext
      BY <3>1 DEF MainNext
    <3>2. CASE FileNext
      BY <3>2 DEF FileNext
    <3>3. CASE ClockNext
      BY <3>3 DEF ClockNext
    <3>4. CASE UNCHANGED drivervars
      BY <3>4 DEF drivervars
    <3> QED BY <3>1, <3>2, <3>3, <3>4 DEF DriverNext
  <2>2. PhaseInv
    BY <2>1
  <2> QED BY <2>1, <2>2, PhasesKeep
<1>3. Inv => PhasesSound
  BY PhasesHold DEF PhasesSound
<1> QED BY <1>1, <1>2, <1>3, PTL DEF DriverSpec
=============================================================================
