----------------------------- MODULE CycleCount -----------------------------
(***************************************************************************)
(* The cycle accounting of the firmware (main.cpp): how measure() turns a  *)
(* 32-bit cycle counter that wraps every 45 seconds, and a millisecond     *)
(* timer, into 64-bit cycle totals for operations that may run for longer. *)
(*                                                                         *)
(* CYCLES_START reads the timer and then DWT->CYCCNT; CYCLES_ADD reads     *)
(* DWT->CYCCNT and then the timer, so the timer interval encloses the      *)
(* counter interval.  What the enclosing interval has in excess of the     *)
(* counted cycles, divided by the length of a counter period, is the       *)
(* number of times the counter wrapped.                                    *)
(*                                                                         *)
(* The counter and the timer run from the same oscillator.  The one clock  *)
(* of the model, now, counts core cycles; both are functions of it.        *)
(***************************************************************************)
EXTENDS Integers

CONSTANTS
  CounterMod,      \* DWT->CYCCNT counts modulo this (2^32)
  CyclesPerTick,   \* core cycles in one tick of the Timer (96: 1 us at 96 MHz)
  TicksPerMs,      \* Timer ticks in a millisecond (1000)
  IntMod,          \* the values of an int (2^32): Timer::read_us() returns one
  AccMod,          \* the values of a uint64_t accumulator (2^64)
  OpCycles,        \* durations, in cycles, of a crypto_* call
  MaxGap,          \* most cycles between two adjacent clock reads of a macro
  MsTimes,         \* values of the parameter ms_time (10000 and 0)
  FlagSets,        \* the sets of do_* flags of the console commands
  Phases           \* clock values at which a command may find the counter

VARIABLES
  now,             \* core cycles since the counter was last at zero
  tstart,          \* Timer::_start, in ticks
  pc, k,           \* place in measure(); k is the if (do_*) statement it is at
  flags, ms_time,  \* the arguments of measure()
  ms, t,           \* CYCLES_VARS
  n,               \* passes of the loop begun
  acc,             \* the accumulators kg, enc and dec
  began, spent     \* history: start of the running call; true cycles per op

vars == <<now, tstart, pc, k, flags, ms_time, ms, t, n, acc, began, spent>>

\* The three timed operations, in the order measure() runs them: key
\* generation, encapsulation (or signing), decapsulation (or verification).
Ops == 1..3

\* scc_ms, clocks per millisecond, as main() computes it.
scc_ms == CyclesPerTick * TicksPerMs

\* ofl_ms, milliseconds per overflow, as main() computes it.
ofl_ms == (CounterMod - 1) \div scc_ms

\* The most times the counter wraps while the Timer still fits an int.
MaxWraps == ((IntMod \div 2) * CyclesPerTick) \div CounterMod

ASSUME ClockAssumption ==
  /\ CounterMod \in Nat \ {0}
  /\ CyclesPerTick \in Nat \ {0}
  /\ TicksPerMs \in Nat \ {0}
  /\ IntMod \in Nat \ {0}
  /\ AccMod \in Nat \ {0}

ASSUME InputAssumption ==
  /\ OpCycles \subseteq Nat \ {0}
  /\ MaxGap \in Nat
  /\ MsTimes \subseteq Nat
  /\ FlagSets \subseteq SUBSET Ops
  /\ Phases \subseteq Nat

\* At 96 MHz: 48 + 3 < 44739, and 2^31 us are 2^31 * 96 < 2^64 cycles.
ASSUME HeadroomAssumption ==
  /\ MaxWraps + (2 * MaxGap) \div scc_ms + 3 < ofl_ms
  /\ (IntMod \div 2) * CyclesPerTick < AccMod

-----------------------------------------------------------------------------
\* A uint64_t.
U64(x) == x % AccMod

\* What an unsigned value becomes when it is assigned to an int.
ToInt(x) == LET u == x % IntMod IN IF u < IntMod \div 2 THEN u ELSE u - IntMod

\* C division: it truncates towards zero.
CDiv(x, d) == IF x >= 0 THEN x \div d ELSE -((-x) \div d)

\* The ticker the Timer reads, and DWT->CYCCNT.
Ticks(c) == c \div CyclesPerTick
CYCCNT(c) == c % CounterMod

\* Timer::read_ms() of a Timer started at tick s: read_us() / 1000, where
\* read_us() is an int.
ReadMs(c, s) == CDiv(ToInt(Ticks(c) - s), TicksPerMs)

Gap == 0..MaxGap

-----------------------------------------------------------------------------
Init ==
  /\ now \in Phases
  /\ tstart = 0
  /\ pc = "idle"
  /\ k = 1
  /\ flags = {}
  /\ ms_time = 0
  /\ ms = 0
  /\ t = 0
  /\ n = 0
  /\ acc = [i \in Ops |-> 0]
  /\ began = 0
  /\ spent = [i \in Ops |-> 0]

\* measure() is entered.  The console may have waited for any time, so the
\* clock is at any phase; only differences and remainders of it are read.
\* The locals ms and t are assigned before they are read; n is incremented
\* at the top of the first pass.
Begin ==
  /\ pc = "idle"
  /\ now' \in Phases
  /\ flags' \in FlagSets
  /\ ms_time' \in MsTimes
  /\ tstart' = Ticks(now')
  /\ n' = 1
  /\ acc' = [i \in Ops |-> 0]
  /\ spent' = [i \in Ops |-> 0]
  /\ k' = 1
  /\ ms' = 0 /\ t' = 0 /\ began' = 0
  /\ pc' = "if"

\* On to the next if (do_*) statement, or to the loop condition.
Advance ==
  IF k = 3 THEN pc' = "while" /\ k' = k ELSE pc' = "if" /\ k' = k + 1

Skip ==
  /\ pc = "if"
  /\ k \notin flags
  /\ Advance
  /\ UNCHANGED <<now, tstart, flags, ms_time, ms, t, n, acc, began, spent>>

\* CYCLES_START: ms = timer.read_ms()
StartMs ==
  /\ pc = "if"
  /\ k \in flags
  /\ ms' = ReadMs(now, tstart)
  /\ \E g \in Gap : now' = now + g
  /\ pc' = "start_t"
  /\ UNCHANGED <<tstart, k, flags, ms_time, t, n, acc, began, spent>>

\* CYCLES_START: t = DWT->CYCCNT, and then the crypto_* call.
StartT ==
  /\ pc = "start_t"
  /\ t' = CYCCNT(now)
  /\ began' = now
  /\ \E d \in OpCycles : now' = now + d
  /\ pc' = "add_t"
  /\ UNCHANGED <<tstart, k, flags, ms_time, ms, n, acc, spent>>

\* Mutant of AddT: the difference is taken in 64 bits, not in 32.
AddT_Wide ==
  /\ pc = "add_t"
  /\ t' = U64(CYCCNT(now) - t)
  /\ acc' = [acc EXCEPT ![k] = U64(@ + t')]
  /\ spent' = [spent EXCEPT ![k] = @ + (now - began)]
  /\ \E g \in Gap : now' = now + g
  /\ pc' = "add_ms"
  /\ UNCHANGED <<tstart, k, flags, ms_time, ms, n, began>>

\* CYCLES_ADD: t = DWT->CYCCNT - t; cc += t
AddT ==
  /\ pc = "add_t"
  /\ t' = (CYCCNT(now) - t) % CounterMod
  /\ acc' = [acc EXCEPT ![k] = U64(@ + t')]
  /\ spent' = [spent EXCEPT ![k] = @ + (now - began)]
  /\ \E g \in Gap : now' = now + g
  /\ pc' = "add_ms"
  /\ UNCHANGED <<tstart, k, flags, ms_time, ms, n, began>>

\* Mutant of AddMs: the counted cycles are not taken off the milliseconds.
AddMs_NoResidue ==
  /\ pc = "add_ms"
  /\ ms' = ReadMs(now, tstart) - ms
  /\ acc' = [acc EXCEPT ![k] = U64(@ + (U64(ms') \div ofl_ms) * CounterMod)]
  /\ Advance
  /\ UNCHANGED <<now, tstart, flags, ms_time, t, n, began, spent>>

\* CYCLES_ADD: ms = timer.read_ms() - ms; ms -= t / scc_ms;
\* cc += (uint64_t) (ms / ofl_ms) << 32.  ofl_ms is a uint64_t, so a
\* negative ms is divided as the large unsigned number it converts to.
AddMs ==
  /\ pc = "add_ms"
  /\ ms' = ReadMs(now, tstart) - ms - t \div scc_ms
  /\ acc' = [acc EXCEPT ![k] = U64(@ + (U64(ms') \div ofl_ms) * CounterMod)]
  /\ Advance
  /\ UNCHANGED <<now, tstart, flags, ms_time, t, n, began, spent>>

\* Mutants of While: microseconds are compared with milliseconds; the
\* pass is not counted.
While_Micros ==
  /\ pc = "while"
  /\ ms' = ToInt(Ticks(now) - tstart)
  /\ k' = 1
  /\ IF ms' < ms_time THEN pc' = "if" /\ n' = n + 1
                      ELSE pc' = "idle" /\ n' = n
  /\ UNCHANGED <<now, tstart, flags, ms_time, t, acc, began, spent>>

While_NotCounted ==
  /\ pc = "while"
  /\ ms' = ReadMs(now, tstart)
  /\ k' = 1
  /\ pc' = IF ms' < ms_time THEN "if" ELSE "idle"
  /\ UNCHANGED <<now, tstart, flags, ms_time, t, n, acc, began, spent>>

\* ms = timer.read_ms(); } while (ms < ms_time); and the next pass, or the
\* end of the measurement.
While ==
  /\ pc = "while"
  /\ ms' = ReadMs(now, tstart)
  /\ k' = 1
  /\ IF ms' < ms_time THEN pc' = "if" /\ n' = n + 1
                      ELSE pc' = "idle" /\ n' = n
  /\ UNCHANGED <<now, tstart, flags, ms_time, t, acc, began, spent>>

\* What is printed then: a row for each accumulator that is not zero, with
\* the average over the passes.
Rows == {i \in Ops : acc[i] > 0}
Average(i) == acc[i] \div n

Next == Begin \/ Skip \/ StartMs \/ StartT \/ AddT \/ AddMs \/ While

Spec == Init /\ [][Next]_vars

-----------------------------------------------------------------------------
(* Properties *)

TypeOK ==
  /\ now \in Nat
  /\ tstart \in Nat
  /\ pc \in {"idle", "if", "start_t", "add_t", "add_ms", "while"}
  /\ k \in Ops
  /\ flags \in SUBSET Ops
  /\ ms_time \in Nat
  /\ ms \in Int
  /\ t \in 0..(CounterMod - 1)
  /\ n \in Nat
  /\ acc \in [Ops -> 0..(AccMod - 1)]
  /\ began \in Nat
  /\ spent \in [Ops -> Nat]

\* Timer::read_us() has not run over the range of an int (36 minutes).
TimerFits == Ticks(now) - tstart < IntMod \div 2

\* While the Timer fits an int, every accumulator holds exactly the cycles
\* spent between the two counter reads of its operation: every counter wrap
\* is added back (main.cpp:52-58), however the millisecond readings round
\* and whatever the delays between the reads of a macro.
CyclesExact == TimerFits /\ pc # "add_ms" => acc = spent

\* The clock values at which the read before the one at c can have been.
Before(c) == {b \in (c - MaxGap)..c : b >= 0 /\ tstart <= Ticks(b)}

\* How the locals of measure() relate to the clock between the reads of its
\* macros: ms is a reading from at most MaxGap before the counter was read,
\* t what the counter showed, then how far it got modulo its period; what the
\* accumulator lacks after AddT is whole periods; and no operation has spent
\* more than the time since the Timer was started (main.cpp:42-58).
ClockInv ==
  LET origin == CyclesPerTick * tstart
  IN  /\ tstart <= Ticks(now)
      /\ \A i \in Ops : spent[i] <= now - origin
      /\ pc = "start_t" => \E c \in Before(now) : ms = ReadMs(c, tstart)
      /\ pc \in {"add_t", "add_ms"} =>
           /\ began <= now
           /\ \E c \in Before(began) : ms = ReadMs(c, tstart)
      /\ pc = "add_t" => t = CYCCNT(began) /\ spent[k] <= began - origin
      /\ pc = "add_ms" =>
           \E e \in Before(now) :
             /\ began <= e
             /\ t = (e - began) % CounterMod
             /\ TimerFits =>
                  spent = [acc EXCEPT ![k] =
                             @ + CounterMod * ((e - began) \div CounterMod)]

\* When a measurement is over, the rows it prints are those of the
\* operations the command asked for, and every average lies between the
\* shortest and the longest time a call takes (main.cpp:393-403).
ReportFaithful ==
  pc = "idle" /\ n > 0 /\ TimerFits =>
    /\ Rows = flags
    /\ \A i \in Rows : /\ \E d \in OpCycles : d <= Average(i)
                       /\ \E d \in OpCycles : d >= Average(i)

\* ms_time milliseconds of Timer ticks have gone by.
TimeUp == Ticks(now) - tstart >= ms_time * TicksPerMs

\* measure() never returns before ms_time milliseconds of Timer ticks have
\* gone by since it reset the Timer, even when read_us() has run over the
\* range of an int in between; and while it has not, no pass is begun when
\* they have (main.cpp:386-388).
MeasureOnTime ==
  [][pc = "while" => /\ pc' = "idle" => TimeUp
                     /\ pc' = "if" /\ TimerFits => ~TimeUp]_vars

=============================================================================
