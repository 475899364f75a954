---------------------------- MODULE EnergyMeter ----------------------------
(***************************************************************************)
(* How the SUPPERCOP programs measure (suppercop/include/measure.h and     *)
(* measure-anything.c): ENERGY_BEGIN and ENERGY_END around a loop of timed *)
(* calls, energy_uj(), and printentry().                                   *)
(*                                                                         *)
(* The energy counter (RAPL, read from a file) is external.  It is updated *)
(* about every millisecond, so a reading may be behind by the energy of    *)
(* one, it counts modulo RaplMod, and reading it may fail.                 *)
(***************************************************************************)
EXTENDS Integers, FiniteSets

CONSTANTS
  TIMINGS,         \* the calls that are timed, one less than those made
  MinCycles,       \* cycles that a measurement takes at least (10^9)
  RaplMod,         \* the values of energy_uj, max_energy_range_uj + 1
  Lag,             \* microjoules by which a reading may be behind
  OpCycles,        \* cycles that a call takes
  OpEnergy,        \* microjoules that it takes
  Phases,          \* microjoules on the counter when a measurement begins
  Leftover         \* what energy_uj() may return when reading it fails: 0, or
                   \* what is left in its buffer (n is -1, and not looked at)

ASSUME MeterAssumption ==
  /\ TIMINGS \in Nat \ {0} /\ MinCycles \in Nat \ {0}
  /\ RaplMod \in Nat \ {0} /\ Lag \in Nat
  /\ OpCycles \subseteq Nat \ {0} /\ OpEnergy \subseteq Nat /\ Phases \subseteq Nat
  /\ Leftover \subseteq Int

\* 7, 15 or 31.
ASSUME OddAssumption == TIMINGS % 2 = 1

VARIABLES
  energy_fd,       \* whether energy_uj could be opened
  pc,
  num, nj, cc0, cyc,   \* ENERGY_VARS
  i, cycles,       \* the loop of timed calls and its array
  entry,           \* the figure that printentry() puts first
  now, joules,     \* cpucycles(), and the microjoules spent
  shown,           \* the microjoules of the last good reading
  from, at,        \* history: joules and shown at ENERGY_BEGIN
  calls,           \* history: calls made since
  good             \* history: no reading has failed since

locals == <<num, nj, cc0, cyc>>
world == <<now, joules, shown>>
history == <<from, at, calls, good>>
vars == <<energy_fd, pc, locals, i, cycles, entry, world, history>>

Calls == 0..TIMINGS

-----------------------------------------------------------------------------
\* What energy_uj() may return, and whether it is a reading, with j microjoules
\* spent and the last reading at low.
EnergyUj(j, low) ==
  IF energy_fd
    THEN {[uj |-> s % RaplMod, ok |-> TRUE, shown |-> s] : s \in {x \in low..j : x >= j - Lag}}
         \cup {[uj |-> x, ok |-> FALSE, shown |-> low] : x \in Leftover}
    ELSE {[uj |-> 0, ok |-> FALSE, shown |-> low]}

\* C division: it truncates towards zero.
CDiv(x, d) == IF x >= 0 THEN x \div d ELSE -((-x) \div d)

\* The indices of the first mlen figures; belowj and abovej of one of them.
Index(mlen) == 0..(mlen - 1)
Below(m, mlen, j) == {x \in Index(mlen) : m[x] < m[j]}
Above(m, mlen, j) == {x \in Index(mlen) : m[x] > m[j]}

\* belowj * 2 < mlen && abovej * 2 < mlen
Middle(m, mlen, j) ==
  /\ Cardinality(Below(m, mlen, j)) * 2 < mlen
  /\ Cardinality(Above(m, mlen, j)) * 2 < mlen

\* Mutant of PrintEntry: a figure as large as m[j] counts as below it.
PrintEntry_Strict(m, mlen) ==
  LET found == {j \in 0..(mlen - 2) :
                  2 * Cardinality({x \in Index(mlen) : m[x] <= m[j]}) < mlen}
  IN  m[IF found = {} THEN mlen - 1 ELSE CHOOSE j \in found : \A k \in found : j <= k]

\* The figure that printentry() prints first: the first in the middle of the
\* others, or else the last.
PrintEntry(m, mlen) ==
  LET found == {j \in 0..(mlen - 2) : Middle(m, mlen, j)}
  IN  m[IF found = {} THEN mlen - 1 ELSE CHOOSE j \in found : \A k \in found : j <= k]

-----------------------------------------------------------------------------
Init ==
  /\ energy_fd \in BOOLEAN
  /\ pc = "begin"
  /\ num = 0 /\ nj = 0 /\ cc0 = 0 /\ cyc = 0
  /\ i = 0 /\ cycles = [c \in Calls |-> 0]
  /\ entry = 0
  /\ now = 0 /\ joules \in Phases /\ shown = joules
  /\ from = 0 /\ at = 0 /\ calls = 0 /\ good = TRUE

\* ENERGY_BEGIN.  Before it anything may have run.  Of the clock only
\* differences are used, so it is set to 0 here, with the array; of the
\* energy the differences and the phase of the counter.
EnergyBegin ==
  /\ pc = "begin"
  /\ num' = 0
  /\ joules' \in Phases
  /\ \E x \in EnergyUj(joules', 0) :
       nj' = x.uj /\ good' = x.ok /\ shown' = x.shown /\ at' = x.shown
  /\ now' = 0 /\ cc0' = 0 /\ cyc' = 0
  /\ i' = 0 /\ cycles' = [c \in Calls |-> 0] /\ entry' = 0
  /\ from' = joules' /\ calls' = 0
  /\ pc' = "call"
  /\ UNCHANGED energy_fd

\* Mutant of Call: a call beyond the end of the array.
Call_OneMore ==
  /\ pc = "call" /\ i <= TIMINGS + 1
  /\ cycles' = [cycles EXCEPT ![i] = now]
  /\ \E d \in OpCycles : now' = now + d
  /\ \E e \in OpEnergy : joules' = joules + e
  /\ i' = i + 1
  /\ calls' = calls + 1
  /\ UNCHANGED <<energy_fd, pc, locals, entry, shown, from, at, good>>

\* cycles[i] = cpucycles(), and a call of the operation.
Call ==
  /\ pc = "call" /\ i <= TIMINGS
  /\ cycles' = [cycles EXCEPT ![i] = now]
  /\ \E d \in OpCycles : now' = now + d
  /\ \E e \in OpEnergy : joules' = joules + e
  /\ i' = i + 1
  /\ calls' = calls + 1
  /\ UNCHANGED <<energy_fd, pc, locals, entry, shown, from, at, good>>

\* Mutant of EnergyEnd: the call that is not timed is not counted.
EnergyEnd_Timed ==
  /\ pc = "call" /\ i > TIMINGS
  /\ num' = num + TIMINGS
  /\ cyc' = now - cc0
  /\ IF cyc' < MinCycles THEN pc' = "call" ELSE pc' = "finish"
  /\ i' = 0
  /\ UNCHANGED <<energy_fd, nj, cc0, cycles, entry, world, history>>

\* ENERGY_END, up to its loop condition.
EnergyEnd ==
  /\ pc = "call" /\ i > TIMINGS
  /\ num' = num + TIMINGS + 1
  /\ cyc' = now - cc0
  /\ IF cyc' < MinCycles THEN pc' = "call" ELSE pc' = "finish"
  /\ i' = 0
  /\ UNCHANGED <<energy_fd, nj, cc0, cycles, entry, world, history>>

\* Mutant of Finish: divided before it is multiplied.
Finish_DividesFirst ==
  /\ pc = "finish"
  /\ \E x \in EnergyUj(joules, shown) :
       /\ nj' = 1000 * CDiv(x.uj - nj, num)
       /\ good' = (good /\ x.ok) /\ shown' = x.shown
  /\ cyc' = cyc \div num
  /\ pc' = "print"
  /\ UNCHANGED <<energy_fd, num, cc0, i, cycles, entry, now, joules, from, at, calls>>

\* The rest of ENERGY_END: nj = energy_uj() - nj; nj = 1000 * nj / num;
\* cyc /= num.
Finish ==
  /\ pc = "finish"
  /\ \E x \in EnergyUj(joules, shown) :
       /\ nj' = CDiv(1000 * (x.uj - nj), num)
       /\ good' = (good /\ x.ok) /\ shown' = x.shown
  /\ cyc' = cyc \div num
  /\ pc' = "print"
  /\ UNCHANGED <<energy_fd, num, cc0, i, cycles, entry, now, joules, from, at, calls>>

\* for (i = 0;i < TIMINGS;++i) cycles[i] = cycles[i + 1] - cycles[i];
Differences(c) == [j \in Index(TIMINGS) |-> c[j + 1] - c[j]]

\* The differences of the array are printed.  The single figures nj and cyc
\* are printed as they are.
PrintFigures ==
  /\ pc = "print"
  /\ entry' = PrintEntry(Differences(cycles), TIMINGS)
  /\ pc' = "begin"
  /\ UNCHANGED <<energy_fd, locals, i, cycles, world, history>>

Next == EnergyBegin \/ Call \/ EnergyEnd \/ Finish \/ PrintFigures

Spec == Init /\ [][Next]_vars

-----------------------------------------------------------------------------
(* Properties *)

TypeOK ==
  /\ {energy_fd, good} \subseteq BOOLEAN
  /\ pc \in {"begin", "call", "finish", "print"}
  /\ {num, cc0, cyc, now, joules, shown, from, at, calls} \subseteq Nat
  /\ nj \in Int /\ entry \in Int
  /\ i \in 0..(TIMINGS + 1)
  /\ cycles \in [Calls -> Nat]

\* The counter has passed from its largest value to 0 between the readings.
Wrapped == shown \div RaplMod # at \div RaplMod

\* The figure in nanojoules is "an average by dividing with the number of
\* iterations" (suppercop/README.md:28-30): that of the calls really made, but
\* for a truncation and for the energy by which a reading may be behind.  It
\* is claimed when both readings are good and the counter has not wrapped
\* between them; without a counter the figure is 0, and no guess.
EnergyFaithful ==
  pc = "print" =>
    /\ good /\ ~Wrapped => /\ calls * nj <= 1000 * (joules - from + Lag)
                           /\ calls * (nj + 1) > 1000 * (joules - from - Lag)
    /\ ~energy_fd => nj = 0

\* The calls of a measurement take MinCycles or more, and the figure in cycles
\* is their average, rounded down (suppercop/README.md:28-30).
CyclesFaithful ==
  pc = "print" => /\ now >= MinCycles
                  /\ calls * cyc <= now
                  /\ now < calls * (cyc + 1)

\* The figure that is printed first for the timed calls is their median: as
\* TIMINGS is odd, fewer than half of them are shorter, and fewer than half
\* are longer (measure-anything.c:172-180).
MedianRight ==
  LET took == Differences(cycles)
  IN  pc = "begin" /\ calls > 0 =>
        \E j \in Index(TIMINGS) :
          /\ entry = took[j]
          /\ 2 * Cardinality({x \in Index(TIMINGS) : took[x] < entry}) < TIMINGS
          /\ 2 * Cardinality({x \in Index(TIMINGS) : took[x] > entry}) < TIMINGS

=============================================================================
