# A TLA+ model of pqps

pqps (the "PQ Power Sandwich") measures how many cycles and how many joules
post-quantum algorithms take. A firmware for an STM32F411 board runs an
algorithm on command; a PowerShield between the board and its supply measures
the current; a Python script drives both over serial lines; another script
turns the logs into tables. A second part of the repository, `suppercop/`,
does the same on x86 machines with the RAPL energy counters.

The numbers that come out are hard to check: a cycle count that is 2^32 too
high now and then, an energy filed under the wrong operation, or a measurement
of how long it takes to *reject* a ciphertext all look like plausible results.
This directory holds TLA+ modules of the code, TLC configurations that check
them on small instances, and proofs of the theorems that matter most.

To check it: `tlc -config CycleCount.cfg MCCycleCount` and likewise for the
other configurations (table below); `tlapm CycleCountProofs.tla` for proofs.

## 1. Inventory

| Component | State it keeps | Operations | Talks to |
|---|---|---|---|
| Cycle accounting (`main.cpp:39-58`, 186-263, 339-408) | `ms`, `t`, accumulators `kg`, `enc`, `dec`, pass count `n`; the hardware's `DWT->CYCCNT` and `Timer` | `CYCLES_START`, `CYCLES_ADD`, the loop of `measure()` | the counters, by reading them one after the other |
| Firmware for a KEM (`main.cpp:265-408`, 410-528) | keys, ciphertext, two secrets, `init_kem`, the seed | `main()`'s switch, `test_alg()`, `measure()`, `zzz_ms()` | the UART (one-byte receive register), the pulse on D7, `randombytes()`, the linked KEM |
| Firmware for signatures (`main.cpp:107-263`, 410-528) | keys, message, signed message, `init_sign` | the same | the same |
| `randombytes()` (`randombytes.c`) | `fibo_a`, `fibo_b` | `my_random_seed()`, `randombytes()` | called by the firmware and by the algorithm |
| `psctrl.py` | what it has read, whether the target is a KEM | `targ_get_str()`, `pwsh_get_str()`, `pwsh_get_ok()`, the sequence of measurements | two serial lines |
| PowerShield (external) | trigger source, armed, acquiring | answers commands, acquires for ten seconds from an edge on D7, cuts the target's power | the script, D7 |
| `parselog.py` | per-file lists, a global `cclk` | one pass over a log, best run per algorithm | reads what `psctrl.py` wrote |
| `test_alg.sh`, `Makefile` | the image in `BUILD`, the log | build, flash, measure each algorithm, kill what takes 1000 s | `psctrl.py`, and what it left behind the last time |
| `suppercop/measure-anything.c`, `include/measure.h` | RAPL file, arrays of cycles and energies | `energy_uj()`, the `ENERGY_*` macros, `printentry()` | `/sys/.../energy_uj` |
| `suppercop/crypto_*/measure.c` | message buffers and lengths | one loop of timed calls per primitive type | `measure-anything.c` |
| `suppercop/read_data.py` | measurements by name | grouping, median-filtered averages, tables | SUPERCOP data files |
| `mecc/` wrappers | none | KEM and signature interfaces of micro-ecc | micro-ecc |

Hard behaviours, by component:

- *Cycle accounting.* `DWT->CYCCNT` wraps after 44.7 s, within a call or
  several times in it. The number of wraps is recovered from a millisecond
  timer that rounds down, that is read at another moment, and that is not
  commensurable with the period. It must be right for every phase of both
  clocks. Signed and unsigned integers of two widths are mixed.
- *Firmware.* Any command may come at any time, also while another runs; each
  works on what the ones before it left in global buffers; the algorithm may
  fail in the middle. Nothing but the operations may run in the measured window.
- *`randombytes()`.* Reproducibility depends on all of its state being set by
  the seed, and bad seeds make additive generators degenerate.
- *`psctrl.py`.* Two peers, two lines, reads that end by silence, replies that
  may come before or after the script begins to look for them, a reset of the
  target in the middle, and no sequence numbers: energy and operation are
  matched by order alone.
- *SUPPERCOP.* An energy counter that lags, wraps and may be unreadable; averages
  over a number of calls that is known only afterwards; a `do` loop hidden in two
  macros around each program's own loop; buffers that decryption writes to; two
  lengths in one label; a reader that collects what nine runs printed.
- *`test_alg.sh`.* A timeout that kills a script anywhere in a conversation of
  four parties and starts the next one in what that leaves; builds that fail.
- *`parselog.py`.* Positional matching, logs that were cut short, a minimum over
  figures that may be missing, and a global that every file sets.

What makes each correct is stated as properties below; `PROJECT.json` lists the
hazards at their lines with the properties that watch over them.

## 2. Modules

    Commands ── BenchConsole ──── PsCtrl ── Batch ── MCBatch
        │           │               │         │
        ├───────────┼────────── MeasureLog ───┼─ ParseLog ── MCParseLog
        │           │                         └──────┴────── LogProofs
        │           │ (instantiated by BenchMain)
        └────── BenchMain ──┬── KemBench  ── MCKemBench
                    │       └── SignBench ── MCSignBench
                    └── BenchMainProofs ──┬── KemBenchProofs  (and KemBench)
                                          └── SignBenchProofs (and SignBench)

    CycleCount      ── MCCycleCount         CycleCountProofs
    FiboRand        ── MCFiboRand           FiboRandProofs
    SupercopMeasure ── MCSupercopMeasure    SupercopMeasureProofs
    EnergyMeter     ── MCEnergyMeter  ─┐
    ReadData        ── MCReadData     ─┴─   FigureProofs

`Batch`, `PsCtrl` and `BenchConsole` together are the whole measurement set-up:
the shell script, the Python script, two serial lines, the firmware and the
PowerShield. What comes out of it, described in `MeasureLog`, is what goes into
`ParseLog`. `KemBench` and `SignBench` are shown to implement the firmware that
it assumes.

- **CycleCount** is `measure()` seen from its clocks. One variable, `now`,
  counts core cycles since `CYCCNT` was zero; the counter is `now % CounterMod`
  and the Timer `now \div CyclesPerTick`. Between any two clock reads `now`
  grows by a chosen amount. `StartMs`, `StartT`, `AddT`, `AddMs` are the four
  reads of the macros, in the order of the code; `While` is the loop condition.
  `ToInt`, `U64` and `CDiv` are the C conversions. `spent` is a history
  variable: what really went by. The Timer is external (mbed), taken as its
  interface in `main.cpp` uses it: `read_us()` is an `int`, `read_ms()` a
  thousandth of it.
- **Commands** are the command bytes: which `do_*` flags each sets, which are
  tests, which run for ten seconds.
- **BenchMain** is `main()`, `zzz_ms()`, and what `test_alg()` and `measure()`
  have in common in their two versions. `pc` names the next call or printed
  line. A clock reading that only decides whether a loop goes on is a choice,
  bounded by `MaxPass`; what else clocks do is CycleCount's subject.
- **KemBench** and **SignBench** add the calls to the algorithm. Contents of
  buffers are symbolic: what a call makes is named after the seed and the number
  of draws (randombytes is deterministic), a ciphertext is the key and the secret
  it carries, a signature the key and the message, `Junk` is what a failed call
  leaves. `Faults` says how the algorithm may fail.
- **BenchConsole** is the abstract firmware: the lines and pulses it owes for
  every byte, nothing about what is computed. KemBench and SignBench implement
  it (`ImplementsConsole`, under the refinement mapping `Todo` of BenchMain),
  and **PsCtrl** uses it as the target, so that the interplay of script, lines
  and shield is checked against a firmware that both real ones refine. The lists
  of lines in it are literals, so that the refinement can also be proved.
- **PsCtrl** is the script as a list of statements (`Script`), each of which the
  `Host` actions interpret: send, or read until there has been a second of
  silence and then look at what has come. `WireByte` moves a byte into the
  one-byte register, `Shield` actions are the external PowerShield. `_` stands for
  the space in what the script sends. `log` is
  what the script has printed; it grows line by line as the script reads, while
  the real one prints what it read when there is silence, so that a killed one
  leaves no more than the model's, and a beginning of it.
- **MeasureLog** says which sequences of banners, reports and rows are logs of a
  target: the contract between the two Python scripts.
- **Batch** is `test_alg.sh` around PsCtrl: `Build` begins a turn of its loop,
  `Skip` and `FlashAndRun` end it or start the script, `Timeout` kills it at any
  statement. Board, lines and shield stay as they are; only flashing restarts the
  target. `hex` is the image in `BUILD`.
- **ParseLog** is `parselog.py`: `Open`, one action per kind of line, and `Close`,
  which is all that happens at the end of a file. The lines of a file are chosen
  as they are read, within `IsLog`. Figures carry the file and the command they
  come from.
- **FiboRand** is `randombytes.c` with its word size, constants and shifts as
  parameters.
- **EnergyMeter** is `ENERGY_BEGIN`, a loop of timed calls, `ENERGY_END` and
  `printentry()`. `joules` counts the microjoules spent; the counter is external:
  a reading shows the value of at most `Lag` microjoules ago, modulo `RaplMod`,
  never less than an earlier one. A failed reading returns one of `Leftover`.
  `from`, `at`, `calls` and `good` are history.
- **SupercopMeasure** is the six `measure.c`, which differ in few lines, as one
  module: `prim` says which, and `mlen16` whether it is the variant of one
  length. `pc` is the statement, `block` the block of timed calls it is in:
  `seal` is whatever makes something from a message (encapsulate, sign, encrypt,
  hash, stream), `open` its inverse, `forged` the decryption of a forgery. What
  a block does with clocks is EnergyMeter; here it is some passes of calls. A
  buffer holds `good`, `stale` or `forged` contents.
- **ReadData** is `read_data.py`: `data` is its dictionary of dictionaries, an
  action reads a line or prints a row, and `njs` and `cycs` are what was really
  read, with the number of the `_njoule` line a value belongs to. A program prints
  `_njoule` and then `_avgcyc`; a file may be cut between the two (`CutFile`).
  `Sums` is the loop of `mfavg()` as a function of the values it has been through.

## 3. Runs

| Run | Configuration | Shows |
|---|---|---|
| cycles | `CycleCount.cfg` | Totals exact, averages right, measurement ends on time |
| kem | `KemBench.cfg` | The KEM firmware under all sequences of three bytes |
| sign | `SignBench.cfg` | The signature firmware likewise |
| fibo | `FiboRand.cfg` | The generator on 8-bit words |
| batch | `Batch.cfg` | Batch, script, target and shield together |
| parselog | `ParseLog.cfg` | What the log parser makes of such logs |
| energy | `EnergyMeter.cfg` | Averages and medians of the SUPPERCOP programs |
| supercop | `SupercopMeasure.cfg` | Their loops, buffers and labels |
| readdata | `ReadData.cfg` | What the reader makes of their output |
| kem_keypair | `KemBenchKeypair.cfg` | Finding 1 (violation) |
| kem_mismatch | `KemBenchMismatch.cfg` | Finding 2 (violation) |
| readdata_collect | `ReadDataCollect.cfg` | Finding 3 (violation) |

**cycles.** A period of 64 cycles, a millisecond of 4 cycles, so that `ofl_ms`
is 15 and not a divisor of anything useful; calls of 21, 63 and 128 cycles
(within a period; one short of one, which rounding could take for one; exactly
two periods, where the difference of counter reads is 0); phases on both sides
of a wrap; gaps of up to half a millisecond between the reads of a macro. The
theorem removes all these bounds. Properties:
`CyclesExact` (accumulators equal the true cycles), `ClockInv` (how locals
relate to the clock between reads; the inductive invariant), `ReportFaithful`
(exactly the rows asked for, and averages within the range of the calls),
`MeasureOnTime` (no early return; no pass begun late).

**kem.** Three bytes are enough for any two commands to precede a third, with a
byte that arrives while a command runs among them (a newline, as psctrl.py sends
it, too). Two passes of a loop distinguish the first from later ones. Properties:
`KeypairBeforeUse`; `WindowClean` (between the pulse and `[END]` exactly `n` calls
of each operation asked for and none of another; `window` counts every call of the
algorithm since the pulse, whether `measure()` or `test_alg()` makes it, so that a
test that came after the pulse, mutant `MeasurePulse_Early`, is seen; it counts to
`MaxPass + 1`, more than a measurement has passes);
`VerdictRight` (PASS
exactly if nothing went wrong); `TestReproducible` (the `i=%d` of a report
reproduces the pass); `DecapsMatched` (when is a decapsulation timed on a
ciphertext that fits); `CommandReturns`; `ImplementsConsole`.
The faults here are failing encapsulation, failing decapsulation and secrets
that differ; failing key generation is finding 1.

**sign.** The same for signatures, with faults of signing, of opening, a
signature longer than announced, and a corrupt one that opens. A long signature
is only remarked on (147-150): the verdict does not depend on it, and the line of
that remark, which psctrl.py does not look for, is not among those of
BenchConsole. `VerifyMatched`
(a `v` after `s` verifies a good signature), `MessageFresh` (each pass signs its
own message although opening writes to the same buffer).

**fibo.** All bytes of requests of 1, 3 and 4, eight in all, from eight seeds.
`StreamOfSeed`: bytes depend on the seed and position only. `Alive`: never both
words even.

**batch.** A script started by hand and two turns of the batch's loop after it:
whatever one script leaves when it is killed, a second is built and flashed for
after it (or its build fails) and a third finds what both left. Targets are KEMs
and signature algorithms in any order. The first script finds the target at boot,
at its prompt, inside a measurement, or asleep after an `x`, and the shield armed
or not. The shield refuses a command twice at most. The script has about thirty
statements and no loop but its retries, so the run is complete for these inputs.
`NoCommandLost`: only newlines ever meet a full register. `LogOfTarget`: each log
is a beginning of what `IsLog` admits for the target it is named after; the report
of each command and its rows are in their places, and nothing of an earlier target
or run is between them. `Identified`: the banner seen is that of the reset target.
`BatchEnds`: every script ends by itself, without the timeout, whatever state it
finds.

**parselog.** Every three files: whole logs and logs cut anywhere, of a KEM and a
signature algorithm, from boards of 84 and 96 MHz, with operations of 1 and 2
units. Two files of one algorithm and one of another are the smallest case in
which both a minimum and a mixture can go wrong; equal totals and totals that are
lower only because rows are missing occur. `BestTaken`, `PowersMatchCycles`,
`ClockRight`.

**energy.** Passes of four calls of 2, 5 or 9 cycles and 1 or 3 microjoules, at
least 20 cycles in all: one pass may do, or three be needed, and every order of
short and long calls is a different median problem, with ties. The counter has
40 values and starts at 0 or shortly before it wraps. `EnergyFaithful`: the
nanojoules are the average over the calls really made, up to the lag and the
truncation, when both readings are good and there is no wrap between them; and 0
when there is no counter. The run reaches wraps and failed readings too; of them
nothing is claimed. `CyclesFaithful`, `MedianRight` likewise for the cycles and
the figure that is printed first.

**supercop.** Two rounds, lengths up to 6 bytes (0, 1, 2, 3, 5 with one growth
rule, the same with the other), passes of two calls and at most two passes.
`LabelBase` is 7, the smallest that `LabelAssumption` admits; ciphertexts are as
long as their messages, so that the empty one, of which no forgery is made,
occurs. `BlocksMatched`: each call finds what its label says it measures.
`LabelsRight`: labels are unique in a round and can be decoded. `MeasureEnds`.

**readdata.** Up to four results, each two lines or, where a file is cut, one, of a
measurement without a size and two with one. Cuts are at the end of a line. Joules
are -3, 3 or 4 (3 and 4 are within 0.75 of each other; negative ones are what is
printed after the RAPL counter has wrapped), cycles 3 or 5 (which are not).
`GetsThrough`: the script ends before its time only if a measurement has no
cycles at all, or a negative median of the joules that are kept of it, and it
prints no row of such a measurement. `RowsRight`: averages near the median of
everything read when there is no size; with one, the last joules and cycles, which
are of the same calls if these joules have any cycles. That premise is the case of
a file cut after them.

Deadlock is not checked for the firmware runs, which stop when the host has sent
its bytes, nor for batch, supercop, parselog and readdata, which stop at the end
of the program or script.

### Fairness

- Firmware: weak fairness of `Device`, the conjunction of all its steps: the
  processor runs on, and the algorithm's functions return. That the host sends
  anything is not assumed. That a loop ends is *not* a consequence of its being
  a choice: `MaxPass` stands for the time limit, and with a stopped timer
  (mutant `TestTime_Stopped`) `CommandReturns` fails.
- SupercopMeasure: weak fairness of `Next`: the program runs on, the operations
  return, and `MaxPass` stands for the 10^9 cycles that end a block.
- Batch: weak fairness of the target, of the wire to it, of the shield, of the
  script and of the shell, each an independent machine; none of `Timeout`, so that
  what `BatchEnds` says is true of scripts that are not killed. The shield refuses at most
  `MaxRefusals` times; if it refused for ever, the script would ask for ever, as
  the code does.

### Time in PsCtrl

A read of the script returns after one second without a byte. The model has no
clock; `Silence` says when such a second is possible: what takes milliseconds
(bytes on the wire, lines being printed, the shield's answers) must be over,
what takes seconds (an operation of the firmware, an acquisition as seen on the
*target's* line, the power cut) may or may not be. While it acquires, the shield
sends ten samples a second, so its own line is not silent. A status request sent
during a power cut may stay unanswered for a second. A token cut in two by a
silence is not modelled; lines are printed in one go.

`FlashAndRun` waits until the wires are empty and no acquisition is going on:
compiling a target, erasing and writing flash take longer than the ten seconds of
an acquisition. This is the one assumption about time on which `LogOfTarget`
depends; see the findings for what happens when `psctrl.py` is restarted sooner.

## 4. Proofs

TLAPS checks these for all values of the constants that satisfy the named
assumptions; TLC evaluates the assumptions on the run's values.

| Theorem | Module | States |
|---|---|---|
| `Invariance`, `TypeCorrect`, `LocalsFollowClock`, `CyclesAreExact` | CycleCountProofs | `Spec => []IInv`, `[]TypeOK`, `[]ClockInv`, `[]CyclesExact` |
| `MeasuresOnTime`, `ReportsAreFaithful` | CycleCountProofs | `Spec => MeasureOnTime`, `[]ReportFaithful` |
| `Invariance`, `TypeCorrect`, `WindowIsClean`, `KeypairComesFirst`, `VerdictsAreRight`, `TestsReproduce`, `DecapsulationsMatch` | KemBenchProofs | an inductive invariant, and from it the run's invariants |
| `Invariance`, `TypeCorrect`, `WindowIsClean`, `KeypairComesFirst`, `VerdictsAreRight`, `VerificationsMatch`, `MessagesAreFresh` | SignBenchProofs | the same for signatures |
| `ConsoleIsImplemented` | both | `Spec => Console!Init /\ [][Console!Next]_(Console!vars)` |
| `BatchInvariance`, `BatchTypeCorrect`, `CommandsArrive`, `LogsAreOfTargets`, `TargetIdentified` | LogProofs | an inductive invariant of batch, script, target and shield, and from it `[]TypeOK`, `[]NoCommandLost`, `[]LogOfTarget`, `[]Identified` |
| `ParseInvariance`, `BestIsTaken`, `PowersAndCyclesMatch`, `ClockIsRight` | LogProofs | an inductive invariant of the log parser, and from it the run's invariants |
| `NeverStuck`, `StaysAlive`, `TypeCorrect` | FiboRandProofs | `[]TypeOK` with `[]Alive` |
| `StreamIsOfSeed` | FiboRandProofs | `[]StreamOfSeed` |
| `NoMerging` | FiboRandProofs | the generator's step is injective |
| `MeterInvariance`, `TypeCorrect`, `EnergyIsAverage`, `CyclesAreAverage`, `PrintsTheMedian` | FigureProofs | an inductive invariant of EnergyMeter, and from it `[]TypeOK`, `[]EnergyFaithful`, `[]CyclesFaithful`, `[]MedianRight` |
| `ReadInvariance`, `ReaderGetsThrough`, `RowsAreRight` | FigureProofs | an inductive invariant of ReadData, and from it `[]GetsThrough`, `[]RowsRight` |
| `Invariance`, `TypeCorrect`, `BlocksAreMatched`, `LabelsAreRight` | SupercopMeasureProofs | an inductive invariant, and from it the run's invariants |

**CyclesAreExact.** Assumed: `ClockAssumption` (positive constants),
`InputAssumption` (operations take time) and `HeadroomAssumption`: the most
wraps there can be before the Timer overflows, plus the milliseconds of two
gaps, plus 3, is less than `ofl_ms`, and an accumulator holds that many cycles.
For the board these are 48 + 3 < 44739 and 2^31 * 96 < 2^64, with room for gaps
of many seconds. `CyclesExact` is not inductive: it says nothing about `ms` and
`t` in the middle of a macro. `ClockInv` adds that `ms` is a Timer reading from
at most `MaxGap` before the counter was read, that `t` is what the counter then
showed, that no operation has spent more than the time since the Timer was
started (so that the accumulator does not overflow), and after `AddT` that what
the accumulator lacks is whole periods. The heart is the lemma `WrapCount`: a
call of `q` periods and a rest, seen through two rounded millisecond readings
that enclose it, gives a quotient of exactly `q`. From below
this holds because the Timer's interval encloses the counter's and all the
readings round down: a difference of two rounded readings is at least the
rounded difference. From above, each period exceeds `ofl_ms` milliseconds by up
to one (the 48), the delays add `2 * MaxGap` and the rounding less than 3 ms; the
headroom keeps their sum under one more `ofl_ms`.

**MeasuresOnTime.** A reading of at least `ms_time` means that at least so much
time went by, even when the Timer has overflowed, because a wrapped `int` only
under-reports; the converse needs `TimerFits`.

**ReportsAreFaithful.** `PassInv` counts the calls of each operation that a
measurement has made at each statement (`Made`) and says that what was spent is
no less than so many calls of some length and no more than so many of some length.
At the end that number is `n`, the sums are exact by `IInv`, and dividing gives
the bounds of the average. `HeadroomAssumption` is what makes it true.

**The firmware.** `BenchMainProofs` proves once what does not depend on the
algorithm. `MainNext` allows, where the algorithm is called, anything that the two
versions of `test_alg()` and of the timed calls have in common; `MainInv` is
inductive for it. Its part `CommandInv` says which command brought the firmware to
a statement, and that a measurement without key generation has `init_alg` set; its
part `WindowInv` that before operation `p` of pass `n` those below `p` have been
called `n` times and the others `n - 1` times, where a step of a test
counts as a call of anything: that there is none in the window has to follow from
where the tests are called. `MainWindowClean` follows, and
`ConsoleStep`: every step is a step of BenchConsole, or leaves what it owes
unchanged. Assumed: `MainAssumption` (`MaxPass` positive, `NoByte` not a byte).

`KemBenchProofs` and `SignBenchProofs` show that each of their steps is a
`MainNext` step (`Simulation`) and add what is in the buffers:

- `PairInv`: once key generation has been called, `pk` and `sk` are a pair, or
  both are what a failed key generation left. `KeypairBeforeUse` is an instance
  of it when `"keypair"` is not among the faults, which `KeypairComesFirst` and
  `VerificationsMatch` assume. Finding 1 shows that they need it.
- `CiphertextInv`, `SignedInv`: a ciphertext (a signature) that was not followed by
  a key generation fits the key. `TestInv` says what a test has seen when it comes
  to each call, in particular that a pass begins from its seed `i` with no draws.

Nothing bounds the number of bytes or passes there but the constants, which may
be any numbers; `Faults` is any set of the ways to fail.

**ConsoleIsImplemented** is the part of `ImplementsConsole` without fairness: from
the proof that the firmware's lines are those of the console follows that what
run batch shows of safety against the console holds against either firmware.

**BlocksAreMatched, LabelsAreRight.** Assumed: `MeasureAssumption` (types),
`LabelAssumption` (the base of labels exceeds the longest message). `BufferInv`
says how far the slots are filled after `i` calls: with those below `i`, and all
of them at the end of a pass, whose length is what makes `i % (TIMINGS + 1)` zero.
`ShapeInv` gives the form of the lengths in each direction of `crypto_aead`: one
is zero in the first two, both are equal and positive in the third, so that the
directions cannot meet. `PrintedInv` says that whatever was printed was so for a
block that is over: of lengths that came earlier (`Sooner`), or of the same lengths
and an earlier block (`Order`). Since a label determines its lengths
(`LabelDecoded`) and names of a program differ (`NamesDiffer`), the present entry
is not among them.

**NeverStuck.** The `| 1` makes the first word odd, and `(a, b) |-> (a+b, a+2b)`
preserves that one of them is odd, since the modulus is even.

**EnergyIsAverage, CyclesAreAverage.** Assumed: `MeterAssumption` (types, at least
one timing, a counter of at least one value). The properties hold of the state
before a printout; the invariant adds what leads there: `num` equals the calls
made when a pass ends and `i` counts those of the pass, `nj` is the first reading
modulo `RaplMod`, readings lie between `joules - Lag` and `joules` and do not go
back. Two readings in the same turn of the counter differ by what their full
values do (`ReadingDifference`), and truncation loses less than one.

**PrintsTheMedian.** Assumed also: `OddAssumption`. `MedianExists`: of the figures
with fewer than half below them take one with the fewest above it. Were half or
more above it, it would be more than half, as the number is odd; a least of those
would have fewer than half below it, and fewer above it than the one taken. So
either the loop finds an index, or the only one is the last, which the loop does
not test and which is then printed (`PrintsMedian`).

**StreamIsOfSeed.** `Stream` is a recursive function, and that a function with such
an equation exists has to be proved: were there a length that no stream has, the
least such length would be that of a stream and one more state (`StreamExists`).
The invariant `StreamInv` adds to the property that the two words are those of the
stream after as many steps as bytes were drawn.

**LogsAreOfTargets, CommandsArrive, TargetIdentified.** Assumed: `TargetsAssumption`,
`RefusalAssumption` (types), `BytesAssumption` (commands and newline are bytes that
the script may send). There is no bound on the number of targets or of refusals;
the latter only keeps a counter finite.

That a log is right so far says nothing of what is still on the two serial lines,
nor of what target and shield are in the middle of, and so is not inductive.
`BatchInv` has three parts:

- `ConsoleInv`: the firmware always has something left to do, and a command is on
  its way only while the receive register is empty. This is where `NoCommandLost`
  comes from.
- `LoopInv`: the image on the board is that of the turn's target, if there is one,
  and the log is a log of it (`LogOfTarget`).
- `Stages`: what the four parties may be doing at each statement of the script.

`Stages` is not a table of thirty statements, since most are alike:

- At statements 1 to 10 (`ShieldInv`, `BootInv`) the shield is set up and the target
  reset. The command for the reset is in the queue at most once, and before any
  question for the status (`ResetFirst`), so that an answer `ok` means that it was
  obeyed. Until then the target is wherever an earlier script left it
  (`BeforeReset`), and at most a banner or the rows of an interrupted measurement
  come from it; afterwards it boots and prints one more banner (`AfterReset`), of the
  target that was flashed.
- Statements 11 to 25 are five commands of three statements each: send, read the
  shield's report, read the target (`SectionInv`). Nothing is under way (`Quiet`),
  the command is on the wire or in the register (`Asked`), or the firmware works on
  it or is done (`Begun`), and there is exactly one report on it: to come, on the
  line, or read (`Report`). One lemma per action treats all five.
- At statements 26 to 29 (`RestInv`) the self-test runs, whose output is not in the
  log. 0 and 30 are outside a script.

What the parts have in common is `Reading(s, x, l)`: when the script has read all
the lines `s`, a log that is now `x` will be `l`, by way of logs that are beginnings
of `l`. A line that the target prints extends `s` and `l`; one that the script reads
moves from `s` to `x`. With it each stage says which log there will be, in terms of
`LogAt`, the log after so many of its ten lines.

The proof goes by action. For each, first the types, then the stage (for a target's
step: the set-up, the commands, the rest), and last `ConsoleInv` and `LoopInv`, which
use it.

**BestIsTaken, PowersAndCyclesMatch, ClockIsRight.** Assumed: `ParseAssumption`
(no name is of a KEM and a signature algorithm, cycles are positive). A log may begin with nothing or with what an earlier script left (`Early`),
and from its first lines one cannot tell. `FileInv` therefore says what has been
taken from the file for every way to read it that fits so far (`Taken`): the powers
in the order of the commands, and the rows of each operation, from the command `a`
until those of its own command replace them. A file that has four powers or more at
`Close` was read far enough for all rows of `a`. `TablesInv` says that the two tables
have, for each algorithm, the least of the totals that were in its files, and figures
of one file together (`Together`). `ClocksInv` ties the global clock to the last
file; that is right for all when they are of one board.

**ReaderGetsThrough, RowsAreRight.** Assumed: `NameAssumption` (a name is printed
with sizes or without), `ValueAssumption` (joules are integers of any sign, cycles
are positive), `FigureAssumption` (types). `MedianIsValue`: of the values that more
than half of the list does not exceed, the least is a median; were more than half
below it, the greatest of those would be a smaller such value. So the median is a
value and, unless it is negative, in its own band, and the loop of `mfavg()` counts
at least one; if it is negative it counts none (`MfavgOfNone`). Its sums keep within
the band's multiples of the count (`BandSum`, `MfavgNear`), by the least index at
which they would not. `ReadInv` says that the dictionaries hold what has been read,
which needs `NameAssumption`: the look-up without the size finds a key exactly when
the measurement has no size and was read before.

Induction. The library's induction rules take an operator as a parameter and cannot
be used here, so all the inductions above on the length of a list go by a least
counterexample (`LeastElement`, from the well-foundedness of `<` on `Nat`).

Only model-checked: `CommandReturns`, `BatchEnds`, `MeasureEnds`, and the fairness
of the console that `ImplementsConsole` includes: liveness, which is beyond this
prover. Every invariant and action property that a run checks is a theorem. The
three runs that expect a violation show a behaviour, of which there is nothing to
prove.

## 5. Findings

1. `measure()` runs `test_alg(0)` to "make sure that there is a keypair"
   (`main.cpp:345`) but ignores its result, and `test_alg()` sets `init_kem`
   even on FAIL (333). After a failed key generation encapsulation is timed on
   junk. The signature version is the same (191-193). Run `kem_keypair`.
2. A shared secret mismatch prints `s1` after "s2 = " as well
   (`main.cpp:317-318`). Run `kem_mismatch`.
3. `read_data.py:31` looks for `v[6]`, the name alone, where measurements are
   stored under size and name. A result with a size (signatures, encryption,
   AEAD, hashes, streams) therefore replaces the one before it and nothing is
   averaged; only KEMs and key generation are. Run `readdata_collect`.

Noticed, and not claimed as wrong by any run:

- When the RAPL counter wraps during a measurement, the energy printed is
  negative. When reading it fails, `n` is -1, the byte before the buffer is
  written, and whatever the buffer holds is taken for a reading.
  `EnergyFaithful` is stated for the other cases.
- `mfavg()` divides by zero if the median is negative, because the band from
  `0.75 * md` to `md / 0.75` is then empty, and `read_data.py` ends there, without
  the rows that would follow. By finding 3 only the last value of a result with a
  size is kept, so that one wrap of the RAPL counter is enough; without a size it
  takes a negative median. Likewise a `_njoule` line without any `_avgcyc` line
  ends it with a KeyError, and one that lost only its own is printed with the
  cycles of an earlier run. `GetsThrough` says exactly which measurements end the
  script, and the run reaches all of these cases.
- If a single `measure()` lasts over 2^31 us (36 minutes), `read_us()` turns
  negative and the operation in which it happens gets an astronomical number of
  periods. `CyclesExact` is therefore stated under `TimerFits`. `test_alg.sh`
  gives up on an algorithm after 1000 s, so no log of its can hold such a row; a
  user at the console may see one.
- `d` after `k`, and `v` after `k` or after a test, time a rejection. The errors
  are counted in `[END]` but `parselog.py` does not look at them. `psctrl.py`
  sends `e` before `d` and `s` before `v`, which avoids it.
- A seed set with a digit is lost if the next command runs the implicit test.
- `psctrl.py` sends a newline after each byte; the firmware reads it after the
  command and prints a second `[INPUT]`. It waits for `[END]`, so this is harmless.
- An acquisition left over from a killed script is reported before the first
  heading of the next and shifts all powers by one in `parselog.py`, if that is
  started within ten seconds. `test_alg.sh` builds and flashes in between, which
  takes longer, and run batch shows that its logs are right; for `psctrl.py` that
  is interrupted with ^C and started again by hand they are not.
- `parselog.py` converts all cycles with the clock of the *last* file it read.
  `ClockRight` says when that is harmless. A file without a banner as the last
  one, such as `log/parsed_data.txt` itself when `log/*` is given a second time,
  resets it to the default of 96 MHz.
- Of logs with equal totals the later one is taken. Since rows that are missing
  count as 0 cycles, `parselog.py` depends on a log with four powers having all
  rows of `a`, which `LogOfTarget` and `BestTaken` confirm.

## 6. Not modelled, and what is left out

- *mbed OS* (vendored). What the firmware relies on of `Timer` and `Serial` is in
  the models as external. These headers are nearly all of the repository's 98206
  lines of code: the project's own code, which the models cover, is about two
  thousand. The headers are register layouts, macros and templates, none of which
  runs a step of its own.
- *`Makefile`*: generated, a list of objects. That it may fail is in Batch.
- *`qad_prepare.sh`, `qad_run.sh`*: downloads, copies, and a loop of runs in random
  order; the reader's inputs come in every order.
- *`mecc/`*: straight-line calls to micro-ecc, with return codes turned round. What
  the firmware relies on is the contract of the external algorithm in KemBench and
  SignBench, and its failures.
- *SUPERCOP's own part* of `measure-anything.c`: resource limits, the compiler
  banner, the allocator.
- Logs, pictures and data.
- Of `main()`: the contents of the banner, and the exit of the test's loop after
  999999999 passes. Of `psctrl.py`: commands that set the display or number
  formats. Of `parselog.py`: the count of samples, which is only warned about,
  `units()`, and the lengths of keys. Of `randombytes()` nothing.

Within one `measure()` the order of clock reads is in CycleCount and the order of
calls in BenchMain; they share `n`, the flags and the loop, and are not composed
further: nothing of the buffers depends on a clock, and nothing of the clocks on
buffers.

## 7. Plan

Done: every component that runs steps of its own, as listed above, and proofs of
all their invariants and action properties.

Left, and of lesser weight: the two wrappers of `mecc/` as instances of the external
KEM and signature; and what the firmware and the script together say of real KEMs,
as a composition of KemBench with PsCtrl in one module, which now rests on
`ConsoleIsImplemented` and on PsCtrl using nothing else of the console.
