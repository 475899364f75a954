------------------------------ MODULE ParseLog ------------------------------
(***************************************************************************)
(* parselog.py: reads the logs named on its command line, line by line,    *)
(* keeps for every algorithm the log with the fewest cycles, and prints    *)
(* the cycles of each operation next to the power drawn during it.         *)
(*                                                                         *)
(* A file is any log that psctrl.py may have left (MeasureLog), of any     *)
(* algorithm and board; its lines are chosen as they are read.  A figure   *)
(* carries the file and the command that it was measured in, so that what  *)
(* is printed can be traced back.                                          *)
(***************************************************************************)
EXTENDS Commands, MeasureLog

CONSTANTS
  Kems, Signatures,  \* names of algorithms
  Clocks,            \* the SystemCoreClock of boards
  DefaultClock,      \* 96000000.0
  Cycles,            \* what an operation may take
  MaxFiles           \* bound: files on the command line

ASSUME ParseAssumption ==
  /\ Kems \cap Signatures = {}
  /\ Cycles \subseteq Nat \ {0}
  /\ MaxFiles \in Nat

VARIABLES
  open,            \* a file is being read
  fn,              \* its number
  file,            \* its algorithm, its board's clock, and the cycles of an
                   \* operation in "a" and in a command of its own
  lines,           \* those of its lines that have been read
  watt,            \* the powers read
  rows,            \* keygen; encaps or sign; decaps or verify
  algn, ct_l, cclk,  \* from the banner; ct_l stands for ct_l > 0
  kems, sgns,      \* the best log of each algorithm
  totals,          \* history: <<algorithm, total>> of the files with enough data
  clocks           \* history: the clocks of the boards

parsevars == <<open, fn, file, lines, watt, rows, algn, ct_l, cclk, kems, sgns, totals, clocks>>

Files == [alg : Kems \cup Signatures, clock : Clocks, inAll : Cycles, alone : Cycles]
IsKem(f) == f.alg \in Kems

\* The command that measures an operation alone.
Alone(op, kem) == Timing(kem)[op + 1]

-----------------------------------------------------------------------------
NoFigure == [from |-> <<0, None>>, cycles |-> 0]
NoLogs == [a \in {} |-> {}]

\* Mutant of Blank: the powers of the file before are kept.
Blank_KeepsWatt ==
  /\ lines' = <<>> /\ UNCHANGED watt
  /\ rows' = [op \in Ops |-> NoFigure]
  /\ algn' = None /\ ct_l' = FALSE /\ cclk' = DefaultClock

\* What every file begins with.
Blank ==
  /\ lines' = <<>> /\ watt' = <<>>
  /\ rows' = [op \in Ops |-> NoFigure]
  /\ algn' = None /\ ct_l' = FALSE /\ cclk' = DefaultClock

ParseInit ==
  /\ open = FALSE /\ fn = 0 /\ file \in Files
  /\ lines = <<>> /\ watt = <<>>
  /\ rows = [op \in Ops |-> NoFigure]
  /\ algn = None /\ ct_l = FALSE /\ cclk = DefaultClock
  /\ kems = NoLogs /\ sgns = NoLogs
  /\ totals = {} /\ clocks = {}

Open ==
  /\ ~open /\ fn < MaxFiles
  /\ open' = TRUE /\ fn' = fn + 1
  /\ file' \in Files
  /\ clocks' = clocks \cup {file'.clock}
  /\ Blank
  /\ UNCHANGED <<kems, sgns, totals>>

\* The next line of a log of this algorithm.
Line(l) ==
  /\ open
  /\ lines' = Append(lines, l)
  /\ IsLog(lines', IsKem(file))
  /\ UNCHANGED <<open, fn, file, kems, sgns, totals, clocks>>

\* Mutant of Banner: the clock is not taken over.
Banner_NoClock ==
  /\ Line(<<"banner", IsKem(file)>>)
  /\ algn' = file.alg /\ ct_l' = IsKem(file)
  /\ UNCHANGED <<cclk, watt, rows>>

Banner ==
  /\ Line(<<"banner", IsKem(file)>>)
  /\ cclk' = file.clock /\ algn' = file.alg /\ ct_l' = IsKem(file)
  /\ UNCHANGED <<watt, rows>>

\* The mean of the samples is the power.
AcquisitionTime(c) ==
  /\ Line(<<"watt", c>>)
  /\ watt' = Append(watt, <<fn, c>>)
  /\ UNCHANGED <<rows, algn, ct_l, cclk>>

\* A later row replaces an earlier one.  Rows that are not of the script's
\* commands may be of any operations.
Rows(c) ==
  /\ Line(<<"rows", c>>)
  /\ \E ops \in SUBSET Ops, cyc \in Cycles :
       /\ c = "a" => ops = Ops /\ cyc = file.inAll
       /\ c \notin {"a", None} =>
            ops = {op \in Ops : Alone(op, IsKem(file)) = c} /\ cyc = file.alone
       /\ rows' = [op \in Ops |-> IF op \in ops THEN [from |-> <<fn, c>>, cycles |-> cyc]
                                                ELSE rows[op]]
  /\ UNCHANGED <<watt, algn, ct_l, cclk>>

Total == rows[1].cycles + rows[2].cycles + rows[3].cycles

\* Mutant of Best: the slower log is kept.
Best_Slowest(table) ==
  IF algn \in DOMAIN table /\ table[algn].total > Total
    THEN table
    ELSE [a \in DOMAIN table \cup {algn} |->
            IF a = algn THEN [total |-> Total, rows |-> rows, watt |-> watt] ELSE table[a]]

\* A log with fewer cycles stays; of equal ones the later is taken.
Best(table) ==
  IF algn \in DOMAIN table /\ table[algn].total < Total
    THEN table
    ELSE [a \in DOMAIN table \cup {algn} |->
            IF a = algn THEN [total |-> Total, rows |-> rows, watt |-> watt] ELSE table[a]]

\* What a log says that an operation took: by itself, or with the others.
TrueCycles(op) ==
  IF <<"rows", Alone(op, IsKem(file))>> \in Range(lines) THEN file.alone ELSE file.inAll
TrueTotal == TrueCycles(1) + TrueCycles(2) + TrueCycles(3)

\* The end of the file: without four powers there is not enough data.
Close ==
  /\ open /\ open' = FALSE
  /\ IF Len(watt) < 4
       THEN UNCHANGED <<kems, sgns, totals>>
       ELSE /\ kems' = IF ct_l THEN Best(kems) ELSE kems
            /\ sgns' = IF ct_l THEN sgns ELSE Best(sgns)
            /\ totals' = totals \cup {<<file.alg, TrueTotal>>}
  /\ UNCHANGED <<fn, file, lines, watt, rows, algn, ct_l, cclk, clocks>>

ParseNext == \/ Open \/ Banner \/ Close
             \/ \E c \in Range(Timing(IsKem(file))) \cup {"z", None} : AcquisitionTime(c) \/ Rows(c)

ParseSpec == ParseInit /\ [][ParseNext]_parsevars

-----------------------------------------------------------------------------
(* Properties.  The summary is printed when the last file was read: any    *)
(* state without an open file may be that.                                 *)

\* The tables have exactly the algorithms of which some log went on to the
\* fourth measurement, each with the fewest cycles of those logs: a log that
\* a timeout cut short, or rows of another command in it, can neither win
\* nor lose by what they lack (parselog.py:120-148, test_alg.sh:34).
BestTaken ==
  ~open =>
    /\ DOMAIN kems \cup DOMAIN sgns = {t[1] : t \in totals}
    /\ DOMAIN kems \subseteq Kems /\ DOMAIN sgns \subseteq Signatures
    /\ \A t \in totals :
         LET table == IF t[1] \in Kems THEN kems ELSE sgns
         IN  <<t[1], table[t[1]].total>> \in totals /\ table[t[1]].total <= t[2]

\* Power and cycles that are printed in one line belong together: they are of
\* one log, the power of line op is that of the command that measures op
\* alone, and the cycles are of that command or, if the script was stopped
\* before its rows, of "a" in the same log; and the total is next to the
\* power of "a" (parselog.py:102-118, 164-180).
PowersMatchCycles ==
  ~open =>
    \A kem \in BOOLEAN :
      LET table == IF kem THEN kems ELSE sgns
      IN  \A a \in DOMAIN table : \E f \in 1..fn :
            /\ table[a].watt[1] = <<f, "a">>
            /\ \A op \in Ops :
                 /\ table[a].watt[op + 1] = <<f, Alone(op, kem)>>
                 /\ table[a].rows[op].from \in {<<f, Alone(op, kem)>>, <<f, "a">>}
                 /\ op < 3 => table[a].rows[op].from[2] # "a"

\* The clock that cycles are converted to seconds and joules with, which is
\* that of the last file, is that of every board if all have the same one and
\* it is the default, or the last log came as far as its banner.
ClockRight ==
  ~open /\ Cardinality(clocks) = 1 /\ (DefaultClock \in clocks \/ algn # None) =>
    clocks = {cclk}

=============================================================================
