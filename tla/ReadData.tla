------------------------------ MODULE ReadData ------------------------------
(***************************************************************************)
(* suppercop/read_data.py: it collects the "_njoule" and "_avgcyc" lines   *)
(* of SUPPERCOP data files, in one loop, and then prints a row for each    *)
(* measurement, with averages that leave out what is far from the median.  *)
(*                                                                         *)
(* A measurement is <<algorithm, size, name>>, where the size is "-" for   *)
(* those that have none, as printentry() prints them.                      *)
(***************************************************************************)
EXTENDS Integers, Sequences, FiniteSets

CONSTANTS
  Measurements,    \* what the data files hold measurements of
  NJoules,         \* values of "_njoule" lines
  AvgCycs,         \* values of "_avgcyc" lines
  MaxFigures,      \* bound: "_njoule" lines in the data files
  None             \* no line of joules is waiting for its cycles

ASSUME FigureAssumption ==
  /\ \A m \in Measurements : m = <<m[1], m[2], m[3]>>
  /\ MaxFigures \in Nat
  /\ None \notin Measurements

\* A program prints a name with sizes, or without (SupercopMeasure): then the
\* look-ups of the script find the keys that they expect.
ASSUME NameAssumption ==
  \A m, w \in Measurements : m[1] = w[1] /\ m[3] = w[3] /\ m[2] = "-" => w[2] = "-"

\* Joules are of any sign: a measurement during which the counter of the
\* processor wraps has negative ones (measure.h:30, EnergyMeter).  Calls take
\* cycles (EnergyMeter!CyclesFaithful).
ASSUME ValueAssumption == NJoules \subseteq Int /\ AvgCycs \subseteq Nat \ {0}

VARIABLES
  phase,
  data,            \* algorithm -> <<size, name, kind>> -> values
  open,            \* the measurement whose "_avgcyc" line comes next, or None
  rows,            \* what has been printed
  figures,         \* "_njoule" lines read
  njs, cycs        \* history: the values read of each measurement, each with
                   \* the number of the "_njoule" line that it is of or follows

readVars == <<phase, data, open, rows, figures, njs, cycs>>

-----------------------------------------------------------------------------
\* A dictionary with the value v at key k.
Put(d, k, v) == [x \in DOMAIN d \cup {k} |-> IF x = k THEN v ELSE d[x]]

\* Mutant of Collect: nothing is ever collected.
Collect_Replaces(m, kind, v) ==
  LET d == IF m[1] \in DOMAIN data THEN data[m[1]] ELSE << >>
  IN  Put(data, m[1], Put(d, <<m[2], m[3], kind>>, <<v>>))

\* The data after a line with the value v.  The look-up in line 31 is by the
\* name alone, without the size.
Collect(m, kind, v) ==
  LET d == IF m[1] \in DOMAIN data THEN data[m[1]] ELSE << >>
      mes == <<m[2], m[3], kind>>
  IN  Put(data, m[1], Put(d, mes, IF <<"-", m[3], kind>> \in DOMAIN d
                                    THEN Append(d[mes], v) ELSE <<v>>))

\* l[int(len(l) / 2)] of the sorted list.  (It is sorted in place, which is
\* left out: no average depends on the order.)
Median(l) ==
  CHOOSE x \in {l[j] : j \in DOMAIN l} :
    /\ Cardinality({j \in DOMAIN l : l[j] < x}) <= Len(l) \div 2
    /\ Cardinality({j \in DOMAIN l : l[j] <= x}) > Len(l) \div 2

\* Mutant of InBand: both ends are multiplied by c.
InBand_Narrow(l, x) == 4 * x >= 3 * Median(l) /\ 4 * x <= 3 * Median(l)

\* The values that count: from md * c to md / c, where c is 0.75.
InBand(l, x) == 4 * x >= 3 * Median(l) /\ 3 * x <= 4 * Median(l)

\* The sum s and the number n of those among the first k values.
Sums(l) ==
  LET loop[k \in 0..Len(l)] ==
        IF k = 0 THEN [s |-> 0, n |-> 0]
        ELSE IF InBand(l, l[k]) THEN [s |-> loop[k - 1].s + l[k], n |-> loop[k - 1].n + 1]
        ELSE loop[k - 1]
  IN  loop

\* mfavg() divides s by n.
Mfavg(l) == Sums(l)[Len(l)]

-----------------------------------------------------------------------------
ReadInit ==
  /\ phase = "read"
  /\ data = << >>
  /\ open = None
  /\ rows = {}
  /\ figures = 0
  /\ njs = [m \in Measurements |-> << >>]
  /\ cycs = [m \in Measurements |-> << >>]

\* A "_njoule" line.
ReadJoules ==
  /\ phase = "read" /\ open = None /\ figures < MaxFigures
  /\ figures' = figures + 1
  /\ \E m \in Measurements, v \in NJoules :
       /\ data' = Collect(m, "njoule", v)
       /\ njs' = [njs EXCEPT ![m] = Append(@, [of |-> figures', v |-> v])]
       /\ open' = m
  /\ UNCHANGED <<phase, rows, cycs>>

\* The "_avgcyc" line that a program prints right after it.
ReadCycles ==
  /\ phase = "read" /\ open # None
  /\ \E v \in AvgCycs :
       /\ data' = Collect(open, "avgcyc", v)
       /\ cycs' = [cycs EXCEPT ![open] = Append(@, [of |-> figures, v |-> v])]
  /\ open' = None
  /\ UNCHANGED <<phase, rows, figures, njs>>

\* A data file ends before that line: the program or its run was cut short.
CutFile ==
  /\ phase = "read" /\ open # None
  /\ open' = None
  /\ UNCHANGED <<phase, data, rows, figures, njs, cycs>>

\* The end of the data files.
EndOfInput ==
  /\ phase = "read" /\ open = None
  /\ phase' = "output"
  /\ UNCHANGED <<data, open, rows, figures, njs, cycs>>

\* One item of the two loops: the row of a measurement.  Dividing by zero, or a
\* key that is not there, ends the script.
PrintRow ==
  /\ phase = "output"
  /\ \E alg \in DOMAIN data : \E x \in DOMAIN data[alg] :
       LET of  == <<alg, x[1], x[2]>>
           key == <<x[1], x[2], "avgcyc">>
           nj  == Mfavg(data[alg][x])
           cyc == Mfavg(data[alg][key])
       IN  /\ x[3] = "njoule" /\ of \notin {r.of : r \in rows}
           /\ IF nj.n # 0 /\ key \in DOMAIN data[alg] /\ cyc.n # 0 /\ cyc.s # 0
                THEN /\ rows' = rows \cup {[of |-> of, nj |-> nj, cyc |-> cyc]}
                     /\ UNCHANGED phase
                ELSE phase' = "crashed" /\ UNCHANGED rows
  /\ UNCHANGED <<data, open, figures, njs, cycs>>

ReadNext == ReadJoules \/ ReadCycles \/ CutFile \/ EndOfInput \/ PrintRow

ReadSpec == ReadInit /\ [][ReadNext]_readVars

-----------------------------------------------------------------------------
(* Properties *)

Values(log) == [j \in DOMAIN log |-> log[j].v]
LastOf(log) == log[Len(log)]

\* What the script cannot print: joules without any cycles, which its look-up
\* in line 61 does not find, and joules whose median is negative, so that
\* nothing is in their band and line 51 divides by zero.  Of a measurement
\* with a size only the last joules count.
Doomed(m) ==
  /\ njs[m] # << >>
  /\ \/ cycs[m] = << >>
     \/ m[2] = "-" /\ Median(Values(njs[m])) < 0
     \/ m[2] # "-" /\ LastOf(njs[m]).v < 0

\* The script ends before its time for that and for nothing else: whatever
\* was measured and wherever the files were cut, a row of any other
\* measurement is an average of something, and no row is printed of what
\* cannot be (read_data.py:40-62).
GetsThrough ==
  /\ phase = "crashed" => \E m \in Measurements : Doomed(m)
  /\ \A r \in rows : ~Doomed(r.of)

\* s / n is in the band of the values l.
Near(avg, l) ==
  4 * avg.s >= 3 * Median(l) * avg.n /\ 3 * avg.s <= 4 * Median(l) * avg.n

\* A row speaks of its measurement.  Without sizes, both averages are near the
\* medians of all the values that were read, as the "median filter average"
\* (read_data.py:38) is to be; with sizes, joules and cycles are the last that
\* were read, and those of the same calls if these joules have any cycles.
RowsRight ==
  \A r \in rows :
    LET j == njs[r.of]
        c == cycs[r.of]
    IN  IF r.of[2] = "-"
          THEN Near(r.nj, Values(j)) /\ Near(r.cyc, Values(c))
          ELSE /\ r.nj.s = LastOf(j).v * r.nj.n /\ r.cyc.s = LastOf(c).v * r.cyc.n
               /\ (\E k \in DOMAIN c : c[k].of = LastOf(j).of) => LastOf(c).of = LastOf(j).of

\* Each row is made from every value that was read for it: "get average
\* joules" (read_data.py:59), of the nine runs that qad_run.sh makes (25).
AllCollected ==
  phase = "output" =>
    \A m \in Measurements : njs[m] # << >> =>
      Len(data[m[1]][<<m[2], m[3], "njoule">>]) = Len(njs[m])

=============================================================================
