--------------------------- MODULE FigureProofs ---------------------------
(***************************************************************************)
(* Proofs about the figures of the SUPPERCOP part.  EnergyMeter: what it   *)
(* reports are the averages and the median that they are taken for,        *)
(* whatever the calls, the phase of the energy counter and the number of   *)
(* passes.  ReadData: what it collects is what was read, its averages are   *)
(* near the medians, and it ends early only for what cannot be averaged,   *)
(* for any number of results.                                              *)
(***************************************************************************)
EXTENDS EnergyMeter, ReadData, FiniteSetTheorems, SequenceTheorems,
        WellFoundedInduction, TLAPS

\* Division with remainder of natural numbers.
LEMMA DivNat ==
  ASSUME NEW x \in Nat, NEW d \in Nat \ {0}
  PROVE  /\ x \div d \in Nat
         /\ d * (x \div d) <= x
         /\ x < d * (x \div d) + d
         /\ x % d \in 0..(d - 1)
         /\ x = d * (x \div d) + (x % d)
BY SMT

\* The order of the multiples of a positive number.
LEMMA MulMono ==
  ASSUME NEW a \in Int, NEW b \in Int, NEW d \in Nat \ {0}
  PROVE  /\ d * a \in Int
         /\ a < b => d * a + d <= d * b
         /\ a <= b => d * a <= d * b
         /\ d * a < d * b => a < b
BY SMT

(***************************************************************************)
(* The median                                                              *)
(***************************************************************************)

\* A set of natural numbers that is not empty has a least element.
LEMMA LeastElement ==
  ASSUME NEW S, S \subseteq Nat, S # {}
  PROVE  \E j \in S : \A k \in S : j <= k
<1> DEFINE R == OpToRel(<, Nat)
<1>1. IsWellFoundedOn(R, Nat)
  BY NatLessThanWellFounded
<1>2. ASSUME NEW j \in Nat, NEW k \in Nat, <<k, j>> \notin R
      PROVE  j <= k
  <2>1. <<k, j>> \notin {ss \in Nat \X Nat : ss[1] < ss[2]}
    BY <1>2, Zenon DEF OpToRel
  <2> QED BY <2>1
<1> HIDE DEF R
<1>3. PICK j \in S : \A k \in S : ~ (<<k, j>> \in R)
  BY <1>1, WFMin
<1>4. \A k \in S : j <= k
  BY <1>2, <1>3
<1> QED BY <1>4

\* There are mlen indices.
LEMMA IndexFinite ==
  ASSUME NEW mlen \in Nat
  PROVE  IsFiniteSet(Index(mlen)) /\ Cardinality(Index(mlen)) = mlen
<1>1. 0 \in Int /\ mlen - 1 \in Int
  OBVIOUS
<1> QED BY <1>1, FS_Interval DEF Index

\* The figures below one are finitely many, like those above, and fewer
\* towards either end.
LEMMA Sides ==
  ASSUME NEW mlen \in Nat, NEW m \in [Index(mlen) -> Int], NEW x \in Index(mlen)
  PROVE  /\ IsFiniteSet(Below(m, mlen, x)) /\ Cardinality(Below(m, mlen, x)) \in Nat
         /\ IsFiniteSet(Above(m, mlen, x)) /\ Cardinality(Above(m, mlen, x)) \in Nat
         /\ \A y \in Below(m, mlen, x) :
              Cardinality(Below(m, mlen, y)) < Cardinality(Below(m, mlen, x))
         /\ \A y \in Above(m, mlen, x) :
              Cardinality(Above(m, mlen, y)) < Cardinality(Above(m, mlen, x))
<1>1. ASSUME NEW y \in Index(mlen)
      PROVE  /\ IsFiniteSet(Below(m, mlen, y)) /\ Cardinality(Below(m, mlen, y)) \in Nat
             /\ IsFiniteSet(Above(m, mlen, y)) /\ Cardinality(Above(m, mlen, y)) \in Nat
  <2>1. Below(m, mlen, y) \in SUBSET Index(mlen) /\ Above(m, mlen, y) \in SUBSET Index(mlen)
    BY DEF Below, Above
  <2> QED BY <2>1, IndexFinite, FS_Subset, FS_CardinalityType
<1>2. ASSUME NEW y \in Below(m, mlen, x)
      PROVE  Cardinality(Below(m, mlen, y)) < Cardinality(Below(m, mlen, x))
  <2>1. /\ y \in Index(mlen) /\ y \notin Below(m, mlen, y)
        /\ Below(m, mlen, y) \cup {y} \in SUBSET Below(m, mlen, x)
    BY DEF Below
  <2>2. Cardinality(Below(m, mlen, y) \cup {y}) = Cardinality(Below(m, mlen, y)) + 1
    BY <1>1, <2>1, FS_AddElement
  <2>3. Cardinality(Below(m, mlen, y) \cup {y}) <= Cardinality(Below(m, mlen, x))
    BY <1>1, <2>1, FS_Subset
  <2> QED BY <1>1, <2>1, <2>2, <2>3
<1>3. ASSUME NEW y \in Above(m, mlen, x)
      PROVE  Cardinality(Above(m, mlen, y)) < Cardinality(Above(m, mlen, x))
  <2>1. /\ y \in Index(mlen) /\ y \notin Above(m, mlen, y)
        /\ Above(m, mlen, y) \cup {y} \in SUBSET Above(m, mlen, x)
    BY DEF Above
  <2>2. Cardinality(Above(m, mlen, y) \cup {y}) = Cardinality(Above(m, mlen, y)) + 1
    BY <1>1, <2>1, FS_AddElement
  <2>3. Cardinality(Above(m, mlen, y) \cup {y}) <= Cardinality(Above(m, mlen, x))
    BY <1>1, <2>1, FS_Subset
  <2> QED BY <1>1, <2>1, <2>2, <2>3
<1> QED BY <1>1, <1>2, <1>3

\* In any set of figures that is not empty there is one with none below it.
LEMMA Bottom ==
  ASSUME NEW mlen \in Nat, NEW m \in [Index(mlen) -> Int],
         NEW S, S \subseteq Index(mlen), S # {}
  PROVE  \E y \in S : \A z \in S : z \notin Below(m, mlen, y)
<1> DEFINE C == {Cardinality(Below(m, mlen, y)) : y \in S}
<1>1. C \subseteq Nat /\ C # {}
  BY Sides
<1>2. PICK y \in S : \A z \in S : Cardinality(Below(m, mlen, y)) <= Cardinality(Below(m, mlen, z))
  <2>1. PICK c \in C : \A k \in C : c <= k
    BY <1>1, LeastElement
  <2> QED BY <2>1
<1>3. ASSUME NEW z \in S, z \in Below(m, mlen, y) PROVE FALSE
  <2>1. Cardinality(Below(m, mlen, z)) < Cardinality(Below(m, mlen, y))
    BY <1>3, Sides
  <2>2. Cardinality(Below(m, mlen, z)) \in Nat /\ Cardinality(Below(m, mlen, y)) \in Nat
    BY Sides
  <2> QED BY <1>2, <2>1, <2>2
<1> QED BY <1>2, <1>3

\* An odd number of figures has a median among them.
LEMMA MedianExists ==
  ASSUME NEW n \in Nat, n % 2 = 1, NEW m \in [Index(n) -> Int]
  PROVE  \E j \in Index(n) : Middle(m, n, j)
<1> DEFINE D == Index(n)
           low(j) == Cardinality(Below(m, n, j))
           up(j) == Cardinality(Above(m, n, j))
           L == {j \in D : low(j) * 2 < n}
<1>1. /\ n \in Nat /\ n > 0 /\ D # {}
      /\ IsFiniteSet(D) /\ Cardinality(D) = n
  <2>1. n > 0
    BY SMT
  <2>2. 0 \in D
    BY <2>1 DEF Index
  <2> QED BY <2>1, <2>2, IndexFinite
<1>2. \A j \in D : low(j) \in Nat /\ up(j) \in Nat
  BY Sides
<1>3. L # {}
  <2>1. PICK y \in D : \A z \in D : z \notin Below(m, n, y)
    BY <1>1, Bottom
  <2>2. Below(m, n, y) = {}
    BY <2>1 DEF Below
  <2> QED BY <1>1, <2>2, FS_EmptySet
<1>4. PICK x \in L : \A z \in L : up(x) <= up(z)
  <2> DEFINE C == {up(z) : z \in L}
  <2>1. C \subseteq Nat /\ C # {}
    BY <1>2, <1>3
  <2>2. PICK c \in C : \A k \in C : c <= k
    BY <2>1, LeastElement
  <2> HIDE DEF L, up
  <2> QED BY <2>2
<1>5. ASSUME ~(up(x) * 2 < n) PROVE FALSE
  <2> DEFINE A == Above(m, n, x)
  <2>1. A \subseteq D /\ A # {}
    <3>1. A \subseteq D
      BY DEF Above
    <3>2. up(x) # 0
      BY <1>1, <1>2, <1>5
    <3> QED BY <3>1, <3>2, FS_EmptySet
  <2>2. PICK y \in A : \A z \in A : z \notin Below(m, n, y)
    BY <2>1, Bottom
  <2>3. Below(m, n, y) \in SUBSET (D \ A)
    BY <2>2 DEF Below
  <2>4. IsFiniteSet(D \ A) /\ Cardinality(D \ A) = n - up(x)
    <3>1. D \cap A = A
      BY <2>1
    <3> QED BY <1>1, <3>1, FS_Difference
  <2>5. low(y) <= n - up(x)
    BY <2>3, <2>4, FS_Subset
  <2>6. low(y) * 2 < n
    <3> HIDE DEF low, up
    <3>1. low(y) \in Nat /\ up(x) \in Nat /\ n % 2 = 1
      BY <1>2, <1>4, <2>1
    <3> QED BY <1>1, <1>5, <2>5, <3>1
  <2>7. up(y) < up(x)
    BY <2>2, Sides
  <2> QED BY <1>2, <1>4, <2>1, <2>6, <2>7
<1>6. Middle(m, n, x)
  BY <1>4, <1>5 DEF Middle
<1> QED BY <1>4, <1>6

\* What printentry() puts first is a figure of its array, and a median.
LEMMA PrintsMedian ==
  ASSUME NEW n \in Nat, n % 2 = 1, NEW m \in [Index(n) -> Int]
  PROVE  \E j \in Index(n) : PrintEntry(m, n) = m[j] /\ Middle(m, n, j)
<1> DEFINE found == {j \in 0..(n - 2) : Middle(m, n, j)}
<1>1. CASE found = {}
  <2>1. PICK j \in Index(n) : Middle(m, n, j)
    BY MedianExists
  <2>2. j = n - 1
    BY <1>1, <2>1 DEF Index
  <2>3. PrintEntry(m, n) = m[n - 1]
    BY <1>1 DEF PrintEntry
  <2> QED BY <2>1, <2>2, <2>3
<1>2. CASE found # {}
  <2>1. \E j \in found : \A k \in found : j <= k
    <3>1. found \subseteq Nat
      OBVIOUS
    <3> HIDE DEF found
    <3> QED BY <1>2, <3>1, LeastElement
  <2> DEFINE j0 == CHOOSE j \in found : \A k \in found : j <= k
  <2>2. j0 \in found
    BY <2>1
  <2>3. PrintEntry(m, n) = m[j0]
    BY <1>2 DEF PrintEntry
  <2>4. j0 \in Index(n) /\ Middle(m, n, j0)
    BY <2>2 DEF Index
  <2> QED BY <2>3, <2>4
<1> QED BY <1>1, <1>2

(***************************************************************************)
(* The averages                                                            *)
(***************************************************************************)

\* How two readings without a wrap between them differ.
LEMMA ReadingDifference ==
  ASSUME NEW a \in Nat, NEW s \in Nat, s \div RaplMod = a \div RaplMod
  PROVE  (s % RaplMod) - (a % RaplMod) = s - a
<1>1. RaplMod \in Nat \ {0}
  BY MeterAssumption
<1>2. ASSUME NEW x \in Nat
      PROVE  /\ x = RaplMod * (x \div RaplMod) + (x % RaplMod)
             /\ x \div RaplMod \in Nat /\ x % RaplMod \in Int
  <2>1. x % RaplMod \in 0..(RaplMod - 1)
    BY <1>1, DivNat
  <2>2. \A y \in 0..(RaplMod - 1) : y \in Int
    BY <1>1
  <2>3. x % RaplMod \in Int
    BY <2>1, <2>2, Zenon
  <2> QED BY <1>1, <2>3, DivNat
<1>3. RaplMod * (s \div RaplMod) \in Int
  BY <1>1, <1>2, MulMono
<1> QED BY <1>2, <1>3

\* The inductive invariant: in the middle of a measurement the locals are the
\* reading at its begin and the calls of the passes that are complete.
IInv ==
  /\ TypeOK
  /\ cc0 = 0
  /\ pc \in {"call", "finish"} =>
       /\ from <= joules
       /\ shown = at /\ at <= from
       /\ good => nj = at % RaplMod /\ from - Lag <= at
       /\ ~energy_fd => nj = 0
       /\ calls = num + i
  /\ pc = "finish" => /\ cyc = now /\ now >= MinCycles
                      /\ i = 0 /\ num > 0
  /\ EnergyFaithful /\ CyclesFaithful /\ MedianRight

\* What energy_uj() returns, and which readings are good.
LEMMA Readings ==
  ASSUME energy_fd \in BOOLEAN, NEW j \in Nat, NEW low \in Nat, low <= j,
         NEW x \in EnergyUj(j, low)
  PROVE  /\ x.uj \in Int /\ x.ok \in BOOLEAN /\ x.shown \in Nat
         /\ low <= x.shown /\ x.shown <= j
         /\ x.ok => x.uj = x.shown % RaplMod /\ j - Lag <= x.shown
         /\ ~energy_fd => x.uj = 0 /\ ~x.ok
<1>1. RaplMod \in Nat \ {0} /\ Lag \in Nat /\ Leftover \subseteq Int
  BY MeterAssumption
<1>2. \A s \in Nat : s % RaplMod \in Int
  BY <1>1
<1>3. CASE energy_fd
  <2>1. CASE \E s \in {y \in low..j : y >= j - Lag} :
               x = [uj |-> s % RaplMod, ok |-> TRUE, shown |-> s]
    BY <1>1, <1>2, <1>3, <2>1
  <2>2. CASE \E y \in Leftover : x = [uj |-> y, ok |-> FALSE, shown |-> low]
    BY <1>1, <1>3, <2>2
  <2> QED BY <1>3, <2>1, <2>2 DEF EnergyUj
<1>4. CASE ~energy_fd
  <2>1. x = [uj |-> 0, ok |-> FALSE, shown |-> low]
    BY <1>4 DEF EnergyUj
  <2> QED BY <1>4, <2>1
<1> QED BY <1>3, <1>4

\* The invariant holds at first.
LEMMA InitInv == ASSUME Init PROVE IInv
<1>1. TypeOK
  BY MeterAssumption DEF Init, TypeOK
<1> QED BY <1>1 DEF Init, IInv, EnergyFaithful, CyclesFaithful, MedianRight

\* ENERGY_BEGIN preserves it.
LEMMA BeginStep == ASSUME IInv, EnergyBegin PROVE IInv'
<1>1. PICK x \in EnergyUj(joules', 0) :
        nj' = x.uj /\ good' = x.ok /\ shown' = x.shown /\ at' = x.shown
  BY DEF EnergyBegin
<1>2. joules' \in Nat /\ energy_fd \in BOOLEAN /\ TypeOK
  BY MeterAssumption DEF EnergyBegin, IInv, TypeOK
<1>3. /\ x.uj \in Int /\ x.ok \in BOOLEAN /\ x.shown \in Nat
      /\ 0 <= x.shown /\ x.shown <= joules'
      /\ x.ok => x.uj = x.shown % RaplMod /\ joules' - Lag <= x.shown
      /\ ~energy_fd => x.uj = 0 /\ ~x.ok
  BY <1>2, Readings
<1>4. TypeOK'
  BY <1>1, <1>2, <1>3, MeterAssumption DEF EnergyBegin, TypeOK
<1> QED BY <1>1, <1>2, <1>3, <1>4
        DEF IInv, EnergyBegin, EnergyFaithful, CyclesFaithful, MedianRight

\* A call preserves it.
LEMMA CallStep == ASSUME IInv, Call PROVE IInv'
<1>1. TypeOK'
  <2>1. now' \in Nat /\ joules' \in Nat
    BY MeterAssumption DEF IInv, TypeOK, Call
  <2>2. cycles' \in [Calls -> Nat]
    BY DEF IInv, TypeOK, Call
  <2>3. i' \in 0..(TIMINGS + 1) /\ calls' \in Nat
    BY MeterAssumption DEF IInv, TypeOK, Call
  <2> QED BY <2>1, <2>2, <2>3 DEF IInv, TypeOK, Call, locals
<1>2. from <= joules'
  BY MeterAssumption DEF IInv, TypeOK, Call
<1>3. calls' = num' + i'
  BY DEF IInv, TypeOK, Call, locals
<1> QED BY <1>1, <1>2, <1>3
        DEF IInv, Call, locals, EnergyFaithful, CyclesFaithful, MedianRight

\* ENERGY_END does, up to its loop condition.
LEMMA EndStep == ASSUME IInv, EnergyEnd PROVE IInv'
<1>1. TypeOK'
  BY MeterAssumption DEF IInv, TypeOK, EnergyEnd, world, history
<1>2. calls' = num' + i'
  BY MeterAssumption DEF IInv, TypeOK, EnergyEnd, history
<1>3. pc' = "finish" => cyc' = now' /\ now' >= MinCycles /\ i' = 0 /\ num' > 0
  BY MeterAssumption DEF IInv, TypeOK, EnergyEnd, world
<1> QED BY <1>1, <1>2, <1>3
        DEF IInv, EnergyEnd, world, history, EnergyFaithful, CyclesFaithful, MedianRight

\* The averages preserve it: this is where EnergyFaithful and CyclesFaithful
\* become true.
LEMMA FinishStep == ASSUME IInv, Finish PROVE IInv'
<1>1. PICK x \in EnergyUj(joules, shown) :
        /\ nj' = CDiv(1000 * (x.uj - nj), num)
        /\ good' = (good /\ x.ok) /\ shown' = x.shown
  BY DEF Finish
<1>2. /\ joules \in Nat /\ shown \in Nat /\ from \in Nat /\ at \in Nat /\ nj \in Int
      /\ num \in Nat \ {0} /\ now \in Nat /\ good \in BOOLEAN /\ energy_fd \in BOOLEAN
      /\ from <= joules /\ shown = at /\ at <= from
      /\ good => nj = at % RaplMod /\ from - Lag <= at
      /\ ~energy_fd => nj = 0
      /\ calls = num /\ cyc = now /\ now >= MinCycles
  BY DEF IInv, TypeOK, Finish
<1>3. /\ x.uj \in Int /\ x.ok \in BOOLEAN /\ x.shown \in Nat
      /\ shown <= x.shown /\ x.shown <= joules
      /\ x.ok => x.uj = x.shown % RaplMod /\ joules - Lag <= x.shown
      /\ ~energy_fd => x.uj = 0 /\ ~x.ok
  BY <1>2, Readings
<1> DEFINE d == 1000 * (x.uj - nj)
<1>4. d \in Int
  BY <1>2, <1>3
<1>5. /\ nj' \in Int
      /\ d >= 0 => num * nj' <= d /\ d < num * nj' + num
      /\ d = 0 => nj' = 0
  <2> HIDE DEF d
  <2>1. /\ d >= 0 => nj' = d \div num
        /\ d < 0 => nj' = -((-d) \div num)
    BY <1>1, <1>4 DEF CDiv, d
  <2>2. CASE d >= 0
    <3>1. /\ d \div num \in Nat /\ num * (d \div num) <= d
          /\ d < num * (d \div num) + num
      <4>1. d \in Nat
        BY <1>4, <2>2
      <4> QED BY <1>2, <4>1, DivNat
    <3>2. d = 0 => d \div num = 0
      BY <1>2, SMT
    <3> QED BY <2>1, <2>2, <3>1, <3>2
  <2>3. CASE d < 0
    <3>1. (-d) \div num \in Nat
      <4>1. -d \in Nat
        BY <1>4, <2>3
      <4> QED BY <1>2, <4>1, DivNat
    <3> QED BY <1>4, <2>1, <2>3, <3>1
  <2> QED BY <1>4, <2>2, <2>3
<1>6. cyc' \in Nat /\ num * cyc' <= now /\ now < num * cyc' + num
  <2>1. cyc' = now \div num
    BY <1>2 DEF Finish
  <2> QED BY <1>2, <2>1, DivNat
<1>7. pc' = "print" /\ calls' = num /\ now' = now /\ joules' = joules /\ from' = from
      /\ at' = at /\ energy_fd' = energy_fd
  BY <1>2 DEF Finish
<1>8. TypeOK'
  BY <1>1, <1>2, <1>3, <1>5, <1>6 DEF IInv, TypeOK, Finish
<1>9. EnergyFaithful'
  <2>1. ASSUME good', ~Wrapped'
        PROVE  /\ num * nj' <= 1000 * (joules - from + Lag)
               /\ num * (nj' + 1) > 1000 * (joules - from - Lag)
    <3>1. good /\ x.ok
      BY <1>1, <1>2, <1>3, <2>1
    <3>2. x.uj - nj = x.shown - at
      <4>1. x.shown \div RaplMod = at \div RaplMod
        BY <1>1, <1>7, <2>1 DEF Wrapped
      <4> QED BY <1>2, <1>3, <3>1, <4>1, ReadingDifference
    <3>3. /\ d >= 0
          /\ d <= 1000 * (joules - from + Lag)
          /\ d >= 1000 * (joules - from - Lag)
      BY <1>2, <1>3, <3>1, <3>2, MeterAssumption
    <3>4. num * (nj' + 1) = num * nj' + num /\ num * nj' \in Int
      BY <1>2, <1>5, SMT
    <3> DEFINE p == num * nj'
               q == num * (nj' + 1)
    <3>5. p \in Int /\ q = p + num /\ p <= d /\ d < p + num
      BY <1>5, <3>3, <3>4
    <3>6. /\ 1000 * (joules - from + Lag) \in Int
          /\ 1000 * (joules - from - Lag) \in Int
      BY <1>2, MeterAssumption
    <3> HIDE DEF d, p, q
    <3>7. p <= 1000 * (joules - from + Lag) /\ q > 1000 * (joules - from - Lag)
      BY <1>2, <1>4, <3>3, <3>5, <3>6
    <3> QED BY <3>7 DEF p, q
  <2>2. ~energy_fd => nj' = 0
    BY <1>2, <1>3, <1>5
  <2> QED BY <1>7, <2>1, <2>2 DEF EnergyFaithful
<1>10. CyclesFaithful'
  <2>1. num * (cyc' + 1) = num * cyc' + num
    BY <1>2, <1>6, SMT
  <2> QED BY <1>2, <1>6, <1>7, <2>1 DEF CyclesFaithful
<1> QED BY <1>7, <1>8, <1>9, <1>10 DEF IInv, Finish, MedianRight

\* printentry() preserves it: this is where MedianRight becomes true.
LEMMA PrintStep == ASSUME IInv, PrintFigures PROVE IInv'
<1> DEFINE took == Differences(cycles)
<1>1. took \in [Index(TIMINGS) -> Int]
  BY MeterAssumption DEF IInv, TypeOK, Differences, Index, Calls
<1>2. PICK j \in Index(TIMINGS) : entry' = took[j] /\ Middle(took, TIMINGS, j)
  <2>1. TIMINGS \in Nat
    BY MeterAssumption
  <2> QED BY <1>1, <2>1, OddAssumption, PrintsMedian DEF PrintFigures
<1>3. TypeOK'
  BY <1>1, <1>2 DEF IInv, TypeOK, PrintFigures, locals, world, history
<1>4. MedianRight'
  <2>1. took' = took
    BY DEF PrintFigures, Differences
  <2> HIDE DEF took
  <2>2. /\ Below(took, TIMINGS, j) = {x \in Index(TIMINGS) : took[x] < entry'}
        /\ Above(took, TIMINGS, j) = {x \in Index(TIMINGS) : took[x] > entry'}
    BY <1>2 DEF Below, Above
  <2>3. /\ 2 * Cardinality({x \in Index(TIMINGS) : took[x] < entry'}) < TIMINGS
        /\ 2 * Cardinality({x \in Index(TIMINGS) : took[x] > entry'}) < TIMINGS
    <3>1. /\ Cardinality(Below(took, TIMINGS, j)) * 2 < TIMINGS
          /\ Cardinality(Above(took, TIMINGS, j)) * 2 < TIMINGS
      BY <1>2 DEF Middle
    <3>2. /\ Cardinality(Below(took, TIMINGS, j)) \in Nat
          /\ Cardinality(Above(took, TIMINGS, j)) \in Nat
      BY <1>1, <1>2, Sides, MeterAssumption
    <3>3. \A c \in Nat : c * 2 = 2 * c
      BY SMT
    <3> QED BY <2>2, <3>1, <3>2, <3>3, Zenon
  <2> QED BY <1>2, <2>1, <2>3 DEF MedianRight, took
<1> QED BY <1>3, <1>4
        DEF IInv, PrintFigures, locals, world, history, EnergyFaithful, CyclesFaithful

\* The invariant holds in every reachable state.
THEOREM MeterInvariance == Spec => []IInv
<1>1. Init => IInv
  BY InitInv
<1>2. IInv /\ [Next]_vars => IInv'
  <2> SUFFICES ASSUME IInv, [Next]_vars PROVE IInv'
    OBVIOUS
  <2>1. CASE UNCHANGED vars
    <3>1. TypeOK'
      BY <2>1 DEF IInv, TypeOK, vars, locals, world, history
    <3>2. EnergyFaithful' /\ CyclesFaithful'
      BY <2>1 DEF IInv, EnergyFaithful, CyclesFaithful, Wrapped,
         vars, locals, world, history
    <3>3. MedianRight'
      <4>1. Differences(cycles)' = Differences(cycles)
        BY <2>1 DEF Differences, vars
      <4>2. /\ pc' = pc /\ calls' = calls /\ entry' = entry
        BY <2>1 DEF vars, history
      <4> QED BY <4>1, <4>2, Zenon DEF IInv, MedianRight
    <3> QED BY <2>1, <3>1, <3>2, <3>3 DEF IInv, vars, locals, world, history
  <2> QED BY <2>1, BeginStep, CallStep, EndStep, FinishStep, PrintStep DEF Next
<1> QED BY <1>1, <1>2, PTL DEF Spec

\* Every variable of the energy measurement keeps its type; in particular the
\* index of a pass stays within the array of cycle counts.
THEOREM TypeCorrect == Spec => []TypeOK
<1>1. IInv => TypeOK
  BY DEF IInv
<1> QED BY <1>1, MeterInvariance, PTL

\* The figure in nanojoules is the average energy of the calls that were made,
\* but for the truncation and the lag of the counter, whenever both readings
\* are good and the counter has not wrapped between them (measure.h:17-32).
THEOREM EnergyIsAverage == Spec => []EnergyFaithful
<1>1. IInv => EnergyFaithful
  BY DEF IInv
<1> QED BY <1>1, MeterInvariance, PTL

\* The figure in cycles is the average of the calls, rounded down, and of
\* MinCycles or more (measure.h:26-32).
THEOREM CyclesAreAverage == Spec => []CyclesFaithful
<1>1. IInv => CyclesFaithful
  BY DEF IInv
<1> QED BY <1>1, MeterInvariance, PTL

\* printentry() prints the median first, for every odd number of timings
\* (measure-anything.c:163-186).
THEOREM PrintsTheMedian == Spec => []MedianRight
<1>1. IInv => MedianRight
  BY DEF IInv
<1> QED BY <1>1, MeterInvariance, PTL

(***************************************************************************)
(* The median filter average of read_data.py                               *)
(***************************************************************************)

\* Any number of the values of a list have a greatest among them.
LEMMA GreatestValue ==
  ASSUME NEW l \in Seq(Int), NEW S, S \subseteq DOMAIN l, S # {}
  PROVE  \E j \in S : \A k \in S : l[k] <= l[j]
<1> DEFINE More(j) == {k \in S : l[k] > l[j]}
           C == {Cardinality(More(j)) : j \in S}
<1>1. IsFiniteSet(S) /\ \A j \in S : l[j] \in Int
  <2>1. DOMAIN l = 1..Len(l) /\ Len(l) \in Nat
    BY LenProperties
  <2>2. IsFiniteSet(1..Len(l))
    BY <2>1, FS_Interval
  <2> QED BY <2>1, <2>2, FS_Subset
<1>2. ASSUME NEW j \in S PROVE IsFiniteSet(More(j)) /\ Cardinality(More(j)) \in Nat
  <2>1. More(j) \in SUBSET S
    OBVIOUS
  <2> HIDE DEF More
  <2> QED BY <1>1, <2>1, FS_Subset, FS_CardinalityType
<1>3. C \subseteq Nat /\ C # {}
  BY <1>2
<1>4. PICK j \in S : \A k \in S : Cardinality(More(j)) <= Cardinality(More(k))
  <2>1. PICK c \in C : \A d \in C : c <= d
    <3> HIDE DEF C
    <3> QED BY <1>3, LeastElement
  <2> HIDE DEF More
  <2> QED BY <2>1
<1>5. ASSUME NEW k \in S, ~(l[k] <= l[j]) PROVE FALSE
  <2>1. k \in More(j)
    BY <1>1, <1>5
  <2>2. More(k) \cup {k} \in SUBSET More(j)
    BY <1>1, <1>5
  <2>3. k \notin More(k)
    BY <1>1
  <2> HIDE DEF More
  <2>4. Cardinality(More(k) \cup {k}) = Cardinality(More(k)) + 1
    BY <1>2, <2>3, FS_AddElement
  <2>5. Cardinality(More(k) \cup {k}) <= Cardinality(More(j))
    BY <1>2, <2>2, FS_Subset
  <2> QED BY <1>2, <1>4, <2>4, <2>5
<1> QED BY <1>5

\* And a least.
LEMMA LeastValue ==
  ASSUME NEW l \in Seq(Int), NEW S, S \subseteq DOMAIN l, S # {}
  PROVE  \E j \in S : \A k \in S : l[j] <= l[k]
<1> DEFINE neg == [k \in 1..Len(l) |-> 0 - l[k]]
<1>1. DOMAIN l = 1..Len(l) /\ Len(l) \in Nat /\ \A k \in DOMAIN l : l[k] \in Int
  BY LenProperties
<1>2. neg \in Seq(Int) /\ DOMAIN neg = DOMAIN l /\ \A k \in DOMAIN l : neg[k] = 0 - l[k]
  BY <1>1
<1> HIDE DEF neg
<1>3. PICK j \in S : \A k \in S : neg[k] <= neg[j]
  BY <1>2, GreatestValue
<1>4. ASSUME NEW k \in S PROVE l[j] <= l[k]
  BY <1>1, <1>2, <1>3
<1> QED BY <1>4

\* The middle element of a sorted list that is not empty is one of its values.
LEMMA MedianIsValue ==
  ASSUME NEW l \in Seq(Int), l # << >>
  PROVE  \E j \in DOMAIN l : Median(l) = l[j]
<1> DEFINE D == DOMAIN l
           half == Len(l) \div 2
           Less(x) == {j \in D : l[j] < x}
           Upto(x) == {j \in D : l[j] <= x}
           G == {x \in {l[j] : j \in D} : Cardinality(Upto(x)) > half}
<1>1. /\ D = 1..Len(l) /\ Len(l) \in Nat /\ Len(l) > 0 /\ \A j \in D : l[j] \in Int
      /\ IsFiniteSet(D) /\ Cardinality(D) = Len(l) /\ half \in Nat /\ half < Len(l)
  <2>1. D = 1..Len(l) /\ Len(l) \in Nat /\ \A j \in D : l[j] \in Int
    BY LenProperties
  <2>2. Len(l) > 0
    BY <2>1, EmptySeq
  <2>3. IsFiniteSet(1..Len(l)) /\ Cardinality(1..Len(l)) = Len(l)
    BY <2>1, <2>2, FS_Interval
  <2> QED BY <2>1, <2>2, <2>3
<1> HIDE DEF D, half
<1>2. \A x : /\ Less(x) \in SUBSET D /\ Upto(x) \in SUBSET D
             /\ Cardinality(Less(x)) \in Nat /\ Cardinality(Upto(x)) \in Nat
  <2>1. \A x : Less(x) \in SUBSET D /\ Upto(x) \in SUBSET D
    OBVIOUS
  <2> HIDE DEF Less, Upto
  <2> QED BY <1>1, <2>1, FS_Subset, FS_CardinalityType
<1>3. G # {}
  <2>1. PICK j \in D : \A k \in D : l[k] <= l[j]
    <3>1. 1 \in D
      BY <1>1
    <3> QED BY <3>1, GreatestValue DEF D
  <2>2. Upto(l[j]) = D
    BY <2>1
  <2> HIDE DEF Upto
  <2> QED BY <1>1, <2>2
<1>4. PICK x \in G : \A y \in G : x <= y
  <2> DEFINE S == {j \in D : l[j] \in G}
  <2>1. S \subseteq DOMAIN l /\ S # {}
    BY <1>3 DEF D
  <2>2. PICK j \in S : \A k \in S : l[j] <= l[k]
    <3> HIDE DEF S
    <3> QED BY <2>1, LeastValue
  <2>3. l[j] \in G
    OBVIOUS
  <2>4. ASSUME NEW y \in G PROVE l[j] <= y
    <3>1. PICK k \in D : l[k] = y
      OBVIOUS
    <3> HIDE DEF G
    <3> QED BY <2>2, <3>1
  <2> QED BY <2>3, <2>4
<1>5. Cardinality(Less(x)) <= half
  <2>0. Cardinality(Less(x)) \in Nat
    BY <1>2
  <2> SUFFICES ASSUME Cardinality(Less(x)) > half PROVE FALSE
    <3> HIDE DEF Less
    <3> QED BY <1>1, <2>0
  <2>1. Less(x) # {}
    <3>1. Cardinality({}) = 0
      BY FS_EmptySet
    <3> DEFINE few == Less(x)
    <3>2. few = {} => Cardinality(few) = 0
      BY <3>1
    <3> HIDE DEF few
    <3>3. Cardinality(few) > half => few # {}
      BY <1>1, <3>2
    <3> QED BY <3>3 DEF few
  <2>2. PICK j \in Less(x) : \A k \in Less(x) : l[k] <= l[j]
    <3>1. Less(x) \subseteq DOMAIN l
      BY DEF D
    <3> HIDE DEF Less
    <3> QED BY <2>1, <3>1, GreatestValue
  <2>3. j \in D /\ l[j] < x /\ x \in Int
    BY <1>1, <2>2
  <2>4. Upto(l[j]) = Less(x)
    BY <1>1, <2>2, <2>3
  <2>5. l[j] \in G
    <3> HIDE DEF Upto, Less
    <3> QED BY <2>3, <2>4
  <2>6. x <= l[j] /\ l[j] \in Int
    <3> HIDE DEF G
    <3> QED BY <1>1, <1>4, <2>3, <2>5
  <2> QED BY <2>3, <2>6
<1>6. /\ x \in {l[j] : j \in DOMAIN l}
      /\ Cardinality({j \in DOMAIN l : l[j] < x}) <= Len(l) \div 2
      /\ Cardinality({j \in DOMAIN l : l[j] <= x}) > Len(l) \div 2
  BY <1>4, <1>5 DEF D, half
<1>7. Median(l) \in {l[j] : j \in DOMAIN l}
  BY <1>6 DEF Median
<1> QED BY <1>7

\* What mfavg() has summed after another value, and s as its sums of n values.
Plus(l, p, k) == IF InBand(l, l[k]) THEN [s |-> p.s + l[k], n |-> p.n + 1] ELSE p
IsSums(f, l, n) ==
  f = [k \in 0..n |-> IF k = 0 THEN [s |-> 0, n |-> 0] ELSE Plus(l, f[k - 1], k)]

\* The loop can go on, so it has sums after any number of values.
LEMMA SumsExist ==
  ASSUME NEW l, NEW n \in Nat
  PROVE  \E f : IsSums(f, l, n)
<1> DEFINE Missing == {m \in Nat : ~ \E f : IsSums(f, l, m)}
           zero == [s |-> 0, n |-> 0]
<1>1. ASSUME Missing # {} PROVE FALSE
  <2>1. PICK m \in Missing : \A k \in Missing : m <= k
    <3>1. Missing \subseteq Nat
      OBVIOUS
    <3> HIDE DEF Missing
    <3> QED BY <1>1, <3>1, LeastElement
  <2> HIDE DEF zero
  <2>2. m # 0
    <3>1. IsSums([k \in 0..0 |-> zero], l, 0)
      BY DEF IsSums, zero
    <3> QED BY <2>1, <3>1
  <2>3. m - 1 \in Nat /\ m - 1 \notin Missing
    BY <2>1, <2>2
  <2>4. PICK f : IsSums(f, l, m - 1)
    BY <2>3
  <2> DEFINE g == [k \in 0..m |-> IF k = m THEN Plus(l, f[m - 1], m) ELSE f[k]]
  <2>5. \A k \in 0..m : k # 0 => g[k - 1] = f[k - 1]
    BY <2>1, <2>2
  <2>6. \A k \in 0..(m - 1) : f[k] = IF k = 0 THEN zero ELSE Plus(l, f[k - 1], k)
    BY <2>4 DEF IsSums, zero
  <2>7. \A k \in 0..m : g[k] = IF k = 0 THEN zero ELSE Plus(l, g[k - 1], k)
    <3> SUFFICES ASSUME NEW k \in 0..m
                 PROVE  g[k] = IF k = 0 THEN zero ELSE Plus(l, g[k - 1], k)
      OBVIOUS
    <3>1. CASE k = m
      BY <2>2, <2>3, <2>5, <3>1
    <3>2. CASE k # m
      <4>1. k \in 0..(m - 1) /\ g[k] = f[k]
        BY <2>1, <3>2
      <4> QED BY <2>5, <2>6, <4>1
    <3> QED BY <3>1, <3>2
  <2>8. IsSums(g, l, m)
    <3>1. g = [k \in 0..m |-> g[k]]
      OBVIOUS
    <3> HIDE DEF g
    <3> QED BY <2>7, <3>1 DEF IsSums, zero
  <2> QED BY <2>1, <2>8
<1> QED BY <1>1

\* Sums is well defined: it starts with nothing, and each value is added to
\* the sums before it, or is not in the band.
LEMMA SumSteps ==
  ASSUME NEW l \in Seq(Int)
  PROVE  /\ Sums(l)[0] = [s |-> 0, n |-> 0]
         /\ \A k \in 1..Len(l) : Sums(l)[k] = Plus(l, Sums(l)[k - 1], k)
<1>1. Len(l) \in Nat
  BY LenProperties
<1>2. \E f : IsSums(f, l, Len(l))
  BY <1>1, SumsExist
<1>3. Sums(l) = CHOOSE f : IsSums(f, l, Len(l))
  BY Zenon DEF Sums, IsSums, Plus
<1>4. IsSums(Sums(l), l, Len(l))
  BY <1>2, <1>3
<1>5. \A k \in 0..Len(l) :
        Sums(l)[k] = IF k = 0 THEN [s |-> 0, n |-> 0] ELSE Plus(l, Sums(l)[k - 1], k)
  BY <1>4 DEF IsSums
<1> QED BY <1>1, <1>5

\* The sum of some values in the band, and its average, when one more is added.
LEMMA BandSum ==
  ASSUME NEW md \in Nat, NEW s \in Nat, NEW n \in Nat, NEW x \in Nat,
         4 * s >= 3 * md * n, 3 * s <= 4 * md * n,
         4 * x >= 3 * md, 3 * x <= 4 * md
  PROVE  4 * (s + x) >= 3 * md * (n + 1) /\ 3 * (s + x) <= 4 * md * (n + 1)
<1>1. md * (n + 1) = md * n + md /\ md * n \in Nat
  BY SMT
<1>2. 3 * md * n = 3 * (md * n) /\ 4 * md * n = 4 * (md * n)
  BY SMT
<1>3. 3 * md * (n + 1) = 3 * (md * (n + 1)) /\ 4 * md * (n + 1) = 4 * (md * (n + 1))
  BY SMT
<1> QED BY <1>1, <1>2, <1>3

\* mfavg() of values whose median is not negative divides a sum by the number of
\* its terms, at least one, and the quotient is in the band around the median;
\* when no value is zero, neither is it.
LEMMA MfavgNear ==
  ASSUME NEW l \in Seq(Int), l # << >>, Median(l) >= 0
  PROVE  /\ Mfavg(l).s \in Nat /\ Mfavg(l).n \in Nat \ {0}
         /\ Near(Mfavg(l), l)
         /\ (\A j \in DOMAIN l : l[j] # 0) => Mfavg(l).s # 0
<1> DEFINE md == Median(l)
           fits(p) == /\ p.s \in Nat /\ p.n \in Nat
                      /\ 4 * p.s >= 3 * md * p.n /\ 3 * p.s <= 4 * md * p.n
<1>1. PICK j \in DOMAIN l : md = l[j]
  BY MedianIsValue
<1>2. /\ DOMAIN l = 1..Len(l) /\ Len(l) \in Nat /\ \A k \in DOMAIN l : l[k] \in Int
  BY LenProperties
<1>3. md \in Nat /\ InBand(l, l[j]) /\ j \in 1..Len(l)
  BY <1>1, <1>2 DEF InBand
<1> DEFINE Wrong == {k \in Nat : k <= Len(l) /\ ~(fits(Sums(l)[k]) /\ (j <= k => Sums(l)[k].n # 0))}
<1>4. ASSUME Wrong # {} PROVE FALSE
  <2>1. PICK k \in Wrong : \A o \in Wrong : k <= o
    <3>1. Wrong \subseteq Nat
      OBVIOUS
    <3> HIDE DEF Wrong
    <3> QED BY <1>4, <3>1, LeastElement
  <2>2. CASE k = 0
    <3>1. Sums(l)[0] = [s |-> 0, n |-> 0]
      BY SumSteps
    <3>2. 3 * md * 0 = 0 /\ 4 * md * 0 = 0 /\ 4 * 0 = 0 /\ 3 * 0 = 0
      BY <1>3
    <3>3. fits(Sums(l)[0])
      BY <3>1, <3>2
    <3>4. ~(j <= 0)
      BY <1>2, <1>3
    <3> HIDE DEF fits
    <3> QED BY <2>1, <2>2, <3>3, <3>4
  <2>3. CASE k # 0
    <3> DEFINE p == Sums(l)[k - 1]
               q == Sums(l)[k]
    <3>1. k - 1 \in Nat /\ k \in 1..Len(l) /\ k - 1 <= Len(l)
      BY <1>2, <2>1, <2>3
    <3>2. fits(p) /\ (j <= k - 1 => p.n # 0)
      <4>1. k - 1 \notin Wrong
        <5> HIDE DEF Wrong
        <5> QED BY <2>1, <3>1
      <4> HIDE DEF fits
      <4> QED BY <3>1, <4>1
    <3>3. q = Plus(l, p, k)
      BY <3>1, SumSteps
    <3>4. l[k] \in Int /\ (k = j => InBand(l, l[k]))
      BY <1>2, <1>3, <3>1
    <3> HIDE DEF p, q
    <3>5. CASE InBand(l, l[k])
      <4>1. q.s = p.s + l[k] /\ q.n = p.n + 1
        BY <3>3, <3>5 DEF Plus
      <4>2. 4 * l[k] >= 3 * md /\ 3 * l[k] <= 4 * md
        BY <3>5 DEF InBand
      <4>3. p.s \in Nat /\ p.n \in Nat /\ q.s \in Nat /\ q.n \in Nat /\ l[k] \in Nat
        <5>1. p.s \in Nat /\ p.n \in Nat
          BY <3>2, Zenon
        <5>2. l[k] \in Nat
          <6> HIDE DEF md
          <6> QED BY <1>3, <3>4, <4>2
        <5> QED BY <4>1, <5>1, <5>2
      <4> HIDE DEF md
      <4>4. 4 * (p.s + l[k]) >= 3 * md * (p.n + 1) /\ 3 * (p.s + l[k]) <= 4 * md * (p.n + 1)
        BY <1>3, <3>2, <3>4, <4>2, <4>3, BandSum
      <4>5. fits(q) /\ q.n # 0
        BY <4>1, <4>3, <4>4
      <4> HIDE DEF fits
      <4> QED BY <2>1, <4>5 DEF q
    <3>6. CASE ~InBand(l, l[k])
      <4>1. q = p
        BY <3>3, <3>6 DEF Plus
      <4>2. j <= k => j <= k - 1
        BY <1>2, <1>3, <3>1, <3>4, <3>6
      <4> HIDE DEF fits
      <4> QED BY <2>1, <3>2, <4>1, <4>2 DEF q
    <3> QED BY <3>5, <3>6
  <2> QED BY <2>2, <2>3
<1>5. fits(Mfavg(l)) /\ Mfavg(l).n # 0
  <2>1. Len(l) \notin Wrong
    BY <1>4
  <2>2. j <= Len(l) /\ Len(l) <= Len(l)
    BY <1>2, <1>3
  <2> HIDE DEF fits
  <2> QED BY <1>2, <2>1, <2>2 DEF Mfavg
<1>6. Near(Mfavg(l), l)
  BY <1>5 DEF Near
<1>7. ASSUME \A o \in DOMAIN l : l[o] # 0 PROVE Mfavg(l).s # 0
  <2>1. md \in Nat \ {0} /\ Mfavg(l).n \in Nat \ {0}
    BY <1>1, <1>3, <1>5, <1>7
  <2> DEFINE m == md
             n == Mfavg(l).n
  <2> HIDE DEF m, n
  <2>2. 3 * m * n > 0
    <3>1. m \in Nat \ {0} /\ n \in Nat \ {0}
      BY <2>1 DEF m, n
    <3>2. m * n > 0
      BY <3>1, SMT
    <3> QED BY <3>1, <3>2, SMT
  <2>3. Mfavg(l).s \in Nat /\ 4 * Mfavg(l).s >= 3 * m * n
    BY <1>5 DEF m, n
  <2> DEFINE t == 3 * m * n
  <2>4. t > 0 /\ 4 * Mfavg(l).s >= t
    BY <2>2, <2>3
  <2>5. t \in Int
    BY <2>1 DEF m, n
  <2> HIDE DEF t
  <2> QED BY <2>3, <2>4, <2>5
<1> QED BY <1>5, <1>6, <1>7

\* Nothing is in the band around a negative median, so mfavg() divides by zero.
LEMMA MfavgOfNone ==
  ASSUME NEW l \in Seq(Int), l # << >>, Median(l) < 0
  PROVE  Mfavg(l).n = 0
<1> DEFINE md == Median(l)
           Wrong == {k \in Nat : k <= Len(l) /\ Sums(l)[k].n # 0}
<1>1. Len(l) \in Nat /\ \A k \in 1..Len(l) : l[k] \in Int
  BY LenProperties
<1>2. md \in Int /\ md < 0
  BY <1>1, MedianIsValue, LenProperties
<1>3. \A k \in 1..Len(l) : ~InBand(l, l[k])
  <2> SUFFICES ASSUME NEW k \in 1..Len(l), InBand(l, l[k]) PROVE FALSE
    OBVIOUS
  <2>1. 4 * l[k] >= 3 * md /\ 3 * l[k] <= 4 * md
    BY DEF InBand
  <2> HIDE DEF md
  <2> QED BY <1>1, <1>2, <2>1
<1>4. ASSUME Wrong # {} PROVE FALSE
  <2>1. PICK k \in Wrong : \A o \in Wrong : k <= o
    <3>1. Wrong \subseteq Nat
      OBVIOUS
    <3> HIDE DEF Wrong
    <3> QED BY <1>4, <3>1, LeastElement
  <2>2. k # 0
    BY <2>1, SumSteps
  <2>3. k - 1 \in Nat /\ k - 1 <= Len(l) /\ k \in 1..Len(l) /\ Sums(l)[k].n # 0
    BY <1>1, <2>1, <2>2
  <2>4. k - 1 \notin Wrong
    <3> HIDE DEF Wrong
    <3> QED BY <2>1, <2>3
  <2>5. Sums(l)[k] = Sums(l)[k - 1]
    BY <1>3, <2>3, SumSteps DEF Plus
  <2> QED BY <2>3, <2>4, <2>5
<1> QED BY <1>1, <1>4 DEF Mfavg

\* The median of one value is that value.
LEMMA MedianOfOne == ASSUME NEW v \in Int PROVE Median(<<v>>) = v
<1> DEFINE l == <<v>>
<1>1. l \in Seq(Int) /\ l[1] = v /\ DOMAIN l = {1} /\ l # << >>
  OBVIOUS
<1> HIDE DEF l
<1>2. Median(l) = v
  BY <1>1, MedianIsValue
<1> QED BY <1>2 DEF l

\* mfavg() of one value is that value.
LEMMA MfavgOfOne ==
  ASSUME NEW v \in Nat
  PROVE  Mfavg(<<v>>) = [s |-> v, n |-> 1]
<1> DEFINE l == <<v>>
<1>1. l \in Seq(Int) /\ Len(l) = 1 /\ l[1] = v /\ DOMAIN l = {1} /\ l # << >>
  OBVIOUS
<1> HIDE DEF l
<1>2. Median(l) = v
  BY MedianOfOne DEF l
<1>3. InBand(l, l[1])
  BY <1>1, <1>2 DEF InBand
<1>4. Sums(l)[1] = Plus(l, Sums(l)[0], 1) /\ Sums(l)[0] = [s |-> 0, n |-> 0]
  <2>1. \A k \in 1..Len(l) : Sums(l)[k] = Plus(l, Sums(l)[k - 1], k)
    BY <1>1, SumSteps
  <2>2. 1 \in 1..Len(l) /\ 1 - 1 = 0
    BY <1>1
  <2> QED BY <1>1, <2>1, <2>2, SumSteps
<1>5. Plus(l, [s |-> 0, n |-> 0], 1) = [s |-> v, n |-> 1]
  BY <1>1, <1>3 DEF Plus
<1> QED BY <1>1, <1>4, <1>5 DEF Mfavg, l

(***************************************************************************)
(* What read_data.py has collected                                         *)
(***************************************************************************)

\* The values of each kind that have been read for a measurement, and where
\* they are kept.
Kinds == {"njoule", "avgcyc"}
LogOf(m, kind) == IF kind = "avgcyc" THEN cycs[m] ELSE njs[m]
Got(m, kind) == Values(LogOf(m, kind))
Key(m, kind) == <<m[2], m[3], kind>>
Has(m, kind) == m[1] \in DOMAIN data /\ Key(m, kind) \in DOMAIN data[m[1]]

\* A dictionary holds what was read: all the values if there is no size, the
\* last one if there is.
Stored(m, kind) ==
  LET all == Got(m, kind)
  IN  /\ Has(m, kind) <=> all # << >>
      /\ all # << >> =>
           data[m[1]][Key(m, kind)] = IF m[2] = "-" THEN all ELSE <<all[Len(all)]>>

\* What is read: values with the number of their line.
Read(vals) == [of : Nat, v : vals]

ReadTypeOK ==
  /\ phase \in {"read", "output", "crashed"}
  /\ open \in Measurements \cup {None}
  /\ figures \in Nat
  /\ njs \in [Measurements -> Seq(Read(NJoules))]
  /\ cycs \in [Measurements -> Seq(Read(AvgCycs))]

\* Lines are numbered in their order, the line that waits for its cycles is
\* the last one, and joules that have cycles have the last ones.
PairInv ==
  \A m \in Measurements :
    /\ \A k \in DOMAIN cycs[m] : cycs[m][k].of <= figures
    /\ open = m => njs[m] # << >> /\ LastOf(njs[m]).of = figures
    /\ (\E k \in DOMAIN cycs[m] : cycs[m][k].of = LastOf(njs[m]).of) =>
         LastOf(cycs[m]).of = LastOf(njs[m]).of

\* The inductive invariant: dictionaries hold what was read and nothing else, and
\* rows are printed when all has been read.
ReadInv ==
  /\ ReadTypeOK
  /\ PairInv
  /\ phase = "read" => rows = {}
  /\ \A m \in Measurements, kind \in Kinds : Stored(m, kind)
  /\ \A alg \in DOMAIN data : \A x \in DOMAIN data[alg] :
       \E m \in Measurements, kind \in Kinds : alg = m[1] /\ x = Key(m, kind)
  /\ \A r \in rows : r.of \in Measurements
  /\ RowsRight
  /\ GetsThrough

\* Different measurements, or kinds, have different places.
LEMMA PlacesDiffer ==
  ASSUME NEW m \in Measurements, NEW w \in Measurements, NEW k, NEW q,
         m[1] = w[1], Key(m, k) = Key(w, q)
  PROVE  m = w /\ k = q
<1>1. m[2] = w[2] /\ m[3] = w[3] /\ k = q
  BY DEF Key
<1>2. m = <<m[1], m[2], m[3]>> /\ w = <<w[1], w[2], w[3]>>
  BY FigureAssumption
<1> QED BY <1>1, <1>2

\* What Collect does to the place of the line, and to the others.
LEMMA CollectPlaces ==
  ASSUME ReadInv, NEW m \in Measurements, NEW kind \in Kinds, NEW v, data' = Collect(m, kind, v)
  PROVE  /\ m[1] \in DOMAIN data' /\ Key(m, kind) \in DOMAIN data'[m[1]]
         /\ data'[m[1]][Key(m, kind)] =
              IF m[2] = "-" /\ Has(m, kind) THEN Append(data[m[1]][Key(m, kind)], v) ELSE <<v>>
         /\ \A alg, x : alg # m[1] \/ x # Key(m, kind) =>
              /\ alg \in DOMAIN data' /\ x \in DOMAIN data'[alg] <=>
                   alg \in DOMAIN data /\ x \in DOMAIN data[alg]
              /\ alg \in DOMAIN data /\ x \in DOMAIN data[alg] => data'[alg][x] = data[alg][x]
<1> DEFINE d == IF m[1] \in DOMAIN data THEN data[m[1]] ELSE << >>
           key == Key(m, kind)
           new == IF <<"-", m[3], kind>> \in DOMAIN d THEN Append(d[key], v) ELSE <<v>>
           e == Put(d, key, new)
<1>1. data' = Put(data, m[1], e)
  BY Zenon DEF Collect, Key
<1> HIDE DEF e
<1>2. /\ DOMAIN data' = DOMAIN data \cup {m[1]} /\ data'[m[1]] = e
      /\ \A alg \in DOMAIN data \ {m[1]} : data'[alg] = data[alg]
  BY <1>1 DEF Put
<1> HIDE DEF d, new, key
<1>3. /\ DOMAIN e = DOMAIN d \cup {key} /\ e[key] = new
      /\ \A x \in DOMAIN d \ {key} : e[x] = d[x]
  BY DEF e, Put
<1>4. m[1] \in DOMAIN data => d = data[m[1]]
  BY DEF d
<1>5. m[1] \notin DOMAIN data => DOMAIN d = {}
  BY DEF d
<1>6. <<"-", m[3], kind>> \in DOMAIN d <=> m[2] = "-" /\ Has(m, kind)
  <2>1. CASE m[2] = "-"
    <3>1. <<"-", m[3], kind>> = key
      BY <2>1 DEF key, Key
    <3> QED BY <1>4, <1>5, <2>1, <3>1 DEF Has, key
  <2>2. CASE m[2] # "-"
    <3> SUFFICES ASSUME <<"-", m[3], kind>> \in DOMAIN d PROVE FALSE
      BY <2>2
    <3>1. m[1] \in DOMAIN data /\ <<"-", m[3], kind>> \in DOMAIN data[m[1]]
      BY <1>4, <1>5
    <3>2. PICK w \in Measurements, q \in Kinds : m[1] = w[1] /\ <<"-", m[3], kind>> = Key(w, q)
      BY <3>1 DEF ReadInv
    <3>3. w[2] = "-" /\ w[3] = m[3]
      BY <3>2 DEF Key
    <3> QED BY <2>2, <3>2, <3>3, NameAssumption
  <2> QED BY <2>1, <2>2
<1>7. new = IF m[2] = "-" /\ Has(m, kind) THEN Append(data[m[1]][key], v) ELSE <<v>>
  <2>1. CASE m[2] = "-" /\ Has(m, kind)
    <3>1. d[key] = data[m[1]][key]
      BY <1>4, <2>1 DEF Has
    <3> QED BY <1>6, <2>1, <3>1, Zenon DEF new
  <2>2. CASE ~(m[2] = "-" /\ Has(m, kind))
    BY <1>6, <2>2, Zenon DEF new
  <2> QED BY <2>1, <2>2
<1>8. ASSUME NEW alg, NEW x, alg # m[1] \/ x # key
      PROVE  /\ alg \in DOMAIN data' /\ x \in DOMAIN data'[alg] <=>
                  alg \in DOMAIN data /\ x \in DOMAIN data[alg]
             /\ alg \in DOMAIN data /\ x \in DOMAIN data[alg] => data'[alg][x] = data[alg][x]
  <2>1. CASE alg # m[1]
    BY <1>2, <2>1
  <2>2. CASE alg = m[1] /\ m[1] \in DOMAIN data
    BY <1>2, <1>3, <1>4, <1>8, <2>2
  <2>3. CASE alg = m[1] /\ m[1] \notin DOMAIN data
    BY <1>2, <1>3, <1>5, <1>8, <2>3
  <2> QED BY <2>1, <2>2, <2>3
<1> QED BY <1>2, <1>3, <1>7, <1>8 DEF key

\* The last value of a list to which one was appended.
LEMMA LastOfAppend ==
  ASSUME NEW l \in Seq(Int), NEW v \in Int
  PROVE  /\ Append(l, v) # << >> /\ Append(l, v)[Len(Append(l, v))] = v
         /\ l = << >> => Append(l, v) = <<v>>
<1>1. /\ Len(l) \in Nat /\ Len(Append(l, v)) = Len(l) + 1
      /\ Append(l, v)[Len(l) + 1] = v
  BY LenProperties, AppendProperties
<1>2. Append(l, v) # << >>
  BY AppendProperties
<1>3. l = << >> => Append(l, v) = <<v>>
  OBVIOUS
<1> QED BY <1>1, <1>2, <1>3

\* A line with another value keeps what is collected in step with what is read.
LEMMA CollectStores ==
  ASSUME ReadInv, NEW m \in Measurements, NEW kind \in Kinds, NEW v \in Int, data' = Collect(m, kind, v),
         Got(m, kind) \in Seq(Int), Got(m, kind)' = Append(Got(m, kind), v),
         \A w \in Measurements, q \in Kinds :
           w # m \/ q # kind => Got(w, q)' = Got(w, q)
  PROVE  /\ \A w \in Measurements, q \in Kinds : Stored(w, q)'
         /\ \A alg \in DOMAIN data' : \A x \in DOMAIN data'[alg] :
              \E w \in Measurements, q \in Kinds : alg = w[1] /\ x = Key(w, q)
<1> DEFINE key == Key(m, kind)
           all == Got(m, kind)
           new == Got(m, kind)'
<1>1. /\ m[1] \in DOMAIN data' /\ key \in DOMAIN data'[m[1]]
      /\ data'[m[1]][key] =
           IF m[2] = "-" /\ Has(m, kind) THEN Append(data[m[1]][key], v) ELSE <<v>>
      /\ \A alg, x : alg # m[1] \/ x # key =>
           /\ alg \in DOMAIN data' /\ x \in DOMAIN data'[alg] <=>
                alg \in DOMAIN data /\ x \in DOMAIN data[alg]
           /\ alg \in DOMAIN data /\ x \in DOMAIN data[alg] => data'[alg][x] = data[alg][x]
  BY CollectPlaces
<1>2. /\ all \in Seq(Int) /\ new = Append(all, v)
      /\ new # << >> /\ new[Len(new)] = v
      /\ all = << >> => new = <<v>>
  <2>1. all \in Seq(Int) /\ new = Append(all, v)
    OBVIOUS
  <2> QED BY <2>1, LastOfAppend
<1>3. /\ Has(m, kind) <=> all # << >>
      /\ all # << >> => data[m[1]][key] = IF m[2] = "-" THEN all ELSE <<all[Len(all)]>>
  BY Zenon DEF ReadInv, Stored
<1>4. data'[m[1]][key] = IF m[2] = "-" THEN new ELSE <<new[Len(new)]>>
  <2> HIDE DEF all, new, key
  <2>1. CASE m[2] = "-"
    BY <1>1, <1>2, <1>3, <2>1
  <2>2. CASE m[2] # "-"
    BY <1>1, <1>2, <2>2
  <2> QED BY <2>1, <2>2
<1>5. Stored(m, kind)'
  BY <1>1, <1>2, <1>4, Zenon DEF Stored, Has
<1>6. ASSUME NEW w \in Measurements, NEW q \in Kinds, w # m \/ q # kind
      PROVE  Stored(w, q)'
  <2>1. w[1] # m[1] \/ Key(w, q) # key
    BY <1>6, PlacesDiffer
  <2>2. Stored(w, q) /\ Got(w, q)' = Got(w, q)
    BY <1>6 DEF ReadInv
  <2>3. Has(w, q)' <=> Has(w, q)
    BY <1>1, <2>1, Zenon DEF Has
  <2>4. Has(w, q) => data'[w[1]][Key(w, q)] = data[w[1]][Key(w, q)]
    BY <1>1, <2>1, Zenon DEF Has
  <2> QED BY <2>2, <2>3, <2>4, Zenon DEF Stored
<1>7. ASSUME NEW alg \in DOMAIN data', NEW x \in DOMAIN data'[alg]
      PROVE  \E w \in Measurements, q \in Kinds : alg = w[1] /\ x = Key(w, q)
  <2>1. CASE alg = m[1] /\ x = key
    BY <2>1
  <2>2. CASE ~(alg = m[1] /\ x = key)
    <3>1. alg \in DOMAIN data /\ x \in DOMAIN data[alg]
      BY <1>1, <1>7, <2>2, Zenon
    <3> QED BY <3>1 DEF ReadInv
  <2> QED BY <2>1, <2>2
<1>8. \A w \in Measurements, q \in Kinds : Stored(w, q)'
  BY <1>5, <1>6, Zenon
<1> QED BY <1>7, <1>8, Zenon

\* The lists of values are lists of numbers, as long as the logs.
LEMMA ValuesOfLog ==
  ASSUME NEW vals, vals \subseteq Int, NEW log \in Seq(Read(vals))
  PROVE  /\ Values(log) \in Seq(vals) /\ Values(log) \in Seq(Int)
         /\ Len(Values(log)) = Len(log) /\ (Values(log) = << >> <=> log = << >>)
         /\ \A k \in DOMAIN log : Values(log)[k] = log[k].v /\ log[k].v \in vals /\ log[k].of \in Nat
<1>1. /\ DOMAIN log = 1..Len(log) /\ Len(log) \in Nat
      /\ \A k \in DOMAIN log : log[k].v \in vals /\ log[k].of \in Nat
  <2>1. /\ DOMAIN log = 1..Len(log) /\ Len(log) \in Nat
        /\ \A k \in 1..Len(log) : log[k] \in Read(vals)
    BY LenProperties, ElementOfSeq
  <2>2. \A k \in DOMAIN log : log[k].v \in vals /\ log[k].of \in Nat
    BY <2>1 DEF Read
  <2> QED BY <2>1, <2>2
<1>2. Values(log) \in Seq(vals) /\ Values(log) \in Seq(Int) /\ Len(Values(log)) = Len(log)
  <2> DEFINE n == Len(log)
             vs == [k \in 1..n |-> log[k].v]
  <2>1. n \in Nat /\ \A k \in 1..n : log[k].v \in vals /\ log[k].v \in Int
    BY <1>1
  <2>2. vs = Values(log)
    BY <1>1 DEF Values
  <2> HIDE DEF n
  <2>3. vs \in Seq(vals) /\ vs \in Seq(Int) /\ Len(vs) = n
    BY <2>1
  <2> QED BY <2>2, <2>3 DEF n
<1>3. Values(log) = << >> <=> Len(log) = 0
  BY <1>2, EmptySeq
<1>4. log = << >> <=> Len(log) = 0
  BY EmptySeq
<1> QED BY <1>1, <1>2, <1>3, <1>4 DEF Values

\* The values when another line has been read.
LEMMA ValuesAppend ==
  ASSUME NEW vals, vals \subseteq Int, NEW log \in Seq(Read(vals)), NEW e \in Read(vals)
  PROVE  /\ Append(log, e) \in Seq(Read(vals)) /\ Append(log, e) # << >>
         /\ Values(Append(log, e)) = Append(Values(log), e.v)
         /\ LastOf(Append(log, e)) = e
         /\ \A k \in DOMAIN Append(log, e) : Append(log, e)[k] = e \/ (k \in DOMAIN log /\ Append(log, e)[k] = log[k])
<1> DEFINE new == Append(log, e)
<1>1. /\ DOMAIN log = 1..Len(log) /\ Len(log) \in Nat
      /\ new \in Seq(Read(vals)) /\ new # << >> /\ Len(new) = Len(log) + 1
      /\ DOMAIN new = 1..(Len(log) + 1) /\ new[Len(log) + 1] = e
      /\ \A k \in DOMAIN log : new[k] = log[k]
  BY LenProperties, AppendProperties
<1>2. LastOf(new) = e
  BY <1>1 DEF LastOf
<1>3. \A k \in DOMAIN new : k = Len(log) + 1 \/ k \in DOMAIN log
  BY <1>1
<1> HIDE DEF new
<1>4. Values(new) = Append(Values(log), e.v)
  BY <1>1 DEF Values
<1> QED BY <1>1, <1>2, <1>3, <1>4 DEF new

\* What has been read of a measurement.
LEMMA LogsTyped ==
  ASSUME ReadTypeOK, NEW m \in Measurements
  PROVE  /\ njs[m] \in Seq(Read(NJoules)) /\ cycs[m] \in Seq(Read(AvgCycs))
         /\ NJoules \subseteq Int /\ AvgCycs \subseteq Int /\ AvgCycs \subseteq Nat \ {0}
         /\ \A kind \in Kinds : Got(m, kind) \in Seq(Int)
<1>1. /\ njs[m] \in Seq(Read(NJoules)) /\ cycs[m] \in Seq(Read(AvgCycs))
      /\ NJoules \subseteq Int /\ AvgCycs \subseteq Int /\ AvgCycs \subseteq Nat \ {0}
  BY ValueAssumption DEF ReadTypeOK
<1>2. Values(njs[m]) \in Seq(Int) /\ Values(cycs[m]) \in Seq(Int)
  BY <1>1, ValuesOfLog
<1> QED BY <1>1, <1>2, Zenon DEF Got, LogOf

\* Before the first line.
LEMMA ReadInitInv == ASSUME ReadInit PROVE ReadInv
<1>1. ReadTypeOK
  BY DEF ReadInit, ReadTypeOK
<1>2. ASSUME NEW m \in Measurements, NEW kind \in Kinds PROVE Stored(m, kind)
  <2>1. LogOf(m, kind) = << >> /\ DOMAIN data = {}
    BY DEF ReadInit, LogOf
  <2>2. Got(m, kind) = << >>
    BY <2>1 DEF Got, Values
  <2> QED BY <2>1, <2>2, Zenon DEF Stored, Has
<1>3. DOMAIN data = {}
  BY DEF ReadInit
<1>4. PairInv
  BY FigureAssumption DEF PairInv, ReadInit
<1>5. RowsRight /\ GetsThrough
  BY DEF ReadInit, RowsRight, GetsThrough
<1> QED BY <1>1, <1>2, <1>3, <1>4, <1>5 DEF ReadInit, ReadInv

\* While lines are read there are no rows yet.
LEMMA NoRows ==
  ASSUME phase = "read", rows = {}
  PROVE  RowsRight /\ GetsThrough /\ \A r \in rows : r.of \in Measurements
BY DEF RowsRight, GetsThrough

\* A line of joules.
LEMMA ReadJoulesInv == ASSUME ReadInv, ReadJoules PROVE ReadInv'
<1>1. PICK m \in Measurements, v \in NJoules :
        /\ data' = Collect(m, "njoule", v) /\ open' = m
        /\ njs' = [njs EXCEPT ![m] = Append(@, [of |-> figures', v |-> v])]
  BY DEF ReadJoules
<1>2. /\ phase = "read" /\ open = None /\ rows = {} /\ figures \in Nat /\ figures' = figures + 1
      /\ phase' = phase /\ rows' = rows /\ cycs' = cycs
  BY DEF ReadJoules, ReadInv, ReadTypeOK
<1> DEFINE e == [of |-> figures + 1, v |-> v]
<1>3. /\ njs[m] \in Seq(Read(NJoules)) /\ NJoules \subseteq Int /\ e \in Read(NJoules)
      /\ ReadTypeOK /\ Got(m, "njoule") \in Seq(Int)
  <2>1. ReadTypeOK /\ "njoule" \in Kinds
    BY DEF ReadInv, Kinds
  <2>2. e \in Read(NJoules)
    BY <1>2 DEF Read
  <2> QED BY <2>1, <2>2, LogsTyped
<1>4. /\ Append(njs[m], e) \in Seq(Read(NJoules)) /\ Append(njs[m], e) # << >>
      /\ Values(Append(njs[m], e)) = Append(Values(njs[m]), v)
      /\ LastOf(Append(njs[m], e)).of = figures + 1
  <2>1. e.v = v /\ e.of = figures + 1
    OBVIOUS
  <2> DEFINE log == njs[m]
  <2> HIDE DEF e, log
  <2>2. log \in Seq(Read(NJoules)) /\ NJoules \subseteq Int /\ e \in Read(NJoules)
    BY <1>3 DEF log
  <2>3. /\ Append(log, e) \in Seq(Read(NJoules)) /\ Append(log, e) # << >>
        /\ Values(Append(log, e)) = Append(Values(log), e.v)
        /\ LastOf(Append(log, e)) = e
        /\ \A k \in DOMAIN Append(log, e) :
             Append(log, e)[k] = e \/ (k \in DOMAIN log /\ Append(log, e)[k] = log[k])
    BY <2>2, ValuesAppend, Zenon
  <2> QED BY <2>1, <2>3, Zenon DEF log
<1>5. /\ njs' \in [Measurements -> Seq(Read(NJoules))] /\ njs'[m] = Append(njs[m], e)
      /\ \A w \in Measurements : w # m => njs'[w] = njs[w]
  BY <1>1, <1>2, <1>4 DEF ReadInv, ReadTypeOK
<1>6. ReadTypeOK'
  BY <1>1, <1>2, <1>5 DEF ReadInv, ReadTypeOK
<1>7. Got(m, "njoule")' = Append(Got(m, "njoule"), v)
  BY <1>4, <1>5 DEF Got, LogOf
<1>8. ASSUME NEW w \in Measurements, NEW q \in Kinds, w # m \/ q # "njoule"
      PROVE  Got(w, q)' = Got(w, q)
  BY <1>2, <1>5, <1>8 DEF Got, LogOf, Kinds
<1>9. /\ \A w \in Measurements, q \in Kinds : Stored(w, q)'
      /\ \A alg \in DOMAIN data' : \A x \in DOMAIN data'[alg] :
           \E w \in Measurements, q \in Kinds : alg = w[1] /\ x = Key(w, q)
  <2>1. "njoule" \in Kinds /\ v \in Int
    BY <1>3 DEF Kinds
  <2> QED BY <1>1, <1>3, <1>7, <1>8, <2>1, CollectStores
<1>10. PairInv'
  <2> SUFFICES ASSUME NEW w \in Measurements
               PROVE  /\ \A k \in DOMAIN cycs'[w] : cycs'[w][k].of <= figures'
                      /\ open' = w => njs'[w] # << >> /\ LastOf(njs'[w]).of = figures'
                      /\ (\E k \in DOMAIN cycs'[w] : cycs'[w][k].of = LastOf(njs'[w]).of) =>
                           LastOf(cycs'[w]).of = LastOf(njs'[w]).of
    BY DEF PairInv
  <2>1. \A k \in DOMAIN cycs[w] : cycs[w][k].of \in Nat /\ cycs[w][k].of <= figures
    BY <1>3, LogsTyped, ValuesOfLog DEF ReadInv, PairInv
  <2>2. \A k \in DOMAIN cycs[w] : cycs[w][k].of <= figures + 1 /\ cycs[w][k].of # figures + 1
    BY <1>2, <2>1
  <2>3. CASE w = m
    BY <1>1, <1>2, <1>4, <1>5, <2>2, <2>3
  <2>4. CASE w # m
    BY <1>1, <1>2, <1>5, <2>2, <2>4 DEF ReadInv, PairInv
  <2> QED BY <2>3, <2>4
<1>11. (RowsRight /\ GetsThrough /\ \A r \in rows : r.of \in Measurements)'
  BY <1>2, NoRows DEF RowsRight, GetsThrough
<1> QED BY <1>2, <1>6, <1>9, <1>10, <1>11 DEF ReadInv

\* The line of cycles after it.
LEMMA ReadCyclesInv == ASSUME ReadInv, ReadCycles PROVE ReadInv'
<1>1. PICK v \in AvgCycs :
        /\ data' = Collect(open, "avgcyc", v)
        /\ cycs' = [cycs EXCEPT ![open] = Append(@, [of |-> figures, v |-> v])]
  BY DEF ReadCycles
<1>2. /\ phase = "read" /\ rows = {} /\ open' = None /\ figures \in Nat /\ figures' = figures
      /\ phase' = phase /\ rows' = rows /\ njs' = njs
  BY DEF ReadCycles, ReadInv, ReadTypeOK
<1>0. PICK m \in Measurements : open = m
  BY DEF ReadCycles, ReadInv, ReadTypeOK
<1> DEFINE e == [of |-> figures, v |-> v]
<1>3. /\ cycs[m] \in Seq(Read(AvgCycs)) /\ AvgCycs \subseteq Int /\ e \in Read(AvgCycs)
      /\ ReadTypeOK /\ Got(m, "avgcyc") \in Seq(Int)
  <2>1. ReadTypeOK /\ "avgcyc" \in Kinds
    BY DEF ReadInv, Kinds
  <2>2. e \in Read(AvgCycs)
    BY <1>2 DEF Read
  <2> QED BY <2>1, <2>2, LogsTyped
<1>4. /\ Append(cycs[m], e) \in Seq(Read(AvgCycs))
      /\ Values(Append(cycs[m], e)) = Append(Values(cycs[m]), v)
      /\ LastOf(Append(cycs[m], e)).of = figures
      /\ \A k \in DOMAIN Append(cycs[m], e) :
           \/ Append(cycs[m], e)[k].of = figures
           \/ k \in DOMAIN cycs[m] /\ Append(cycs[m], e)[k] = cycs[m][k]
  <2>1. e.v = v /\ e.of = figures
    OBVIOUS
  <2> DEFINE log == cycs[m]
  <2> HIDE DEF e, log
  <2>2. log \in Seq(Read(AvgCycs)) /\ AvgCycs \subseteq Int /\ e \in Read(AvgCycs)
    BY <1>3 DEF log
  <2>3. /\ Append(log, e) \in Seq(Read(AvgCycs)) /\ Append(log, e) # << >>
        /\ Values(Append(log, e)) = Append(Values(log), e.v)
        /\ LastOf(Append(log, e)) = e
        /\ \A k \in DOMAIN Append(log, e) :
             Append(log, e)[k] = e \/ (k \in DOMAIN log /\ Append(log, e)[k] = log[k])
    BY <2>2, ValuesAppend, Zenon
  <2> QED BY <2>1, <2>3, Zenon DEF log
<1>5. /\ cycs' \in [Measurements -> Seq(Read(AvgCycs))] /\ cycs'[m] = Append(cycs[m], e)
      /\ \A w \in Measurements : w # m => cycs'[w] = cycs[w]
  BY <1>0, <1>1, <1>4 DEF ReadInv, ReadTypeOK
<1>6. ReadTypeOK'
  BY <1>2, <1>5 DEF ReadInv, ReadTypeOK
<1>7. Got(m, "avgcyc")' = Append(Got(m, "avgcyc"), v)
  BY <1>4, <1>5 DEF Got, LogOf
<1>8. ASSUME NEW w \in Measurements, NEW q \in Kinds, w # m \/ q # "avgcyc"
      PROVE  Got(w, q)' = Got(w, q)
  BY <1>2, <1>5, <1>8 DEF Got, LogOf, Kinds
<1>9. /\ \A w \in Measurements, q \in Kinds : Stored(w, q)'
      /\ \A alg \in DOMAIN data' : \A x \in DOMAIN data'[alg] :
           \E w \in Measurements, q \in Kinds : alg = w[1] /\ x = Key(w, q)
  <2>1. "avgcyc" \in Kinds /\ v \in Int /\ data' = Collect(m, "avgcyc", v)
    BY <1>0, <1>1, <1>3 DEF Kinds
  <2> QED BY <1>3, <1>7, <1>8, <2>1, CollectStores
<1>10. PairInv'
  <2> SUFFICES ASSUME NEW w \in Measurements
               PROVE  /\ \A k \in DOMAIN cycs'[w] : cycs'[w][k].of <= figures'
                      /\ open' = w => njs'[w] # << >> /\ LastOf(njs'[w]).of = figures'
                      /\ (\E k \in DOMAIN cycs'[w] : cycs'[w][k].of = LastOf(njs'[w]).of) =>
                           LastOf(cycs'[w]).of = LastOf(njs'[w]).of
    BY DEF PairInv
  <2>1. open' # w
    BY <1>2, FigureAssumption
  <2>2. CASE w = m
    <3>1. LastOf(njs[m]).of = figures /\ \A k \in DOMAIN cycs[m] : cycs[m][k].of <= figures
      BY <1>0 DEF ReadInv, PairInv
    <3>2. LastOf(cycs'[m]).of = figures /\ njs'[m] = njs[m]
      BY <1>2, <1>4, <1>5
    <3>3. \A k \in DOMAIN cycs'[m] : cycs'[m][k].of <= figures
      BY <1>2, <1>4, <1>5, <3>1
    <3> QED BY <1>2, <2>1, <2>2, <3>1, <3>2, <3>3
  <2>3. CASE w # m
    BY <1>2, <1>5, <2>1, <2>3 DEF ReadInv, PairInv
  <2> QED BY <2>2, <2>3
<1>11. (RowsRight /\ GetsThrough /\ \A r \in rows : r.of \in Measurements)'
  BY <1>2, NoRows DEF RowsRight, GetsThrough
<1> QED BY <1>2, <1>6, <1>9, <1>10, <1>11 DEF ReadInv

\* What is kept of the joules of a measurement.
LEMMA KeptJoules ==
  ASSUME ReadInv, NEW m \in Measurements, Has(m, "njoule")
  PROVE  LET l == data[m[1]][Key(m, "njoule")]
         IN  /\ njs[m] # << >> /\ LastOf(njs[m]).v \in Int
             /\ l \in Seq(Int) /\ l # << >>
             /\ l = IF m[2] = "-" THEN Values(njs[m]) ELSE <<LastOf(njs[m]).v>>
<1> DEFINE l == data[m[1]][Key(m, "njoule")]
           last == Len(njs[m])
<1>1. /\ Values(njs[m]) # << >>
      /\ l = IF m[2] = "-" THEN Values(njs[m]) ELSE <<Values(njs[m])[Len(Values(njs[m]))]>>
  <2>1. Stored(m, "njoule") /\ Got(m, "njoule") = Values(njs[m])
    BY DEF ReadInv, Kinds, Got, LogOf
  <2> QED BY <2>1, Zenon DEF Stored
<1>2. njs[m] \in Seq(Read(NJoules)) /\ NJoules \subseteq Int
  BY LogsTyped DEF ReadInv
<1>3. /\ Values(njs[m]) \in Seq(Int) /\ Len(Values(njs[m])) = last /\ njs[m] # << >>
      /\ \A k \in DOMAIN njs[m] : Values(njs[m])[k] = njs[m][k].v /\ njs[m][k].v \in NJoules
  BY <1>1, <1>2, ValuesOfLog
<1>4. last \in DOMAIN njs[m]
  BY <1>2, <1>3, LenProperties, EmptySeq
<1>5. Values(njs[m])[last] = LastOf(njs[m]).v /\ LastOf(njs[m]).v \in Int
  BY <1>2, <1>3, <1>4 DEF LastOf
<1> DEFINE a == LastOf(njs[m]).v
<1>6. l \in Seq(Int) /\ l # << >>
  <2>1. CASE m[2] = "-"
    BY <1>1, <1>3, <2>1
  <2>2. CASE m[2] # "-"
    <3>1. l = <<a>> /\ a \in Int
      BY <1>1, <1>3, <1>5, <2>2
    <3> HIDE DEF l, a
    <3> QED BY <3>1
  <2> QED BY <2>1, <2>2
<1> QED BY <1>1, <1>3, <1>5, <1>6

\* And of its cycles.
LEMMA KeptCycles ==
  ASSUME ReadInv, NEW m \in Measurements
  PROVE  LET c == data[m[1]][Key(m, "avgcyc")]
         IN  /\ Has(m, "avgcyc") <=> cycs[m] # << >>
             /\ Has(m, "avgcyc") =>
                  /\ c \in Seq(Nat \ {0}) /\ c # << >> /\ LastOf(cycs[m]).v \in Nat \ {0}
                  /\ c = IF m[2] = "-" THEN Values(cycs[m]) ELSE <<LastOf(cycs[m]).v>>
<1> DEFINE c == data[m[1]][Key(m, "avgcyc")]
           last == Len(cycs[m])
<1>1. /\ Has(m, "avgcyc") <=> Values(cycs[m]) # << >>
      /\ Values(cycs[m]) # << >> =>
           c = IF m[2] = "-" THEN Values(cycs[m]) ELSE <<Values(cycs[m])[Len(Values(cycs[m]))]>>
  <2>1. Stored(m, "avgcyc") /\ Got(m, "avgcyc") = Values(cycs[m])
    BY DEF ReadInv, Kinds, Got, LogOf
  <2> QED BY <2>1, Zenon DEF Stored
<1>2. cycs[m] \in Seq(Read(AvgCycs)) /\ AvgCycs \subseteq Int /\ AvgCycs \subseteq Nat \ {0}
  BY LogsTyped DEF ReadInv
<1>3. /\ Values(cycs[m]) \in Seq(AvgCycs) /\ Len(Values(cycs[m])) = last
      /\ Values(cycs[m]) = << >> <=> cycs[m] = << >>
      /\ \A k \in DOMAIN cycs[m] : Values(cycs[m])[k] = cycs[m][k].v /\ cycs[m][k].v \in AvgCycs
  BY <1>2, ValuesOfLog
<1>4. ASSUME Has(m, "avgcyc")
      PROVE  /\ c \in Seq(Nat \ {0}) /\ c # << >> /\ LastOf(cycs[m]).v \in Nat \ {0}
             /\ c = IF m[2] = "-" THEN Values(cycs[m]) ELSE <<LastOf(cycs[m]).v>>
  <2>1. last \in DOMAIN cycs[m]
    BY <1>1, <1>2, <1>3, <1>4, LenProperties, EmptySeq
  <2>2. Values(cycs[m])[last] = LastOf(cycs[m]).v /\ LastOf(cycs[m]).v \in Nat \ {0}
    BY <1>2, <1>3, <2>1 DEF LastOf
  <2>3. c = IF m[2] = "-" THEN Values(cycs[m]) ELSE <<LastOf(cycs[m]).v>>
    BY <1>1, <1>3, <1>4, <2>2
  <2> DEFINE a == LastOf(cycs[m]).v
             vs == Values(cycs[m])
  <2>4. CASE m[2] = "-"
    <3>1. c = vs /\ vs \in Seq(AvgCycs) /\ vs # << >>
      BY <1>1, <1>3, <1>4, <2>3, <2>4
    <3> HIDE DEF c, vs
    <3> DEFINE Pos == Nat \ {0}
    <3> HIDE DEF Pos
    <3>0. AvgCycs \subseteq Pos
      BY <1>2 DEF Pos
    <3>2. vs \in Seq(Nat \ {0})
      <4>1. vs \in Seq(Pos)
        BY <3>0, <3>1
      <4> QED BY <4>1 DEF Pos
    <3> QED BY <2>2, <2>3, <3>1, <3>2 DEF c
  <2>5. CASE m[2] # "-"
    <3>1. c = <<a>> /\ a \in Nat \ {0}
      BY <2>2, <2>3, <2>5
    <3> HIDE DEF c, a
    <3>2. c \in Seq(Nat \ {0}) /\ c # << >>
      BY <3>1
    <3> QED BY <2>2, <2>3, <3>2 DEF c
  <2> QED BY <2>4, <2>5
<1> QED BY <1>1, <1>3, <1>4

\* The row of m is doomed exactly if it has no cycles or the median of the
\* joules that are kept is negative.
LEMMA DoomedMeans ==
  ASSUME ReadInv, NEW m \in Measurements, Has(m, "njoule")
  PROVE  Doomed(m) <=> ~Has(m, "avgcyc") \/ Median(data[m[1]][Key(m, "njoule")]) < 0
<1> DEFINE l == data[m[1]][Key(m, "njoule")]
<1>1. /\ njs[m] # << >> /\ LastOf(njs[m]).v \in Int
      /\ l = IF m[2] = "-" THEN Values(njs[m]) ELSE <<LastOf(njs[m]).v>>
  BY KeptJoules
<1>2. Has(m, "avgcyc") <=> cycs[m] # << >>
  BY KeptCycles
<1> HIDE DEF l
<1>3. CASE m[2] = "-"
  BY <1>1, <1>2, <1>3 DEF Doomed, l
<1>4. CASE m[2] # "-"
  <2>1. Median(l) = LastOf(njs[m]).v
    BY <1>1, <1>4, MedianOfOne
  <2> QED BY <1>1, <1>2, <1>4, <2>1 DEF Doomed, l
<1> QED BY <1>3, <1>4

\* What is said of the lines read stays so while no more are read.
LEMMA HistorySame ==
  ASSUME UNCHANGED <<data, njs, cycs>>
  PROVE  /\ \A m \in Measurements : Doomed(m)' <=> Doomed(m)
         /\ \A m \in Measurements, kind \in Kinds : Stored(m, kind)' <=> Stored(m, kind)
<1>1. ASSUME NEW m \in Measurements PROVE Doomed(m)' <=> Doomed(m)
  <2>1. /\ njs'[m] = njs[m] /\ cycs'[m] = cycs[m]
        /\ Median(Values(njs[m]))' = Median(Values(njs[m]))
    BY DEF Median, Values
  <2> QED BY <2>1 DEF Doomed, LastOf
<1>2. ASSUME NEW m \in Measurements, NEW kind \in Kinds
      PROVE  Stored(m, kind)' <=> Stored(m, kind)
  <2>1. Got(m, kind)' = Got(m, kind)
    BY DEF Got, LogOf, Values
  <2> QED BY <2>1 DEF Stored, Has
<1> QED BY <1>1, <1>2

\* A row, or the end of the script: a row if both averages exist, and then it
\* is what RowsRight asks for.
LEMMA PrintRowInv == ASSUME ReadInv, PrintRow PROVE ReadInv'
<1> DEFINE Row(m, en, cy) == [of |-> m, nj |-> en, cyc |-> cy]
<1>1. /\ phase = "output"
      /\ data' = data /\ open' = open /\ figures' = figures /\ njs' = njs /\ cycs' = cycs
  BY DEF PrintRow
<1> DEFINE Printed(alg, x) ==
              LET of  == <<alg, x[1], x[2]>>
                  key == <<x[1], x[2], "avgcyc">>
                  en  == Mfavg(data[alg][x])
                  cy == Mfavg(data[alg][key])
              IN  /\ x[3] = "njoule"
                  /\ IF en.n # 0 /\ key \in DOMAIN data[alg] /\ cy.n # 0 /\ cy.s # 0
                       THEN /\ rows' = rows \cup {[of |-> of, nj |-> en, cyc |-> cy]}
                            /\ UNCHANGED phase
                       ELSE phase' = "crashed" /\ UNCHANGED rows
<1>0. PICK alg \in DOMAIN data : \E x \in DOMAIN data[alg] : Printed(alg, x)
  BY Zenon DEF PrintRow
<1>2. PICK x \in DOMAIN data[alg] : Printed(alg, x)
  BY <1>0, Zenon
<1>3. PICK m \in Measurements, kind \in Kinds : alg = m[1] /\ x = Key(m, kind)
  BY DEF ReadInv
<1>4. /\ x = Key(m, "njoule") /\ <<x[1], x[2], "avgcyc">> = Key(m, "avgcyc")
      /\ <<alg, x[1], x[2]>> = m /\ Has(m, "njoule")
  <2>1. kind = "njoule"
    BY <1>2, <1>3 DEF Key
  <2>2. x[1] = m[2] /\ x[2] = m[3]
    BY <1>3 DEF Key
  <2>3. m = <<m[1], m[2], m[3]>>
    BY FigureAssumption
  <2> QED BY <1>3, <2>1, <2>2, <2>3 DEF Key, Has
<1> DEFINE l == data[m[1]][Key(m, "njoule")]
           c == data[m[1]][Key(m, "avgcyc")]
           en == Mfavg(l)
           cy == Mfavg(c)
<1>5. /\ LastOf(njs[m]).v \in Int /\ l \in Seq(Int) /\ l # << >>
      /\ l = IF m[2] = "-" THEN Values(njs[m]) ELSE <<LastOf(njs[m]).v>>
      /\ Has(m, "avgcyc") =>
           /\ c \in Seq(Nat \ {0}) /\ c # << >> /\ LastOf(cycs[m]).v \in Nat \ {0}
           /\ c = IF m[2] = "-" THEN Values(cycs[m]) ELSE <<LastOf(cycs[m]).v>>
      /\ Doomed(m) <=> ~Has(m, "avgcyc") \/ Median(l) < 0
  BY <1>4, KeptJoules, KeptCycles, DoomedMeans
<1>6. IF en.n # 0 /\ Has(m, "avgcyc") /\ cy.n # 0 /\ cy.s # 0
        THEN rows' = rows \cup {Row(m, en, cy)} /\ phase' = phase
        ELSE phase' = "crashed" /\ rows' = rows
  <2>1. /\ Key(m, "avgcyc") \in DOMAIN data[alg] <=> Has(m, "avgcyc")
        /\ data[alg][x] = l /\ data[alg][<<x[1], x[2], "avgcyc">>] = c
    BY <1>3, <1>4 DEF Has
  <2> HIDE DEF l, c
  <2> QED BY <1>2, <1>4, <2>1
<1> HIDE DEF l, c
<1>7. CASE Doomed(m)
  <2>1. phase' = "crashed" /\ rows' = rows
    <3>1. Median(l) < 0 => en.n = 0
      BY <1>5, MfavgOfNone
    <3> QED BY <1>5, <1>6, <1>7, <3>1
  <2>2. RowsRight' /\ \A r \in rows' : r.of \in Measurements
    <3>1. \A r \in rows : r.of \in Measurements
      BY DEF ReadInv
    <3> QED BY <1>1, <2>1, <3>1, Zenon DEF ReadInv, RowsRight, Values, LastOf, Near
  <2>3. GetsThrough'
    <3>1. Doomed(m)' /\ \A r \in rows' : ~Doomed(r.of)'
      BY <1>1, <1>7, <2>1, HistorySame DEF ReadInv, GetsThrough
    <3> QED BY <3>1 DEF GetsThrough
  <2>4. ReadTypeOK' /\ PairInv'
    BY <1>1, <2>1 DEF ReadInv, ReadTypeOK, PairInv, LastOf
  <2>5. \A w \in Measurements, q \in Kinds : Stored(w, q)'
    BY <1>1, HistorySame DEF ReadInv
  <2> QED BY <1>1, <2>1, <2>2, <2>3, <2>4, <2>5 DEF ReadInv
<1>8. CASE ~Doomed(m)
  <2>0. Has(m, "avgcyc") /\ Median(l) >= 0
    <3>1. Median(l) \in Int
      <4>1. \A j \in DOMAIN l : l[j] \in Int
        BY <1>5
      <4> QED BY <1>5, <4>1, MedianIsValue
    <3> QED BY <1>5, <1>8, <3>1
  <2>1. /\ en.n \in Nat \ {0} /\ Near(en, l)
        /\ cy.s \in Nat \ {0} /\ cy.n \in Nat \ {0} /\ Near(cy, c)
    <3>1. c \in Seq(Int) /\ c # << >> /\ \A j \in DOMAIN c : c[j] \in Nat \ {0}
      BY <1>5, <2>0
    <3>2. Median(c) >= 0
      BY <3>1, MedianIsValue
    <3>3. \A j \in DOMAIN c : c[j] # 0
      BY <3>1
    <3> QED BY <1>5, <2>0, <3>1, <3>2, <3>3, MfavgNear
  <2>2. rows' = rows \cup {Row(m, en, cy)} /\ phase' = phase
    BY <1>6, <2>0, <2>1
  <2>3. IF m[2] = "-"
          THEN Near(en, Values(njs[m])) /\ Near(cy, Values(cycs[m]))
          ELSE en.s = LastOf(njs[m]).v * en.n /\ cy.s = LastOf(cycs[m]).v * cy.n
    <3>1. CASE m[2] = "-"
      BY <1>5, <2>0, <2>1, <3>1, Zenon
    <3>2. CASE m[2] # "-"
      <4> DEFINE a == LastOf(njs[m]).v
                 b == LastOf(cycs[m]).v
      <4>1. a \in Int /\ b \in Nat \ {0} /\ l = <<a>> /\ c = <<b>>
        BY <1>5, <2>0, <3>2
      <4> HIDE DEF a, b
      <4>2. a \in Nat
        BY <2>0, <4>1, MedianOfOne
      <4>3. en = [s |-> a, n |-> 1] /\ cy = [s |-> b, n |-> 1]
        BY <4>1, <4>2, MfavgOfOne
      <4>4. en.s = a * en.n /\ cy.s = b * cy.n
        BY <4>1, <4>2, <4>3
      <4> QED BY <3>2, <4>4 DEF a, b
    <3> QED BY <3>1, <3>2
  <2> HIDE DEF en, cy
  <2>4. RowsRight'
    <3> DEFINE Right(r) ==
                 IF r.of[2] = "-"
                   THEN Near(r.nj, Values(njs[r.of])) /\ Near(r.cyc, Values(cycs[r.of]))
                   ELSE /\ r.nj.s = LastOf(njs[r.of]).v * r.nj.n
                        /\ r.cyc.s = LastOf(cycs[r.of]).v * r.cyc.n
                        /\ (\E k \in DOMAIN cycs[r.of] : cycs[r.of][k].of = LastOf(njs[r.of]).of) =>
                             LastOf(cycs[r.of]).of = LastOf(njs[r.of]).of
    <3>1. \A r \in rows : Right(r)
      BY Zenon DEF ReadInv, RowsRight
    <3>2. Right(Row(m, en, cy))
      <4> DEFINE row == Row(m, en, cy)
      <4>1. row.of = m /\ row.nj = en /\ row.cyc = cy
        OBVIOUS
      <4> HIDE DEF row
      <4> QED BY <2>3, <4>1, Zenon DEF ReadInv, PairInv, row
    <3>3. \A r \in rows' : Right(r)
      <4> HIDE DEF Right
      <4> QED BY <2>2, <3>1, <3>2
    <3>4. RowsRight' <=> \A r \in rows' : Right(r)
      BY <1>1, Zenon DEF RowsRight, Values, LastOf, Near
    <3> QED BY <3>3, <3>4
  <2>5. \A r \in rows' : r.of \in Measurements
    BY <2>2 DEF ReadInv
  <2>6. GetsThrough'
    <3>1. ~Doomed(m)' /\ \A r \in rows : r.of \in Measurements /\ ~Doomed(r.of)'
      BY <1>1, <1>8, HistorySame DEF ReadInv, GetsThrough
    <3>2. \A r \in rows' : ~Doomed(r.of)'
      BY <2>2, <3>1
    <3> QED BY <1>1, <2>2, <3>2 DEF GetsThrough
  <2>7. ReadTypeOK' /\ PairInv'
    BY <1>1, <2>2 DEF ReadInv, ReadTypeOK, PairInv, LastOf
  <2>8. \A w \in Measurements, q \in Kinds : Stored(w, q)'
    BY <1>1, HistorySame DEF ReadInv
  <2> QED BY <1>1, <2>2, <2>4, <2>5, <2>6, <2>7, <2>8 DEF ReadInv
<1> QED BY <1>7, <1>8

\* What a state keeps if no line is read and no row printed.
LEMMA PhaseInv ==
  ASSUME ReadInv, UNCHANGED <<data, rows, figures, njs, cycs>>,
         open' \in {open, None}, phase' \in {phase, "output"}
  PROVE  ReadInv'
<1>1. \A w \in Measurements, q \in Kinds : Stored(w, q)'
  BY HistorySame DEF ReadInv
<1>2. ReadTypeOK' /\ PairInv'
  BY FigureAssumption DEF ReadInv, ReadTypeOK, PairInv, LastOf
<1>3. RowsRight'
  BY Zenon DEF ReadInv, RowsRight, Values, LastOf, Near
<1>4. GetsThrough'
  <2>1. \A r \in rows' : ~Doomed(r.of)'
    BY HistorySame DEF ReadInv, GetsThrough
  <2>2. phase' = "crashed" => \E m \in Measurements : Doomed(m)'
    BY HistorySame DEF ReadInv, GetsThrough
  <2> QED BY <2>1, <2>2 DEF GetsThrough
<1>5. (\A alg \in DOMAIN data : \A x \in DOMAIN data[alg] :
         \E m \in Measurements, kind \in Kinds : alg = m[1] /\ x = Key(m, kind))'
  BY DEF ReadInv, Key, Kinds
<1> QED BY <1>1, <1>2, <1>3, <1>4, <1>5 DEF ReadInv

\* What is in the dictionaries and what was read go together, in every state of
\* read_data.py and for any number of lines.
THEOREM ReadInvariance == ReadSpec => []ReadInv
<1>1. ReadInit => ReadInv
  BY ReadInitInv
<1>2. ReadInv /\ [ReadNext]_readVars => ReadInv'
  <2> SUFFICES ASSUME ReadInv, [ReadNext]_readVars PROVE ReadInv'
    OBVIOUS
  <2>1. CASE ReadJoules
    BY <2>1, ReadJoulesInv
  <2>2. CASE ReadCycles
    BY <2>2, ReadCyclesInv
  <2>3. CASE CutFile
    BY <2>3, PhaseInv DEF CutFile
  <2>4. CASE EndOfInput
    BY <2>4, PhaseInv DEF EndOfInput
  <2>5. CASE PrintRow
    BY <2>5, PrintRowInv
  <2>6. CASE UNCHANGED readVars
    BY <2>6, PhaseInv DEF readVars
  <2> QED BY <2>1, <2>2, <2>3, <2>4, <2>5, <2>6 DEF ReadNext
<1> QED BY <1>1, <1>2, PTL DEF ReadSpec

\* read_data.py ends before its time only if a measurement has no cycles or a
\* negative median of its joules, and prints no row of such a measurement.
THEOREM ReaderGetsThrough == ReadSpec => []GetsThrough
<1>1. ReadInv => GetsThrough
  BY DEF ReadInv
<1> QED BY <1>1, ReadInvariance, PTL

\* Each row that it prints is right about its measurement.
THEOREM RowsAreRight == ReadSpec => []RowsRight
<1>1. ReadInv => RowsRight
  BY DEF ReadInv
<1> QED BY <1>1, ReadInvariance, PTL

=============================================================================
