-------------------------- MODULE CycleCountProofs --------------------------
(***************************************************************************)
(* Proofs about CycleCount, for every clock rate, counter width, gap and   *)
(* operation time that its assumptions allow.                              *)
(***************************************************************************)
EXTENDS CycleCount, TLAPS

(***************************************************************************)
(* Multiples, quotients and remainders                                     *)
(***************************************************************************)

\* Division with remainder: the quotient is the last multiple of d that is
\* not above x.  main.cpp divides unsigned values this way.
LEMMA DivMod ==
  ASSUME NEW x \in Int, NEW d \in Nat \ {0}
  PROVE  /\ x \div d \in Int
         /\ d * (x \div d) <= x
         /\ x < d * (x \div d) + d
         /\ x % d \in 0..(d - 1)
         /\ x = d * (x \div d) + (x % d)
         /\ x >= 0 => x \div d \in Nat
BY SMT

\* The same for natural numbers.
LEMMA DivNat ==
  ASSUME NEW x \in Nat, NEW d \in Nat \ {0}
  PROVE  /\ x \div d \in Nat
         /\ d * (x \div d) <= x
         /\ x < d * (x \div d) + d
         /\ x % d \in 0..(d - 1)
         /\ x = d * (x \div d) + (x % d)
<1>1. x \in Int /\ x >= 0
  OBVIOUS
<1> QED BY <1>1, DivMod

\* The order of the multiples of a positive number.
LEMMA MulMono ==
  ASSUME NEW a \in Int, NEW b \in Int, NEW d \in Nat \ {0}
  PROVE  /\ d * a \in Int
         /\ a < b => d * a + d <= d * b
         /\ a <= b => d * a <= d * b
         /\ d * a < d * b => a < b
BY SMT

\* A quotient is determined by the multiple below the dividend.
LEMMA DivUnique ==
  ASSUME NEW x \in Int, NEW q \in Int, NEW d \in Nat \ {0},
         d * q <= x, x < d * q + d
  PROVE  x \div d = q
BY SMT

\* A remainder is what a multiple of the divisor leaves.
LEMMA ModUnique ==
  ASSUME NEW q \in Int, NEW d \in Nat \ {0}, NEW r \in 0..(d - 1)
  PROVE  (d * q + r) % d = r
BY SMT

\* A number below the modulus is its own remainder.
LEMMA ModSmall ==
  ASSUME NEW d \in Nat \ {0}, NEW r \in 0..(d - 1)
  PROVE  r % d = r
BY SMT

\* The difference of two remainders, reduced, is the remainder of the
\* difference: unsigned subtraction of two readings of a counter that wraps.
LEMMA ModDifference ==
  ASSUME NEW x \in Int, NEW y \in Int, NEW d \in Nat \ {0}
  PROVE  ((x % d) - (y % d)) % d = (x - y) % d
<1> DEFINE a == x \div d
           b == y \div d
           r == (x - y) % d
           q == (x - y) \div d
<1>1. /\ a \in Int /\ b \in Int /\ q \in Int
      /\ x = d * a + (x % d) /\ y = d * b + (y % d)
      /\ x - y = d * q + r
      /\ r \in 0..(d - 1) /\ x % d \in Int /\ y % d \in Int
  <2>1. a \in Int /\ x = d * a + (x % d) /\ x % d \in 0..(d - 1)
    BY DivMod
  <2>2. b \in Int /\ y = d * b + (y % d) /\ y % d \in 0..(d - 1)
    BY DivMod
  <2>3. x - y \in Int
    OBVIOUS
  <2>4. q \in Int /\ x - y = d * q + r /\ r \in 0..(d - 1)
    BY <2>3, DivMod
  <2> HIDE DEF a, b, q, r
  <2> QED BY <2>1, <2>2, <2>4
<1>2. (x % d) - (y % d) = d * (q - a + b) + r
  <2>1. d * (q - a + b) = d * q - d * a + d * b
    BY <1>1, SMT
  <2>2. d * q \in Int /\ d * a \in Int /\ d * b \in Int
    BY <1>1, MulMono
  <2> HIDE DEF a, b, q, r
  <2> QED BY <1>1, <2>1, <2>2
<1>3. q - a + b \in Int
  BY <1>1
<1> HIDE DEF a, b, q
<1>4. (d * (q - a + b) + r) % d = r
  BY <1>1, <1>3, ModUnique
<1> QED BY <1>2, <1>4

\* The longest time, in cycles, for which the Timer fits an int.
Horizon == (IntMod \div 2) * CyclesPerTick

(***************************************************************************)
(* Constants                                                               *)
(***************************************************************************)

\* The types of the derived constants.  A counter period is at least ofl_ms
\* milliseconds and at most ofl_ms + 1 of them.
LEMMA Derived ==
  /\ scc_ms \in Nat \ {0}
  /\ ofl_ms \in Nat \ {0}
  /\ MaxWraps \in Nat
  /\ Horizon \in Nat
  /\ Horizon < AccMod
  /\ scc_ms * ofl_ms + 1 <= CounterMod
  /\ CounterMod <= scc_ms * ofl_ms + scc_ms
<1>1. scc_ms \in Nat \ {0}
  BY ClockAssumption, SMT DEF scc_ms
<1>2. IntMod \div 2 \in Nat
  BY ClockAssumption, SMT
<1>3. Horizon \in Nat
  BY <1>2, ClockAssumption, SMT DEF Horizon
<1>4. MaxWraps \in Nat
  BY <1>3, ClockAssumption, DivMod DEF MaxWraps, Horizon
<1>5. /\ ofl_ms \in Nat
      /\ scc_ms * ofl_ms <= CounterMod - 1
      /\ CounterMod - 1 < scc_ms * ofl_ms + scc_ms
  <2>1. CounterMod - 1 \in Int /\ CounterMod - 1 >= 0
    BY ClockAssumption
  <2> QED BY <1>1, <2>1, DivMod DEF ofl_ms
<1>6. (2 * MaxGap) \div scc_ms \in Nat
  <2>1. 2 * MaxGap \in Int /\ 2 * MaxGap >= 0
    BY InputAssumption
  <2> QED BY <1>1, <2>1, DivMod
<1>7. ofl_ms \in Nat \ {0}
  BY <1>4, <1>5, <1>6, HeadroomAssumption
<1>8. scc_ms * ofl_ms \in Int
  BY <1>1, <1>7, MulMono
<1>9. Horizon < AccMod
  BY HeadroomAssumption DEF Horizon
<1> QED BY <1>1, <1>3, <1>4, <1>5, <1>7, <1>8, <1>9, ClockAssumption

(***************************************************************************)
(* Clock readings                                                          *)
(***************************************************************************)

\* The ticker in cycles.
LEMMA TicksBounds ==
  ASSUME NEW c \in Nat
  PROVE  /\ Ticks(c) \in Nat
         /\ CyclesPerTick * Ticks(c) <= c
         /\ c < CyclesPerTick * Ticks(c) + CyclesPerTick
BY ClockAssumption, DivMod DEF Ticks

\* The ticker does not run backwards.
LEMMA TicksMono ==
  ASSUME NEW c \in Nat, NEW e \in Nat, c <= e
  PROVE  Ticks(c) <= Ticks(e)
<1>1. /\ Ticks(c) \in Nat /\ Ticks(e) \in Nat
      /\ CyclesPerTick * Ticks(c) <= c
      /\ e < CyclesPerTick * Ticks(e) + CyclesPerTick
  BY TicksBounds
<1>2. SUFFICES ASSUME Ticks(e) < Ticks(c) PROVE FALSE
  BY <1>1
<1>3. /\ CyclesPerTick * Ticks(e) + CyclesPerTick <= CyclesPerTick * Ticks(c)
      /\ CyclesPerTick * Ticks(e) \in Int
      /\ CyclesPerTick * Ticks(c) \in Int
  BY <1>1, <1>2, MulMono, ClockAssumption
<1> QED BY <1>1, <1>3, ClockAssumption

\* While the Timer fits an int, read_ms() is the time since it was started
\* in whole milliseconds: dividing ticks and then milliseconds loses nothing
\* more than dividing cycles by cycles per millisecond.
LEMMA ReadMsValue ==
  ASSUME NEW c \in Nat, NEW s \in Nat, s <= Ticks(c),
         Ticks(c) - s < IntMod \div 2
  PROVE  /\ ReadMs(c, s) = (c - CyclesPerTick * s) \div scc_ms
         /\ c - CyclesPerTick * s \in Nat
         /\ c - CyclesPerTick * s < Horizon
<1> DEFINE D == Ticks(c) - s
           m == D \div TicksPerMs
           x == c - CyclesPerTick * s
<1>1. /\ Ticks(c) \in Nat
      /\ CyclesPerTick * Ticks(c) <= c
      /\ c < CyclesPerTick * Ticks(c) + CyclesPerTick
  BY TicksBounds
<1>2. D \in Nat
  BY <1>1
<1>3. IntMod \div 2 \in Nat /\ IntMod \div 2 <= IntMod
  BY ClockAssumption, SMT
<1>4. D \in 0..(IntMod - 1)
  BY <1>2, <1>3, ClockAssumption
<1>5. ReadMs(c, s) = m
  <2>1. D % IntMod = D
    BY <1>4, ModSmall, ClockAssumption
  <2> QED BY <1>2, <2>1 DEF ReadMs, ToInt, CDiv
<1>6. /\ m \in Nat
      /\ TicksPerMs * m <= D
      /\ D < TicksPerMs * m + TicksPerMs
  <2>1. D \in Int /\ D >= 0
    BY <1>2
  <2> HIDE DEF D, x
  <2> QED BY <2>1, DivMod, ClockAssumption
<1>7. /\ CyclesPerTick * Ticks(c) = CyclesPerTick * D + CyclesPerTick * s
      /\ CyclesPerTick * D \in Nat
      /\ CyclesPerTick * s \in Nat
  <2>1. Ticks(c) = D + s
    BY <1>1
  <2> HIDE DEF D
  <2>2. CyclesPerTick * (D + s) = CyclesPerTick * D + CyclesPerTick * s
    BY <1>2, ClockAssumption, SMT
  <2>3. CyclesPerTick * D \in Nat /\ CyclesPerTick * s \in Nat
    BY <1>2, ClockAssumption, SMT
  <2> QED BY <2>1, <2>2, <2>3
<1>8. /\ x \in Int
      /\ CyclesPerTick * D <= x
      /\ x < CyclesPerTick * D + CyclesPerTick
  BY <1>1, <1>7, ClockAssumption
<1>9. scc_ms * m <= x /\ x < scc_ms * m + scc_ms
  <2>1. TicksPerMs * m \in Nat /\ TicksPerMs \in Nat
    BY <1>6, ClockAssumption, SMT
  <2>2. CyclesPerTick * (TicksPerMs * m) <= CyclesPerTick * D
    BY <1>2, <1>6, <2>1, MulMono, ClockAssumption
  <2>3. CyclesPerTick * D + CyclesPerTick
          <= CyclesPerTick * (TicksPerMs * m + TicksPerMs)
    BY <1>2, <1>6, <2>1, MulMono, ClockAssumption
  <2>4. /\ CyclesPerTick * (TicksPerMs * m) = scc_ms * m
        /\ CyclesPerTick * (TicksPerMs * m + TicksPerMs) = scc_ms * m + scc_ms
        /\ scc_ms * m \in Nat
    <3>1. m \in Nat /\ TicksPerMs \in Nat /\ CyclesPerTick \in Nat
      BY <1>6, ClockAssumption
    <3> HIDE DEF m
    <3> QED BY <3>1, SMT DEF scc_ms
  <2> HIDE DEF m, D, x
  <2> QED BY <1>7, <1>8, <2>2, <2>3, <2>4, Derived, ClockAssumption
<1>10. x \div scc_ms = m
  <2> HIDE DEF m, x
  <2> QED BY <1>6, <1>8, <1>9, Derived, DivUnique
<1>11. x < Horizon
  <2>1. CyclesPerTick * D + CyclesPerTick <= CyclesPerTick * (IntMod \div 2)
    BY <1>2, <1>3, MulMono, ClockAssumption
  <2>2. CyclesPerTick * (IntMod \div 2) = Horizon
    BY <1>3, ClockAssumption, SMT DEF Horizon
  <2> QED BY <1>7, <1>8, <2>1, <2>2, Derived, ClockAssumption
<1>12. x \in Nat
  BY <1>7, <1>8
<1> QED BY <1>5, <1>10, <1>11, <1>12

(***************************************************************************)
(* Counting the wraps                                                      *)
(***************************************************************************)

\* What CYCLES_ADD computes from the two millisecond readings and the
\* counter difference is the number of times the counter wrapped.  x and z
\* are the times of the readings, e the cycles between the counter reads.
LEMMA WrapCount ==
  ASSUME NEW x \in Nat, NEW z \in Nat, NEW e \in Nat,
         e <= z - x, z - x <= e + 2 * MaxGap, z < Horizon,
         NEW ms1 \in Int,
         ms1 = z \div scc_ms - x \div scc_ms - (e % CounterMod) \div scc_ms
  PROVE  /\ ms1 \in Nat
         /\ ms1 < AccMod
         /\ ms1 \div ofl_ms = e \div CounterMod
<1> DEFINE S == scc_ms
           O == ofl_ms
           W == CounterMod
           K == e \div W
           r == e % W
           q == r \div S
           g == (2 * MaxGap) \div S
           m1 == x \div S
           m2 == z \div S
<1>1. /\ S \in Nat \ {0} /\ O \in Nat \ {0} /\ W \in Nat \ {0}
      /\ MaxWraps \in Nat /\ MaxGap \in Nat
  BY Derived, ClockAssumption, InputAssumption
<1>2. /\ K \in Nat /\ r \in 0..(W - 1)
      /\ e = W * K + r
  <2> HIDE DEF W
  <2> QED BY <1>1, DivNat
<1>3. /\ q \in Nat /\ S * q <= r /\ r < S * q + S
  <2>1. r \in Nat
    BY <1>1, <1>2
  <2> HIDE DEF r, S
  <2> QED BY <1>1, <2>1, DivNat
<1>4. /\ g \in Nat /\ 2 * MaxGap < S * g + S
  <2>1. 2 * MaxGap \in Int /\ 2 * MaxGap >= 0
    BY <1>1
  <2> HIDE DEF S
  <2> QED BY <1>1, <2>1, DivMod
<1>5. /\ m1 \in Nat /\ S * m1 <= x /\ x < S * m1 + S
      /\ m2 \in Nat /\ S * m2 <= z /\ z < S * m2 + S
  <2> HIDE DEF S
  <2>1. m1 \in Nat /\ S * m1 <= x /\ x < S * m1 + S
    BY <1>1, DivNat
  <2>2. m2 \in Nat /\ S * m2 <= z /\ z < S * m2 + S
    BY <1>1, DivNat
  <2> QED BY <2>1, <2>2
<1>6. ms1 = m2 - m1 - q
  OBVIOUS
<1>7. MaxWraps + g + 3 < O
  BY HeadroomAssumption
<1>8. S * O + 1 <= W /\ W <= S * O + S
  BY Derived
<1>9. K <= MaxWraps
  <2>1. W * K < Horizon
    <3>1. W * K \in Int
      BY <1>1, <1>2, MulMono
    <3> HIDE DEF W, K, r
    <3> QED BY <1>1, <1>2, <3>1, Derived
  <2>2. Horizon < W * MaxWraps + W
    <3>1. MaxWraps = Horizon \div W
      BY DEF MaxWraps, Horizon
    <3> HIDE DEF W
    <3> QED BY <1>1, <3>1, Derived, DivNat
  <2>3. W * MaxWraps + W = W * (MaxWraps + 1)
    BY <1>1, SMT
  <2>4. W * K < W * (MaxWraps + 1)
    <3> HIDE DEF W, K
    <3>1. W * K \in Int /\ W * (MaxWraps + 1) \in Int
      BY <1>1, <1>2, MulMono
    <3> QED BY <2>1, <2>2, <2>3, <3>1, Derived
  <2> HIDE DEF W, K
  <2> QED BY <1>1, <1>2, <2>4, MulMono
<1> HIDE DEF S, O, W, K, r, q, g, m1, m2
<1>10. /\ S * (K * O) \in Nat /\ S * q \in Nat /\ S * g \in Nat
       /\ S * m1 \in Nat /\ S * m2 \in Nat /\ S * K \in Nat
       /\ W * K \in Nat /\ K * O \in Nat
  <2>1. K * O \in Nat
    BY <1>1, <1>2, SMT
  <2> QED BY <1>1, <1>2, <1>3, <1>4, <1>5, <2>1, SMT
\* A period is at least O and at most O + 1 milliseconds long.
<1>11. S * (K * O) + K <= W * K /\ W * K <= S * (K * O) + S * K
  <2>1. K * (S * O + 1) <= K * W /\ K * W <= K * (S * O + S)
    <3>1. S * O \in Nat
      BY <1>1, SMT
    <3>2. CASE K = 0
      BY <1>1, <3>1, <3>2, SMT
    <3>3. CASE K # 0
      <4>1. K \in Nat \ {0}
        BY <1>2, <3>3
      <4>2. S * O + 1 \in Int /\ S * O + S \in Int /\ W \in Int
        BY <1>1, <3>1
      <4> QED BY <1>8, <4>1, <4>2, MulMono
    <3> QED BY <3>2, <3>3
  <2>2. /\ K * (S * O + 1) = S * (K * O) + K
        /\ K * (S * O + S) = S * (K * O) + S * K
        /\ K * W = W * K
    BY <1>1, <1>2, SMT
  <2> QED BY <2>1, <2>2
<1>12. K * O <= ms1
  <2>1. S * (K * O + q - 1) < S * (m2 - m1)
    <3>1. /\ S * (K * O + q - 1) = S * (K * O) + S * q - S
          /\ S * (m2 - m1) = S * m2 - S * m1
      BY <1>1, <1>3, <1>5, <1>10, SMT
    <3> QED BY <1>1, <1>2, <1>3, <1>5, <1>10, <1>11, <3>1
  <2>2. K * O + q - 1 \in Int /\ m2 - m1 \in Int
    BY <1>3, <1>5, <1>10
  <2>3. K * O + q - 1 < m2 - m1
    BY <1>1, <2>1, <2>2, MulMono
  <2> QED BY <1>3, <1>5, <1>6, <1>10, <2>3
<1>13. ms1 < K * O + O
  <2>1. S * (m2 - m1) < S * (K * O + K + q + g + 3)
    <3>1. /\ S * (K * O + K + q + g + 3)
               = S * (K * O) + S * K + S * q + S * g + 3 * S
          /\ S * (m2 - m1) = S * m2 - S * m1
      BY <1>1, <1>2, <1>3, <1>4, <1>5, <1>10, SMT
    <3> QED BY <1>1, <1>2, <1>3, <1>4, <1>5, <1>10, <1>11, <3>1
  <2>2. K * O + K + q + g + 3 \in Int /\ m2 - m1 \in Int
    BY <1>2, <1>3, <1>4, <1>5, <1>10
  <2>3. m2 - m1 < K * O + K + q + g + 3
    BY <1>1, <2>1, <2>2, MulMono
  <2> QED BY <1>1, <1>2, <1>3, <1>4, <1>5, <1>6, <1>7, <1>9, <1>10, <2>3
<1>14. ms1 \div O = K
  <2>1. O * K = K * O
    BY <1>1, <1>2, SMT
  <2> QED BY <1>1, <1>2, <1>12, <1>13, <2>1, DivUnique
<1>15. ms1 < AccMod
  <2>1. m2 <= S * m2
    BY <1>1, <1>5, SMT
  <2> QED BY <1>3, <1>5, <1>6, <1>10, <2>1, Derived, ClockAssumption
<1>16. ms1 \in Nat
  BY <1>10, <1>12
<1> QED BY <1>14, <1>15, <1>16 DEF O, K, W

(***************************************************************************)
(* Types                                                                   *)
(***************************************************************************)

\* read_ms() returns an int, whatever the Timer holds.
LEMMA ReadMsType ==
  ASSUME NEW c \in Nat, NEW s \in Nat
  PROVE  ReadMs(c, s) \in Int
<1>1. Ticks(c) \in Nat
  BY TicksBounds
<1> DEFINE u == (Ticks(c) - s) % IntMod
           v == ToInt(Ticks(c) - s)
<1>2. u \in Int
  <2>1. Ticks(c) - s \in Int
    BY <1>1
  <2> QED BY <2>1, DivMod, ClockAssumption
<1>3. v \in Int
  <2> HIDE DEF u
  <2> QED BY <1>2, ClockAssumption DEF ToInt, u
<1>4. CDiv(v, TicksPerMs) \in Int
  <2> HIDE DEF v
  <2> QED BY <1>3, ClockAssumption, DivMod DEF CDiv
<1> QED BY <1>4 DEF ReadMs

\* A value reduced to a uint64_t.
LEMMA U64Type ==
  ASSUME NEW x \in Int
  PROVE  /\ U64(x) \in 0..(AccMod - 1)
         /\ x \in 0..(AccMod - 1) => U64(x) = x
BY ClockAssumption, DivMod, ModSmall DEF U64

(***************************************************************************)
(* The inductive invariant                                                 *)
(***************************************************************************)

IInv == TypeOK /\ ClockInv /\ CyclesExact

\* A Timer that fits an int has fitted it since it was started.
LEMMA TimerFitsBack ==
  ASSUME TypeOK, now' \in Nat, now <= now', tstart' = tstart, TimerFits'
  PROVE  TimerFits /\ Ticks(now) <= Ticks(now')
BY TicksMono, TicksBounds, ClockAssumption DEF TimerFits, TypeOK

\* An operation that has spent no more than the time since the Timer was
\* started has spent less than an accumulator holds.
LEMMA SpentFits ==
  ASSUME TypeOK, tstart <= Ticks(now), TimerFits
  PROVE  /\ CyclesPerTick * tstart \in Nat
         /\ now - CyclesPerTick * tstart \in Nat
         /\ now - CyclesPerTick * tstart < Horizon
         /\ \A x \in Nat : x <= now - CyclesPerTick * tstart => x \in 0..(AccMod - 1)
<1>1. /\ now - CyclesPerTick * tstart \in Nat
      /\ now - CyclesPerTick * tstart < Horizon
  BY ReadMsValue DEF TypeOK, TimerFits
<1>2. CyclesPerTick * tstart \in Nat
  BY ClockAssumption, SMT DEF TypeOK
<1> QED BY <1>1, <1>2, Derived, ClockAssumption

LEMMA BeginStep == ASSUME IInv, Begin PROVE IInv'
<1> USE DEF IInv, Begin
<1>1. now' \in Nat /\ tstart' = Ticks(now') /\ tstart' \in Nat
  BY InputAssumption, TicksBounds
<1>2. TypeOK'
  BY <1>1, ClockAssumption, InputAssumption DEF TypeOK, Ops
<1>3. 0 <= now' - CyclesPerTick * tstart'
  <2>1. CyclesPerTick * tstart' <= now'
    BY <1>1, TicksBounds
  <2>2. CyclesPerTick * tstart' \in Nat
    BY <1>1, ClockAssumption, SMT
  <2> QED BY <1>1, <2>1, <2>2
<1>4. ClockInv'
  BY <1>1, <1>3 DEF ClockInv
<1>5. CyclesExact'
  BY DEF CyclesExact
<1> QED BY <1>2, <1>4, <1>5

\* Steps that leave the clock, the Timer and the sums alone and go to a
\* place where the locals are not yet read.
LEMMA StillStep ==
  ASSUME IInv, TypeOK', pc \in {"if", "while"}, pc' \in {"if", "while", "idle"},
         UNCHANGED <<now, tstart, acc, spent>>
  PROVE  ClockInv' /\ CyclesExact'
BY DEF IInv, ClockInv, CyclesExact, TimerFits, Ticks

LEMMA SkipStep == ASSUME IInv, Skip PROVE IInv'
<1>1. TypeOK'
  BY DEF IInv, Skip, Advance, TypeOK, Ops
<1>2. pc' \in {"if", "while"}
  BY DEF Skip, Advance
<1> QED BY <1>1, <1>2, StillStep DEF IInv, Skip

LEMMA WhileStep == ASSUME IInv, While PROVE IInv'
<1>1. ReadMs(now, tstart) \in Int
  BY ReadMsType DEF IInv, TypeOK
<1>2. TypeOK'
  BY <1>1 DEF IInv, While, TypeOK, Ops
<1>3. pc' \in {"if", "idle"}
  BY DEF While
<1> QED BY <1>2, <1>3, StillStep DEF IInv, While

LEMMA StartMsStep == ASSUME IInv, StartMs PROVE IInv'
<1> USE DEF IInv, StartMs
<1>1. ReadMs(now, tstart) \in Int
  BY ReadMsType DEF TypeOK
<1>2. now' \in Nat /\ now <= now' /\ now \in (now' - MaxGap)..now' /\ now \in Nat
  BY InputAssumption DEF Gap, TypeOK
<1>3. TypeOK'
  BY <1>1, <1>2 DEF TypeOK
<1>4. tstart <= Ticks(now) /\ Ticks(now) <= Ticks(now') /\ tstart <= Ticks(now')
  BY <1>2, TicksMono, TicksBounds DEF ClockInv, TypeOK
<1>5. now \in Before(now)'
  BY <1>2, <1>4 DEF Before
<1>6. \A i \in Ops : spent'[i] <= now' - CyclesPerTick * tstart'
  <2>1. CyclesPerTick * tstart \in Nat
    BY ClockAssumption, SMT DEF TypeOK
  <2> QED BY <1>2, <2>1 DEF ClockInv, TypeOK
<1>7. ClockInv'
  BY <1>4, <1>5, <1>6 DEF ClockInv
<1>8. CyclesExact'
  BY <1>2, TimerFitsBack DEF CyclesExact
<1> QED BY <1>3, <1>7, <1>8

LEMMA StartTStep == ASSUME IInv, StartT PROVE IInv'
<1> USE DEF IInv, StartT
<1>1. now' \in Nat /\ now <= now' /\ now \in Nat
  BY InputAssumption DEF TypeOK
<1>2. now % CounterMod \in 0..(CounterMod - 1)
  BY <1>1, ClockAssumption, DivNat
<1>3. TypeOK'
  BY <1>1, <1>2 DEF TypeOK, CYCCNT
<1>4. tstart <= Ticks(now) /\ tstart <= Ticks(now')
  BY <1>1, TicksMono, TicksBounds DEF ClockInv, TypeOK
<1>5. /\ \A i \in Ops : spent'[i] <= now' - CyclesPerTick * tstart'
      /\ spent'[k'] <= began' - CyclesPerTick * tstart'
  <2>1. CyclesPerTick * tstart \in Nat
    BY ClockAssumption, SMT DEF TypeOK
  <2> QED BY <1>1, <2>1 DEF ClockInv, TypeOK
<1>6. \E c \in Before(began)' : ms' = ReadMs(c, tstart')
  BY DEF ClockInv, Before
<1>7. ClockInv'
  BY <1>1, <1>4, <1>5, <1>6 DEF ClockInv, CYCCNT
<1>8. CyclesExact'
  BY <1>1, TimerFitsBack DEF CyclesExact
<1> QED BY <1>3, <1>7, <1>8

LEMMA AddTStep == ASSUME IInv, AddT PROVE IInv'
<1> USE DEF IInv, AddT
<1> DEFINE E == now - began
           a0 == CyclesPerTick * tstart
<1>1. /\ now' \in Nat /\ now <= now' /\ now \in (now' - MaxGap)..now'
      /\ now \in Nat /\ began \in Nat /\ began <= now /\ E \in Nat
      /\ k \in Ops /\ a0 \in Nat
  <2>1. a0 \in Nat
    BY ClockAssumption, SMT DEF TypeOK
  <2> QED BY <2>1, InputAssumption DEF Gap, TypeOK, ClockInv
<1>2. t' = E % CounterMod
  <2>1. t = began % CounterMod
    BY DEF ClockInv, CYCCNT
  <2> QED BY <1>1, <2>1, ModDifference, ClockAssumption DEF CYCCNT
<1>3. t' \in 0..(CounterMod - 1)
  BY <1>1, <1>2, DivNat, ClockAssumption
<1>4. spent' = [spent EXCEPT ![k] = @ + E] /\ spent' \in [Ops -> Nat]
  BY <1>1 DEF TypeOK
<1>5. acc' \in [Ops -> 0..(AccMod - 1)]
  <2>1. acc[k] + t' \in Int
    BY <1>1, <1>3 DEF TypeOK
  <2> QED BY <1>1, <2>1, U64Type DEF TypeOK
<1>6. TypeOK'
  BY <1>1, <1>3, <1>4, <1>5 DEF TypeOK
<1>7. tstart <= Ticks(now) /\ tstart <= Ticks(now')
  BY <1>1, TicksMono, TicksBounds DEF ClockInv, TypeOK
<1>8. /\ spent'[k] <= now - a0
      /\ \A i \in Ops : spent'[i] <= now' - a0
  <2>1. spent[k] <= began - a0
    BY DEF ClockInv
  <2>2. spent'[k] <= now - a0
    <3>1. spent'[k] = spent[k] + E /\ spent[k] \in Nat
      BY <1>1, <1>4 DEF TypeOK
    <3> QED BY <1>1, <2>1, <3>1
  <2>3. ASSUME NEW i \in Ops, i # k PROVE spent'[i] <= now' - a0
    <3>1. spent'[i] = spent[i] /\ spent[i] \in Nat /\ spent[i] <= now - a0
      BY <2>3, <1>4 DEF TypeOK, ClockInv
    <3> QED BY <1>1, <3>1
  <2>4. spent'[k] <= now' - a0
    BY <1>1, <1>4, <2>2
  <2> QED BY <2>2, <2>3, <2>4
<1>9. ASSUME TimerFits'
      PROVE  spent' = [acc' EXCEPT ![k] = @ + CounterMod * (E \div CounterMod)]
  <2>1. TimerFits
    BY <1>1, <1>6, <1>9, TimerFitsBack
  <2>2. acc = spent
    BY <2>1 DEF CyclesExact
  <2>3. /\ E = CounterMod * (E \div CounterMod) + t'
        /\ CounterMod * (E \div CounterMod) \in Nat
    <3>1. E \div CounterMod \in Nat
      BY <1>1, DivNat, ClockAssumption
    <3>2. CounterMod * (E \div CounterMod) \in Nat
      BY <3>1, ClockAssumption, SMT
    <3>3. E = CounterMod * (E \div CounterMod) + (E % CounterMod)
      <4> HIDE DEF E
      <4> QED BY <1>1, DivNat, ClockAssumption
    <3> QED BY <1>2, <3>2, <3>3
  <2>4. U64(acc[k] + t') = acc[k] + t'
    <3>1. acc[k] + t' \in Nat /\ acc[k] + t' <= spent'[k]
      BY <1>1, <1>3, <1>4, <2>2, <2>3 DEF TypeOK
    <3>2. acc[k] + t' <= now - a0
      BY <1>1, <1>4, <1>8, <3>1
    <3> QED BY <1>7, <2>1, <3>1, <3>2, SpentFits, U64Type
  <2>5. acc' = [acc EXCEPT ![k] = @ + t']
    BY <2>4
  <2>6. acc'[k] + CounterMod * (E \div CounterMod) = spent'[k]
    <3>1. acc'[k] = acc[k] + t' /\ spent'[k] = acc[k] + E /\ acc[k] \in Nat
      BY <1>1, <1>4, <2>2, <2>5 DEF TypeOK
    <3> HIDE DEF E
    <3> QED BY <1>1, <1>3, <2>3, <3>1
  <2> QED BY <1>1, <1>4, <1>5, <2>2, <2>5, <2>6 DEF TypeOK
<1>10. now \in Before(now)'
  BY <1>1, <1>7 DEF Before
<1>11. \E c \in Before(began)' : ms' = ReadMs(c, tstart')
  BY DEF ClockInv, Before
<1>12. \E e \in Before(now)' :
         /\ began' <= e
         /\ t' = (e - began') % CounterMod
         /\ TimerFits' =>
              spent' = [acc' EXCEPT ![k'] =
                          @ + CounterMod * ((e - began') \div CounterMod)]
  <2> WITNESS now \in Before(now)'
  <2> QED BY <1>1, <1>2, <1>9
<1>14. ClockInv'
  <2>1. \A i \in Ops : spent'[i] <= now' - CyclesPerTick * tstart'
    BY <1>8
  <2>2. pc' = "add_ms" /\ tstart' <= Ticks(now')
    BY <1>7
  <2>3. began' <= now'
    BY <1>1
  <2> QED BY <1>11, <1>12, <2>1, <2>2, <2>3, Zenon DEF ClockInv
<1>13. CyclesExact'
  BY DEF CyclesExact
<1> QED BY <1>6, <1>13, <1>14

LEMMA AddMsStep == ASSUME IInv, AddMs PROVE IInv'
<1> USE DEF IInv, AddMs
<1> DEFINE a0 == CyclesPerTick * tstart
<1>1. /\ now \in Nat /\ began \in Nat /\ began <= now /\ k \in Ops
      /\ tstart \in Nat /\ tstart <= Ticks(now) /\ a0 \in Nat
  <2>1. a0 \in Nat
    BY ClockAssumption, SMT DEF TypeOK
  <2> QED BY <2>1 DEF TypeOK, ClockInv
<1>2. PICK c \in Before(began) : ms = ReadMs(c, tstart)
  BY DEF ClockInv
<1>3. PICK e \in Before(now) :
        /\ began <= e
        /\ t = (e - began) % CounterMod
        /\ TimerFits => spent = [acc EXCEPT ![k] =
                           @ + CounterMod * ((e - began) \div CounterMod)]
  BY DEF ClockInv
<1>4. /\ c \in Nat /\ c <= began /\ began <= c + MaxGap /\ tstart <= Ticks(c)
      /\ e \in Nat /\ began <= e /\ e <= now /\ now <= e + MaxGap
  BY <1>1, <1>2, <1>3, InputAssumption DEF Before
<1>5. /\ ms' \in Int
      /\ ms' = ReadMs(now, tstart) - ReadMs(c, tstart)
                 - ((e - began) % CounterMod) \div scc_ms
  <2>1. ReadMs(now, tstart) \in Int
    BY <1>1, ReadMsType
  <2>2. t \div scc_ms \in Int
    BY Derived, DivNat DEF TypeOK
  <2> QED BY <1>2, <1>3, <2>1, <2>2 DEF TypeOK
<1>6. acc' \in [Ops -> 0..(AccMod - 1)]
  <2>1. U64(ms') \in Int
    BY <1>5, U64Type
  <2>2. U64(ms') \div ofl_ms \in Int
    BY <2>1, Derived, DivMod
  <2>3. (U64(ms') \div ofl_ms) * CounterMod \in Int
    BY <2>2, ClockAssumption, SMT
  <2>4. acc[k] + (U64(ms') \div ofl_ms) * CounterMod \in Int
    BY <1>1, <2>3 DEF TypeOK
  <2>5. U64(acc[k] + (U64(ms') \div ofl_ms) * CounterMod) \in 0..(AccMod - 1)
    BY <2>4, U64Type
  <2> QED BY <2>5 DEF TypeOK
<1>7. TypeOK'
  BY <1>5, <1>6 DEF TypeOK, Advance, Ops
<1>8. ClockInv'
  BY DEF ClockInv, Advance
<1>9. ASSUME TimerFits' PROVE acc' = spent'
  <2>1. TimerFits
    BY <1>9 DEF TimerFits, Ticks
  <2> DEFINE x == c - a0
             z == now - a0
             E == e - began
  <2>2. /\ E \in Nat /\ z - x = now - c /\ E <= z - x /\ z - x <= E + 2 * MaxGap
    BY <1>1, <1>4, InputAssumption
  <2>3. ReadMs(now, tstart) = z \div scc_ms /\ z \in Nat /\ z < Horizon
    BY <1>1, <2>1, ReadMsValue DEF TimerFits
  <2>4. ReadMs(c, tstart) = x \div scc_ms /\ x \in Nat
    <3>1. Ticks(c) <= Ticks(now) /\ Ticks(c) \in Nat /\ Ticks(now) \in Nat
      BY <1>1, <1>4, TicksMono, TicksBounds
    <3>2. Ticks(c) - tstart < IntMod \div 2
      <4>1. IntMod \div 2 \in Nat
        BY ClockAssumption, SMT
      <4> QED BY <1>1, <2>1, <3>1, <4>1 DEF TimerFits
    <3> QED BY <1>1, <1>4, <3>2, ReadMsValue
  <2>5. ms' = z \div scc_ms - x \div scc_ms - (E % CounterMod) \div scc_ms
    BY <1>5, <2>3, <2>4
  <2> HIDE DEF x, z
  <2>6. /\ ms' \in Nat /\ ms' < AccMod
        /\ ms' \div ofl_ms = E \div CounterMod
    <3> HIDE DEF E
    <3> QED BY <1>5, <2>2, <2>3, <2>4, <2>5, WrapCount
  <2>7. U64(ms') = ms'
    BY <2>6, ClockAssumption, U64Type
  <2>8. (U64(ms') \div ofl_ms) * CounterMod
          = CounterMod * (E \div CounterMod)
    <3>1. E \div CounterMod \in Nat
      BY <2>2, DivNat, ClockAssumption
    <3> QED BY <2>6, <2>7, <3>1, ClockAssumption, SMT
  <2>9. spent = [acc EXCEPT ![k] = @ + CounterMod * (E \div CounterMod)]
    BY <1>3, <2>1
  <2>10. spent[k] \in 0..(AccMod - 1)
    BY <1>1, <2>1, SpentFits DEF ClockInv, TypeOK
  <2>11. U64(acc[k] + CounterMod * (E \div CounterMod)) = spent[k]
    <3>1. acc[k] + CounterMod * (E \div CounterMod) = spent[k]
      BY <1>1, <2>9 DEF TypeOK
    <3> HIDE DEF E
    <3> QED BY <2>10, <3>1, U64Type
  <2>12. acc' = [acc EXCEPT ![k] = spent[k]]
    BY <2>8, <2>11
  <2> QED BY <2>9, <2>12 DEF TypeOK
<1>10. CyclesExact'
  BY <1>9 DEF CyclesExact
<1> QED BY <1>7, <1>8, <1>10

(***************************************************************************)
(* Theorems                                                                *)
(***************************************************************************)

\* The inductive invariant: the types, the relation of the locals to the
\* clock, and the exact sums, none of which is preserved without the others.
THEOREM Invariance == Spec => []IInv
<1>1. Init => IInv
  <2> SUFFICES ASSUME Init PROVE IInv
    OBVIOUS
  <2>1. now \in Nat /\ Ticks(now) \in Nat
    BY InputAssumption, TicksBounds DEF Init
  <2>2. TypeOK
    BY ClockAssumption, InputAssumption DEF Init, TypeOK, Ops
  <2>3. CyclesPerTick * tstart = 0
    BY ClockAssumption, SMT DEF Init
  <2>4. ClockInv
    BY <2>1, <2>3 DEF ClockInv, Init
  <2> QED BY <2>2, <2>4 DEF IInv, CyclesExact, Init
<1>2. IInv /\ [Next]_vars => IInv'
  <2> SUFFICES ASSUME IInv, [Next]_vars PROVE IInv'
    OBVIOUS
  <2>1. CASE UNCHANGED vars
    BY <2>1 DEF vars, IInv, TypeOK, ClockInv, CyclesExact, TimerFits, Before,
                Ticks, ReadMs
  <2> QED BY <2>1, BeginStep, SkipStep, StartMsStep, StartTStep, AddTStep,
             AddMsStep, WhileStep DEF Next
<1> QED BY <1>1, <1>2, PTL DEF Spec

\* Every variable of the model keeps its type; in particular the counter
\* difference t stays within 32 bits and the sums within 64.
THEOREM TypeCorrect == Spec => []TypeOK
BY Invariance, PTL DEF IInv

\* Between any two reads of the macros, the locals of measure() relate to the
\* clock in the way that makes the recovered number of wraps exact.
THEOREM LocalsFollowClock == Spec => []ClockInv
BY Invariance, PTL DEF IInv

\* While the Timer's reading fits an int the accumulators of measure() hold
\* exactly the cycles spent in their operations: CYCLES_START and CYCLES_ADD
\* account for every wrap of the 32-bit counter.
THEOREM CyclesAreExact == Spec => []CyclesExact
BY Invariance, PTL DEF IInv

\* measure() measures for as long as it is asked to, and begins no pass of
\* its loop after that.
THEOREM MeasuresOnTime == Spec => MeasureOnTime
<1> DEFINE D == Ticks(now) - tstart
           u == D % IntMod
           T == ms_time * TicksPerMs
<1>1. ASSUME IInv, While
      PROVE  /\ pc' = "idle" => TimeUp
             /\ pc' = "if" /\ TimerFits => ~TimeUp
  <2>1. /\ D \in Nat /\ Ticks(now) \in Nat /\ tstart \in Nat /\ now \in Nat
        /\ ms_time \in Nat /\ TicksPerMs \in Nat \ {0} /\ IntMod \in Nat \ {0}
    <3>1. now \in Nat /\ tstart \in Nat /\ ms_time \in Nat /\ tstart <= Ticks(now)
      BY <1>1 DEF IInv, TypeOK, ClockInv
    <3>2. Ticks(now) \in Nat
      BY <3>1, TicksBounds
    <3> QED BY <3>1, <3>2, ClockAssumption
  <2>2. T \in Nat
    BY <2>1, SMT
  <2>3. u \in 0..(IntMod - 1) /\ u <= D
    <3> HIDE DEF D
    <3>1. D \div IntMod \in Nat /\ D = IntMod * (D \div IntMod) + u
          /\ u \in 0..(IntMod - 1)
      BY <2>1, DivNat
    <3>2. IntMod * (D \div IntMod) \in Nat
      BY <2>1, <3>1, SMT
    <3> HIDE DEF u
    <3> QED BY <2>1, <3>1, <3>2
  <2>4. ASSUME NEW m \in Nat
        PROVE  m \div TicksPerMs >= ms_time <=> m >= T
    <3>1. /\ m \div TicksPerMs \in Nat
          /\ TicksPerMs * (m \div TicksPerMs) <= m
          /\ m < TicksPerMs * (m \div TicksPerMs) + TicksPerMs
      BY <2>1, <2>4, DivNat
    <3> DEFINE q == m \div TicksPerMs
    <3> HIDE DEF q
    <3>2. T = TicksPerMs * ms_time
      BY <2>1, SMT
    <3>3. q \in Nat /\ TicksPerMs * q <= m /\ m < TicksPerMs * q + TicksPerMs
      BY <3>1 DEF q
    <3>4. TicksPerMs * q \in Int /\ TicksPerMs * ms_time \in Int
      BY <2>1, <3>3, MulMono
    <3>5. CASE q >= ms_time
      <4>1. TicksPerMs * ms_time <= TicksPerMs * q
        BY <2>1, <3>3, <3>5, MulMono
      <4> HIDE DEF T
      <4> QED BY <3>2, <3>3, <3>4, <3>5, <4>1, <2>2 DEF q
    <3>6. CASE q < ms_time
      <4>1. TicksPerMs * q + TicksPerMs <= TicksPerMs * ms_time
        BY <2>1, <3>3, <3>6, MulMono
      <4> HIDE DEF T
      <4> QED BY <2>1, <3>2, <3>3, <3>4, <3>6, <4>1, <2>2 DEF q
    <3> QED BY <2>1, <3>3, <3>5, <3>6
  <2> HIDE DEF D, T, u
  <2>5. ms' = CDiv(IF u < IntMod \div 2 THEN u ELSE u - IntMod, TicksPerMs)
    BY <1>1 DEF While, ReadMs, ToInt, u, D
  <2>6. CASE u < IntMod \div 2
    <3>1. ms' = u \div TicksPerMs
      BY <2>3, <2>5, <2>6 DEF CDiv
    <3>2. pc' = "idle" => u >= T
      BY <1>1, <2>1, <2>3, <2>4, <3>1, DivNat DEF While
    <3>3. TimerFits => u = D
      <4>1. IntMod \div 2 <= IntMod /\ IntMod \div 2 \in Nat
        BY <2>1, SMT
      <4> QED BY <2>1, <4>1, ModSmall DEF TimerFits, u, D
    <3>4. pc' = "if" => u < T
      <4>1. u \in Nat
        BY <2>1, <2>3
      <4>2. u \div TicksPerMs \in Nat /\ (u \div TicksPerMs >= ms_time <=> u >= T)
        BY <2>1, <2>4, <4>1, DivNat
      <4>3. pc' = "if" => ms' < ms_time
        BY <1>1 DEF While
      <4> QED BY <2>1, <2>2, <3>1, <4>1, <4>2, <4>3
    <3> QED BY <2>1, <2>2, <2>3, <3>2, <3>3, <3>4 DEF TimeUp, T, D
  <2>7. CASE ~(u < IntMod \div 2)
    <3>1. ms' \in Int /\ ms' <= 0
      <4>1. u - IntMod \in Int /\ u - IntMod < 0 /\ -(u - IntMod) \in Nat
        BY <2>1, <2>3
      <4>2. (-(u - IntMod)) \div TicksPerMs \in Nat
        BY <2>1, <4>1, DivNat
      <4> QED BY <2>5, <2>7, <4>1, <4>2 DEF CDiv
    <3>2. pc' = "idle" => ms_time = 0
      BY <1>1, <2>1, <3>1 DEF While
    <3>3. ms_time = 0 => TimeUp
      BY <2>1, SMT DEF TimeUp, D
    <3>4. ~TimerFits
      <4>1. IntMod \div 2 <= IntMod /\ IntMod \div 2 \in Nat
        BY <2>1, SMT
      <4> QED BY <2>1, <2>7, <4>1, ModSmall DEF TimerFits, u, D
    <3> QED BY <3>2, <3>3, <3>4
  <2> QED BY <2>6, <2>7
<1>2. IInv /\ [Next]_vars
        => [pc = "while" => /\ pc' = "idle" => TimeUp
                            /\ pc' = "if" /\ TimerFits => ~TimeUp]_vars
  <2>1. ASSUME [Next]_vars, ~(UNCHANGED vars), pc = "while" PROVE While
    BY <2>1 DEF Next, Begin, Skip, StartMs, StartT, AddT, AddMs
  <2> QED BY <1>1, <2>1
<1> QED BY <1>2, Invariance, PTL DEF MeasureOnTime, Spec

(***************************************************************************)
(* What a measurement reports.                                             *)
(***************************************************************************)

\* The calls of operation i that this measurement has made.
Made(i) ==
  IF pc \in {"idle", "while"} \/ i < k \/ (i = k /\ pc = "add_ms")
    THEN n ELSE n - 1

\* A sum of m times that calls take: no less than m of some call, no more
\* than m of some call.
SumOf(s, m) ==
  /\ m = 0 => s = 0
  /\ m > 0 => /\ \E d \in OpCycles : d * m <= s
              /\ \E d \in OpCycles : s <= d * m

\* What was spent is a sum over the calls made, of the operations asked for.
PassInv ==
  /\ pc # "idle" => n > 0
  /\ pc \in {"start_t", "add_t", "add_ms"} => k \in flags
  /\ pc = "add_t" => now - began \in OpCycles
  /\ \A i \in Ops : SumOf(spent[i], IF i \in flags THEN Made(i) ELSE 0)

\* One call more.
LEMMA SumGrows ==
  ASSUME NEW s \in Nat, NEW m \in Nat, NEW c \in OpCycles, SumOf(s, m)
  PROVE  SumOf(s + c, m + 1)
<1>1. c \in Nat /\ \A d \in OpCycles : d \in Nat
  BY InputAssumption
<1>2. \A d \in Nat : d * (m + 1) = d * m + d /\ d * m \in Nat
  BY SMT
<1>3. CASE m = 0
  BY <1>1, <1>3 DEF SumOf
<1>4. CASE m > 0
  <2>1. PICK d \in OpCycles : d * m <= s
    BY <1>4 DEF SumOf
  <2>2. PICK e \in OpCycles : s <= e * m
    BY <1>4 DEF SumOf
  <2>3. \E x \in OpCycles : x * (m + 1) <= s + c
    <3>1. CASE d <= c
      <4>1. d * (m + 1) <= s + c
        BY <1>1, <1>2, <2>1, <3>1
      <4> QED BY <4>1
    <3>2. CASE c < d
      <4>1. c * m <= d * m
        BY <1>1, <3>2, SMT
      <4>2. c * (m + 1) <= s + c
        BY <1>1, <1>2, <2>1, <4>1
      <4> QED BY <4>2
    <3> QED BY <1>1, <3>1, <3>2
  <2>4. \E x \in OpCycles : s + c <= x * (m + 1)
    <3>1. CASE c <= e
      <4>1. s + c <= e * (m + 1)
        BY <1>1, <1>2, <2>2, <3>1
      <4> QED BY <4>1
    <3>2. CASE e < c
      <4>1. e * m <= c * m
        BY <1>1, <3>2, SMT
      <4>2. s + c <= c * (m + 1)
        BY <1>1, <1>2, <2>2, <4>1
      <4> QED BY <4>2
    <3> QED BY <1>1, <3>1, <3>2
  <2> QED BY <2>3, <2>4 DEF SumOf
<1> QED BY <1>3, <1>4

\* The average of a sum lies between the times of two calls.
LEMMA AverageOfSum ==
  ASSUME NEW s \in Nat, NEW m \in Nat \ {0}, SumOf(s, m)
  PROVE  /\ s > 0
         /\ \E d \in OpCycles : d <= s \div m
         /\ \E d \in OpCycles : d >= s \div m
<1>1. \A d \in OpCycles : d \in Nat \ {0}
  BY InputAssumption
<1> DEFINE q == s \div m
<1>2. q \in Nat /\ m * q <= s /\ s < m * q + m
  BY DivNat
<1>3. PICK d \in OpCycles : d * m <= s
  BY DEF SumOf
<1>4. PICK e \in OpCycles : s <= e * m
  BY DEF SumOf
<1> HIDE DEF q
<1>5. d * m > 0 /\ d * m = m * d /\ d * m \in Nat
  BY <1>1, SMT
<1>6. m * (q + 1) = m * q + m /\ m * q \in Nat
  BY <1>2, SMT
<1>7. d < q + 1
  <2>1. m * d < m * (q + 1)
    BY <1>2, <1>3, <1>5, <1>6
  <2> QED BY <1>1, <1>2, <2>1, MulMono
<1>8. q <= e
  <2>1. SUFFICES ASSUME e < q PROVE FALSE
    BY <1>1, <1>2
  <2>2. m * e + m <= m * q
    BY <1>1, <1>2, <2>1, MulMono
  <2>3. e * m = m * e /\ m * e \in Nat
    BY <1>1, SMT
  <2> QED BY <1>2, <1>4, <1>6, <2>2, <2>3
<1>9. s > 0
  BY <1>3, <1>5
<1> QED BY <1>1, <1>2, <1>7, <1>8, <1>9 DEF q

\* No step disturbs it.
LEMMA PassStep == IInv /\ PassInv /\ [Next]_vars => PassInv'
<1> SUFFICES ASSUME IInv, PassInv, [Next]_vars PROVE PassInv'
  OBVIOUS
<1>1. /\ n \in Nat /\ k \in Ops /\ spent \in [Ops -> Nat] /\ now \in Nat
      /\ Ops = {1, 2, 3}
  BY DEF IInv, TypeOK, Ops
<1>2. CASE Begin
  BY <1>1, <1>2 DEF Begin, PassInv, Made, SumOf
<1>3. CASE Skip
  <2>1. \A i \in Ops : (IF i \in flags THEN Made(i) ELSE 0)
                       = (IF i \in flags' THEN Made(i)' ELSE 0)
    BY <1>1, <1>3 DEF Skip, Advance, Made
  <2> QED BY <1>1, <1>3, <2>1 DEF Skip, Advance, PassInv, SumOf
<1>4. CASE StartMs
  BY <1>1, <1>4 DEF StartMs, PassInv, Made, SumOf
<1>5. CASE StartT
  <2>1. PICK d \in OpCycles : now' = now + d
    BY <1>5 DEF StartT
  <2>2. now' - began' \in OpCycles
    BY <1>1, <1>5, <2>1, InputAssumption DEF StartT
  <2> QED BY <1>1, <1>5, <2>2 DEF StartT, PassInv, Made, SumOf
<1>6. CASE AddT
  <2>1. n > 0 /\ k \in flags /\ now - began \in OpCycles
    BY <1>6 DEF AddT, PassInv
  <2>2. now - began \in Nat
    BY <2>1, InputAssumption
  <2>3. SumOf(spent[k], n - 1)
    BY <1>1, <1>6, <2>1 DEF AddT, PassInv, Made
  <2>4. SumOf(spent[k] + (now - began), (n - 1) + 1)
    BY <1>1, <2>1, <2>3, SumGrows
  <2>5. (n - 1) + 1 = n
    BY <1>1
  <2>6. SumOf(spent'[k], n)
    BY <1>1, <1>6, <2>4, <2>5 DEF AddT
  <2>7. \A i \in Ops : i # k => /\ spent'[i] = spent[i]
                                /\ Made(i)' = Made(i)
    BY <1>1, <1>6 DEF AddT, Made
  <2>8. Made(k)' = n /\ flags' = flags /\ k' = k /\ pc' = "add_ms" /\ n' = n
    BY <1>1, <1>6 DEF AddT, Made
  <2>9. \A i \in Ops : SumOf(spent'[i], IF i \in flags' THEN Made(i)' ELSE 0)
    BY <2>1, <2>6, <2>7, <2>8 DEF PassInv
  <2> QED BY <2>1, <2>8, <2>9 DEF PassInv, SumOf
<1>7. CASE AddMs
  <2>1. \A i \in Ops : (IF i \in flags THEN Made(i) ELSE 0)
                       = (IF i \in flags' THEN Made(i)' ELSE 0)
    BY <1>1, <1>7 DEF AddMs, Advance, Made
  <2> QED BY <1>1, <1>7, <2>1 DEF AddMs, Advance, PassInv, SumOf
<1>8. CASE While
  <2>1. \A i \in Ops : (IF i \in flags THEN Made(i) ELSE 0)
                       = (IF i \in flags' THEN Made(i)' ELSE 0)
    BY <1>1, <1>8 DEF While, Made
  <2> QED BY <1>1, <1>8, <2>1 DEF While, PassInv, SumOf
<1>9. CASE UNCHANGED vars
  BY <1>9 DEF vars, PassInv, Made, SumOf
<1> QED BY <1>2, <1>3, <1>4, <1>5, <1>6, <1>7, <1>8, <1>9 DEF Next

\* The report of a measurement: a row for each operation asked for and for no
\* other, and averages that are within the range of what its calls took
\* (main.cpp:393-403).
THEOREM ReportsAreFaithful == Spec => []ReportFaithful
<1>1. Init => PassInv
  BY DEF Init, PassInv, Made, SumOf, Ops
<1>2. IInv /\ PassInv => ReportFaithful
  <2> SUFFICES ASSUME IInv, PassInv, pc = "idle", n > 0, TimerFits
               PROVE  /\ Rows = flags
                      /\ \A i \in Rows : /\ \E d \in OpCycles : d <= Average(i)
                                         /\ \E d \in OpCycles : d >= Average(i)
    BY DEF ReportFaithful
  <2>1. /\ acc = spent /\ spent \in [Ops -> Nat] /\ n \in Nat \ {0}
        /\ flags \subseteq Ops
    BY DEF IInv, CyclesExact, TypeOK
  <2>2. \A i \in flags : SumOf(acc[i], n)
    BY <2>1 DEF PassInv, Made
  <2>3. \A i \in flags : /\ acc[i] > 0
                         /\ \E d \in OpCycles : d <= acc[i] \div n
                         /\ \E d \in OpCycles : d >= acc[i] \div n
    <3> SUFFICES ASSUME NEW i \in flags
                 PROVE  /\ acc[i] > 0
                        /\ \E d \in OpCycles : d <= acc[i] \div n
                        /\ \E d \in OpCycles : d >= acc[i] \div n
      OBVIOUS
    <3>1. acc[i] \in Nat
      BY <2>1
    <3> QED BY <2>1, <2>2, <3>1, AverageOfSum
  <2>4. \A i \in Ops \ flags : acc[i] = 0
    BY <2>1 DEF PassInv, SumOf
  <2>5. Rows = flags
    BY <2>1, <2>3, <2>4 DEF Rows
  <2> QED BY <2>3, <2>5 DEF Average
<1>3. IInv /\ PassInv /\ [Next]_vars => PassInv'
  BY PassStep
<1> QED BY Invariance, <1>1, <1>2, <1>3, PTL DEF Spec

=============================================================================
