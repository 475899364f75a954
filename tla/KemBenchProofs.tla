--------------------------- MODULE KemBenchProofs ---------------------------
(***************************************************************************)
(* The safety properties of the KEM firmware for every sequence of bytes,  *)
(* every number of passes and every way in which the KEM may fail.         *)
(*                                                                         *)
(* MainInv (BenchMainProofs) says what main(), test_alg() and measure() do *)
(* whatever the algorithm; the invariant here adds what is in the buffers. *)
(***************************************************************************)
EXTENDS KemBench, BenchMainProofs

(***************************************************************************)
(* The inductive invariant                                                 *)
(***************************************************************************)

\* Key generation has been called at least once.
Touched == init_alg \/ pc \in {"t_enc", "t_dec", "t_cmp", "t_note", "t_time", "t_end",
                               "m_enc", "m_dec", "m_while", "m_end", "m_rows"}

\* From then on the key buffers hold a keypair, or what a failed key
\* generation left; between the patterns and the call of the test, neither.
PairInv ==
  Touched /\ pc # "t_kg" =>
    HavePair \/ ("keypair" \in Faults /\ pk = Junk /\ sk = Junk)

\* A ciphertext fits the key as long as no other was made.
CiphertextInv ==
  Touched /\ pc # "t_kg" /\ ~rekeyed /\ ct.key # Junk => Matching

\* The pass of a test so far: what was called has worked.
TestInv ==
  /\ pc = "t_start" => ~faulty
  /\ pc = "t_seed" => r = 0 /\ ~faulty
  /\ pc = "t_kg"   => r = 0 /\ ~faulty /\ seed = i /\ draws = 0
  /\ pc = "t_enc"  => r = 0 /\ ~faulty /\ HavePair /\ pk = <<i, 0>>
  /\ pc = "t_dec"  => r = 0 /\ ~faulty /\ HavePair /\ ct.key = pk /\ ct.ss = s1 /\ IsMade(s1)
  /\ pc = "t_cmp"  => r = 0 /\ HavePair /\ ct.key = pk /\ IsMade(s1) /\ (faulty <=> s1 # s2)
  /\ pc = "t_time" => ~faulty /\ HavePair /\ ct.key = pk /\ IsMade(s1) /\ s1 = s2
  /\ pc = "t_note" => faulty

IInv == TypeOK /\ MainInv /\ PairInv /\ CiphertextInv /\ TestInv /\ VerdictRight

(***************************************************************************)
(* Contents of buffers                                                     *)
(***************************************************************************)

\* Only what an operation made looks so.
LEMMA Contents ==
  /\ ~IsMade(Junk) /\ ~IsMade(Zero) /\ \A b : ~IsMade(Fill(b))
  /\ IsMade(Fresh)
BY DEF IsMade, Junk, Zero, Fill, Fresh

LEMMA Values ==
  /\ Junk \in Value /\ Zero \in Value
  /\ {Fill("0x11"), Fill("0x22"), Fill("0x33"), Fill("0x44"), Fill("0x55")} \subseteq Value
  /\ MainTypeOK => Fresh \in Value
BY DEF Value, Fresh, MainTypeOK

(***************************************************************************)
(* Steps of the firmware that touch no buffer                              *)
(***************************************************************************)

QuietPcs == {"t_kg", "t_enc", "t_dec", "t_cmp"}

\* They neither begin nor go on with the calls of a test, and leave it open
\* whether there has been a key generation.
LEMMA QuietPlace ==
  MainInv /\ Quiet => /\ pc \notin QuietPcs /\ pc' \in MainPcs
                      /\ Touched' => Touched
<1> SUFFICES ASSUME MainInv, Quiet
             PROVE  pc \notin QuietPcs /\ pc' \in MainPcs /\ (Touched' => Touched)
  OBVIOUS
<1> USE DEF Goto, PrintLine, rng, host, Quiet, QuietPcs, MainPcs, Touched
<1>0. CommandInv
  BY DEF MainInv
<1>1. CASE Boot \/ Input \/ SetSeed \/ Done \/ ZzzStart \/ ZzzPulse \/ ZzzEnd \/ TestStart
           \/ TestNote \/ TestTime \/ MeasureStart \/ MeasureEnd
  BY <1>1 DEF Boot, Input, SetSeed, Done, ZzzStart, ZzzPulse, ZzzEnd, TestStart,
    TestNote, TestTime, MeasureStart, MeasureEnd
<1>2. CASE Getc
  BY <1>2, EntryFacts DEF Getc
<1>3. CASE TestEnd \/ MeasureRows
  BY <1>3 DEF TestEnd, MeasureRows
<1>4. NextOp(0) \in {"m_kg", "m_enc", "m_dec", "m_while"}
  BY NextOpFacts, FlagsOps DEF OpPc
<1>5. CASE MeasurePulse
  <2>1. CASE Kg \in Flags(ch)
    <3>1. NextOp(0) = "m_kg"
      BY <2>1, NextOpFacts, FlagsOps DEF OpPc, Kg
    <3> QED BY <1>5, <3>1 DEF MeasurePulse
  <2>2. CASE Kg \notin Flags(ch)
    <3>1. init_alg
      BY <1>0, <1>5, <2>2 DEF MeasurePulse, CommandInv, MeasurePcs
    <3> QED BY <1>4, <1>5, <3>1 DEF MeasurePulse
  <2> QED BY <2>1, <2>2
<1>6. CASE MeasureWhile
  BY <1>4, <1>6 DEF MeasureWhile
<1> QED BY <1>1, <1>2, <1>3, <1>5, <1>6 DEF Steps

(***************************************************************************)
(* Steps of this module are steps of BenchMain                             *)
(***************************************************************************)

LEMMA Simulation == IInv /\ [Next]_vars => [MainNext]_mainvars
<1> SUFFICES ASSUME IInv, [Next]_vars PROVE [MainNext]_mainvars
  OBVIOUS
<1> USE DEF Goto, PrintLine, rng, host
<1>0. MainTypeOK /\ TestInv /\ CommandInv
  BY DEF IInv, MainInv
<1>12. Count(Kg) \/ Count(Enc) \/ Count(Dec) => window' \in [Ops -> Nat]
  BY <1>0, CountTyped
<1>1. CASE Quiet \/ \E b \in Bytes : Receive(b) /\ UNCHANGED kemvars
  BY <1>1 DEF Quiet, MainNext
<1>2. CASE TestSeed
  BY <1>0, <1>2 DEF TestSeed, MainNext, TestStep, MainTypeOK, CallPcs, TestPcs
<1>3. CASE TestKeypair
  BY <1>0, <1>3, <1>12 DEF TestKeypair, CallKeypair, Keypair, Tested, MainNext, TestStep, MainTypeOK,
    CallPcs, TestPcs
<1>4. CASE TestEncaps
  BY <1>0, <1>4, <1>12 DEF TestEncaps, CallEncaps, Encaps, Tested, MainNext, TestStep, MainTypeOK,
    CallPcs, TestPcs
<1>5. CASE TestDecaps
  BY <1>0, <1>5, <1>12 DEF TestDecaps, CallDecaps, Decaps, Tested, MainNext, TestStep, MainTypeOK,
    CallPcs, TestPcs
<1>6. CASE TestEqual
  BY <1>0, <1>6 DEF TestEqual, TestInv, MainNext, TestStep, MainTypeOK, CallPcs, TestPcs
<1>7. CASE TestMismatch
  BY <1>0, <1>7 DEF TestMismatch, MainNext, TestStep, MainTypeOK, CallPcs, TestPcs
<1>8. CASE TimedKeypair
  BY <1>0, <1>8 DEF TimedKeypair, CallKeypair, MainNext, TimedStep, MainTypeOK, Ops
<1>9. CASE TimedEncaps
  BY <1>0, <1>9 DEF TimedEncaps, CallEncaps, MainNext, TimedStep, MainTypeOK, Ops
<1>10. CASE TimedDecaps
  BY <1>0, <1>10 DEF TimedDecaps, CallDecaps, MainNext, TimedStep, MainTypeOK, Ops
<1>11. CASE UNCHANGED vars
  BY <1>11 DEF vars
<1> QED BY <1>1, <1>2, <1>3, <1>4, <1>5, <1>6, <1>7, <1>8, <1>9, <1>10, <1>11
        DEF Next, Device, Calls

(***************************************************************************)
(* The invariant is inductive                                              *)
(***************************************************************************)

LEMMA Initially == Init => IInv
<1> SUFFICES ASSUME Init PROVE IInv
  OBVIOUS
<1>1. MainInv
  BY MainInitially DEF Init
<1>2. pc = "boot" /\ init_alg = FALSE
  BY DEF Init, MainInit
<1>3. TypeOK
  BY <1>1, <1>2, Values DEF Init, TypeOK, MainInv, MainPcs
<1>4. PairInv /\ CiphertextInv /\ TestInv /\ VerdictRight
  BY <1>2 DEF PairInv, CiphertextInv, Touched, TestInv, VerdictRight
<1> QED BY <1>1, <1>3, <1>4 DEF IInv

LEMMA TypeIsKept == IInv /\ MainTypeOK' /\ Next => TypeOK'
<1> SUFFICES ASSUME IInv, MainTypeOK', Next PROVE TypeOK'
  OBVIOUS
<1> USE DEF Goto, PrintLine, rng, host, MainPcs, kemvars, buffers
<1> DEFINE Contained == {pk, sk, s1, s2, ct.key, ct.ss, hex[1], hex[2]} \subseteq Value
<1>0. TypeOK /\ MainTypeOK /\ MainInv
  BY DEF IInv, MainInv
<1>1. ASSUME pc' \in MainPcs \cup {"t_kg", "t_enc", "t_dec", "t_cmp"}, Contained', rekeyed' \in BOOLEAN
      PROVE  TypeOK'
  BY <1>1 DEF TypeOK
<1>2. Junk \in Value /\ Zero \in Value /\ Fresh \in Value
      /\ {Fill("0x11"), Fill("0x22"), Fill("0x33"), Fill("0x44"), Fill("0x55")} \subseteq Value
  BY <1>0, Values
<1>3. CASE Quiet
  BY <1>0, <1>1, <1>3, QuietPlace DEF Quiet, TypeOK
<1>4. CASE TestSeed
  BY <1>0, <1>1, <1>2, <1>4 DEF TestSeed, Patterns, TypeOK
<1>5. CASE TestKeypair
  BY <1>0, <1>1, <1>2, <1>5 DEF TestKeypair, CallKeypair, Keypair, Tested, TypeOK
<1>14. ASSUME NEW ret, CallEncaps(ret) PROVE Contained' /\ rekeyed' \in BOOLEAN
  <2>1. ct'.key \in {pk, Junk} /\ ct'.ss \in {Fresh, Junk} /\ s1' \in {Fresh, Junk}
    BY <1>14 DEF CallEncaps, Encaps
  <2> QED BY <1>0, <1>2, <1>14, <2>1 DEF CallEncaps, TypeOK
<1>6. CASE TestEncaps
  BY <1>0, <1>1, <1>6, <1>14 DEF TestEncaps, Tested, TypeOK
<1>7. CASE TestDecaps
  BY <1>0, <1>1, <1>2, <1>7 DEF TestDecaps, CallDecaps, Decaps, Tested, TypeOK
<1>8. CASE TestEqual \/ TestMismatch
  BY <1>0, <1>1, <1>8 DEF TestEqual, TestMismatch, TypeOK
<1>9. \A o \in Ops : NextOp(o) \in MainPcs
  BY NextOpFacts, FlagsOps DEF OpPc, Ops, Kg, Enc, Dec
<1>10. CASE TimedKeypair
  BY <1>0, <1>1, <1>2, <1>9, <1>10 DEF TimedKeypair, Timed, CallKeypair, Keypair, TypeOK, Ops
<1>11. CASE TimedEncaps
  BY <1>0, <1>1, <1>9, <1>11, <1>14 DEF TimedEncaps, Timed, TypeOK, Ops
<1>12. CASE TimedDecaps
  BY <1>0, <1>1, <1>2, <1>9, <1>12 DEF TimedDecaps, Timed, CallDecaps, Decaps, TypeOK, Ops
<1>13. CASE \E b \in Bytes : Receive(b) /\ UNCHANGED kemvars
  BY <1>0, <1>1, <1>13 DEF Receive, TypeOK
<1> QED BY <1>3, <1>4, <1>5, <1>6, <1>7, <1>8, <1>10, <1>11, <1>12, <1>13 DEF Next, Device, Calls

LEMMA PairsAreKept == IInv /\ Next => PairInv'
<1> SUFFICES ASSUME IInv, Next PROVE PairInv'
  OBVIOUS
<1> USE DEF Goto, PrintLine, rng, host, kemvars, buffers
<1>0. MainInv /\ PairInv /\ TestInv
  BY DEF IInv
<1>1. ASSUME UNCHANGED <<pk, sk>>, Touched' => Touched, pc # "t_kg"
      PROVE  PairInv'
  BY <1>0, <1>1 DEF PairInv, HavePair
<1>2. CASE Quiet
  BY <1>0, <1>1, <1>2, QuietPlace DEF Quiet, QuietPcs
<1>3. CASE TestSeed
  BY <1>3 DEF TestSeed, PairInv
<1>4. ASSUME NEW ret, Keypair(ret, pk', sk') PROVE PairInv'
  BY <1>4, Contents DEF Keypair, PairInv, HavePair
<1>5. CASE TestKeypair \/ TimedKeypair
  BY <1>4, <1>5 DEF TestKeypair, TimedKeypair, CallKeypair
<1>6. CASE TestEncaps \/ TestDecaps \/ TestEqual \/ TestMismatch
  BY <1>1, <1>6 DEF TestEncaps, TestDecaps, CallEncaps, CallDecaps, Tested,
    TestEqual, TestMismatch, Touched
<1>7. CASE TimedEncaps \/ TimedDecaps
  BY <1>1, <1>7 DEF TimedEncaps, TimedDecaps, Timed, CallEncaps, CallDecaps, Touched,
    OpPc, Enc, Dec
<1>8. CASE \E b \in Bytes : Receive(b) /\ UNCHANGED kemvars
  BY <1>0, <1>8 DEF Receive, PairInv, HavePair, Touched
<1> QED BY <1>2, <1>3, <1>5, <1>6, <1>7, <1>8 DEF Next, Device, Calls

LEMMA CiphertextsAreKept == IInv /\ Next => CiphertextInv'
<1> SUFFICES ASSUME IInv, Next PROVE CiphertextInv'
  OBVIOUS
<1> USE DEF Goto, PrintLine, rng, host, kemvars, buffers
<1>0. MainInv /\ PairInv /\ CiphertextInv
  BY DEF IInv
<1>1. ASSUME UNCHANGED <<sk, ct, rekeyed>>, Touched' => Touched, pc # "t_kg"
      PROVE  CiphertextInv'
  BY <1>0, <1>1 DEF CiphertextInv, Matching
<1>2. CASE Quiet
  BY <1>0, <1>1, <1>2, QuietPlace DEF Quiet, QuietPcs
<1>3. CASE TestSeed
  BY <1>3 DEF TestSeed, CiphertextInv
<1>4. CASE TestKeypair \/ TimedKeypair
  BY <1>4 DEF TestKeypair, TimedKeypair, CallKeypair, CiphertextInv
<1>5. ASSUME NEW ret, CallEncaps(ret), Touched, pc # "t_kg" PROVE CiphertextInv'
  BY <1>0, <1>5, Contents DEF CallEncaps, Encaps, CiphertextInv, Matching, PairInv, HavePair
<1>6. CASE TestEncaps \/ TimedEncaps
  BY <1>5, <1>6 DEF TestEncaps, TimedEncaps, Tested, Timed, Touched, OpPc, Enc
<1>7. CASE TestDecaps \/ TestEqual \/ TestMismatch
  BY <1>1, <1>7 DEF TestDecaps, CallDecaps, Tested, TestEqual, TestMismatch, Touched
<1>8. CASE TimedDecaps
  BY <1>1, <1>8 DEF TimedDecaps, Timed, CallDecaps, Touched, OpPc, Dec
<1>9. CASE \E b \in Bytes : Receive(b) /\ UNCHANGED kemvars
  BY <1>0, <1>9 DEF Receive, CiphertextInv, Matching, Touched
<1> QED BY <1>2, <1>3, <1>4, <1>6, <1>7, <1>8, <1>9 DEF Next, Device, Calls

LEMMA TestsAreKept == IInv /\ Next => TestInv' /\ VerdictRight'
<1> SUFFICES ASSUME IInv, Next PROVE TestInv' /\ VerdictRight'
  OBVIOUS
<1> USE DEF Goto, PrintLine, rng, host, kemvars, buffers
<1> DEFINE Calling == {"t_start", "t_seed", "t_kg", "t_enc", "t_dec", "t_cmp", "t_time", "t_note", "t_end"}
<1>0. TypeOK /\ MainTypeOK /\ MainInv /\ CommandInv /\ TestInv /\ VerdictRight
  BY DEF IInv, MainInv
<1>1. ASSUME pc' \notin Calling PROVE TestInv' /\ VerdictRight'
  BY <1>1 DEF TestInv, VerdictRight
<1>2. CASE Quiet
  <2> USE DEF Quiet
  <2>1. CASE Boot \/ Input \/ SetSeed \/ Done \/ ZzzStart \/ ZzzPulse \/ ZzzEnd \/ TestEnd
             \/ MeasureStart \/ MeasureEnd \/ MeasureRows
    BY <1>1, <2>1 DEF Boot, Input, SetSeed, Done, ZzzStart, ZzzPulse, ZzzEnd, TestEnd,
      MeasureStart, MeasureEnd, MeasureRows
  <2>2. CASE Getc
    BY <2>2, EntryFacts DEF Getc, TestInv, VerdictRight
  <2>3. CASE TestStart
    BY <1>0, <2>3 DEF TestStart, TestInv, VerdictRight
  <2>4. CASE TestNote
    BY <1>0, <2>4 DEF TestNote, TestInv, VerdictRight, CommandInv
  <2>5. CASE TestTime
    <3>1. /\ r = 0 /\ ~faulty /\ HavePair /\ ct.key = pk /\ IsMade(s1) /\ s1 = s2
          /\ UNCHANGED <<r, faulty, kemvars>>
      BY <1>0, <1>2, <2>5 DEF TestTime, TestInv, CommandInv
    <3>2. CASE pc' = "t_seed"
      BY <3>1, <3>2 DEF TestInv, VerdictRight
    <3>3. CASE pc' = "t_end"
      BY <3>1, <3>3 DEF TestInv, VerdictRight, HavePair
    <3> QED BY <2>5, <3>2, <3>3 DEF TestTime
  <2>6. CASE MeasurePulse \/ MeasureWhile
    <3>1. NextOp(0) \in {"m_kg", "m_enc", "m_dec", "m_while"}
      BY NextOpFacts, FlagsOps DEF OpPc
    <3> QED BY <1>1, <2>6, <3>1 DEF MeasurePulse, MeasureWhile
  <2> QED BY <1>2, <2>1, <2>2, <2>3, <2>4, <2>5, <2>6 DEF Steps
<1>3. CASE TestSeed
  BY <1>0, <1>3 DEF TestSeed, TestInv, VerdictRight
<1>4. CASE TestKeypair
  <2>1. /\ pc = "t_kg" /\ seed = i /\ draws = 0 /\ ~faulty
        /\ i' = i /\ Keypair(r', pk', sk')
        /\ faulty' = (faulty \/ r' # 0)
        /\ pc' = IF r' # 0 THEN "t_note" ELSE "t_enc"
    BY <1>0, <1>4 DEF TestKeypair, CallKeypair, Tested, TestInv
  <2>2. CASE r' = 0
    <3>1. pk' = Fresh /\ sk' = Fresh
      BY <2>1, <2>2 DEF Keypair
    <3>4. ~faulty'
      BY <2>1, <2>2
    <3>5. pc' = "t_enc"
      BY <2>1, <2>2
    <3>3. Fresh = <<i, 0>>
      BY <2>1 DEF Fresh
    <3>2. HavePair'
      BY <3>1, Contents DEF HavePair
    <3> QED BY <2>1, <2>2, <3>1, <3>2, <3>3 DEF TestInv, VerdictRight
  <2>3. CASE r' # 0
    BY <2>1, <2>3 DEF TestInv, VerdictRight
  <2> QED BY <2>2, <2>3
<1>5. CASE TestEncaps
  <2>1. /\ pc = "t_enc" /\ ~faulty /\ HavePair /\ UNCHANGED <<pk, sk>>
        /\ Encaps(r', ct', s1')
        /\ faulty' = (faulty \/ r' # 0)
        /\ pc' = IF r' # 0 THEN "t_note" ELSE "t_dec"
    BY <1>0, <1>5 DEF TestEncaps, CallEncaps, Tested, TestInv
  <2>2. CASE r' = 0
    <3>1. ct'.key = pk /\ ct'.ss = s1' /\ IsMade(s1')
      BY <2>1, <2>2, Contents DEF Encaps
    <3>2. HavePair'
      BY <2>1 DEF HavePair
    <3> QED BY <2>1, <2>2, <3>1, <3>2 DEF TestInv, VerdictRight
  <2>3. CASE r' # 0
    BY <2>1, <2>3 DEF TestInv, VerdictRight
  <2> QED BY <2>2, <2>3
<1>6. CASE TestDecaps
  BY <1>0, <1>6, Contents DEF TestDecaps, CallDecaps, Decaps, Matching, Tested, TestInv,
    VerdictRight, HavePair
<1>7. CASE TestEqual
  BY <1>0, <1>7 DEF TestEqual, TestInv, VerdictRight, HavePair
<1>8. CASE TestMismatch
  BY <1>0, <1>8 DEF TestMismatch, TestInv, VerdictRight
<1>9. CASE TimedKeypair \/ TimedEncaps \/ TimedDecaps
  <2>1. \A o \in Ops : NextOp(o) \in {"m_kg", "m_enc", "m_dec", "m_while"}
    BY NextOpFacts, FlagsOps DEF OpPc, Ops, Kg, Enc, Dec
  <2> QED BY <1>1, <1>9, <2>1 DEF TimedKeypair, TimedEncaps, TimedDecaps, Timed, Ops
<1>10. CASE \E b \in Bytes : Receive(b) /\ UNCHANGED kemvars
  BY <1>0, <1>10 DEF Receive, TestInv, VerdictRight, HavePair
<1> QED BY <1>2, <1>3, <1>4, <1>5, <1>6, <1>7, <1>8, <1>9, <1>10 DEF Next, Device, Calls

LEMMA StutterKeeps == IInv /\ UNCHANGED vars => IInv'
BY DEF IInv, vars, mainvars, kemvars, buffers, rng, host, TypeOK, MainInv, MainTypeOK, CommandInv,
  WindowInv, CalledBefore, PairInv, CiphertextInv, TestInv, VerdictRight, HavePair, Matching, Touched

\* The invariant holds in every reachable state.
THEOREM Invariance == Spec => []IInv
<1>1. IInv /\ [Next]_vars => IInv'
  <2> SUFFICES ASSUME IInv, [Next]_vars PROVE IInv'
    OBVIOUS
  <2>1. CASE Next
    <3>1. MainInv'
      BY Simulation, MainStep DEF IInv
    <3> QED BY <2>1, <3>1, TypeIsKept, PairsAreKept, CiphertextsAreKept, TestsAreKept
            DEF IInv, MainInv
  <2> QED BY <2>1, StutterKeeps
<1> QED BY <1>1, Initially, PTL DEF Spec

(***************************************************************************)
(* The properties                                                          *)
(***************************************************************************)

\* Every variable keeps its type.
THEOREM TypeCorrect == Spec => []TypeOK
<1>1. IInv => TypeOK
  BY DEF IInv
<1> QED BY <1>1, Invariance, PTL

\* What is measured is what the averages are taken of (main.cpp:345-390).
THEOREM WindowIsClean == Spec => []WindowClean
<1>1. IInv => WindowClean
  BY MainWindowClean DEF IInv
<1> QED BY <1>1, Invariance, PTL

\* A KEM whose key generation does not fail is never timed without a
\* keypair, whatever else fails and whatever commands came (main.cpp:345-347).
THEOREM KeypairComesFirst ==
  ASSUME "keypair" \notin Faults
  PROVE  Spec => []KeypairBeforeUse
<1>1. IInv => KeypairBeforeUse
  BY DEF IInv, PairInv, Touched, KeypairBeforeUse
<1> QED BY <1>1, Invariance, PTL

\* PASS exactly if nothing has gone wrong (main.cpp:295-333).
THEOREM VerdictsAreRight == Spec => []VerdictRight
<1>1. IInv => VerdictRight
  BY DEF IInv
<1> QED BY <1>1, Invariance, PTL

\* The i of a report reproduces its keypair (main.cpp:287-295).
THEOREM TestsReproduce == Spec => []TestReproducible
<1>1. IInv => TestReproducible
  BY DEF IInv, TestInv, TestReproducible
<1> QED BY <1>1, Invariance, PTL

\* When a decapsulation is timed on a ciphertext that fits (main.cpp:345-384).
THEOREM DecapsulationsMatch == Spec => []DecapsMatched
<1>1. IInv => DecapsMatched
  BY DEF IInv, CiphertextInv, Touched, DecapsMatched
<1> QED BY <1>1, Invariance, PTL

\* The lines and pulses are the ones that BenchConsole promises, in its order.
THEOREM ConsoleIsImplemented == Spec => Console!Init /\ [][Console!Next]_(Console!vars)
<1>1. Init => Console!Init
  BY ConsoleInitially DEF Init
<1>2. IInv /\ [Next]_vars => [Console!Next]_(Console!vars)
  BY Simulation, ConsoleStep DEF IInv
<1> QED BY <1>1, <1>2, Invariance, PTL DEF Spec

=============================================================================
