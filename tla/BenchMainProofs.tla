--------------------------- MODULE BenchMainProofs ---------------------------
(***************************************************************************)
(* What holds of the firmware whatever its algorithm does, so that it need *)
(* be proved only once: KemBenchProofs and SignBenchProofs show that each  *)
(* of their steps is a MainNext step.                                      *)
(***************************************************************************)
EXTENDS BenchMain, TLAPS

\* Where test_alg() calls the algorithm or looks at what it returned.
CallPcs == {"t_seed", "t_kg", "t_enc", "t_long", "t_dec", "t_cmp", "t_corrupt", "t_bad"}
TestPcs == CallPcs \cup {"t_start", "t_note", "t_time", "t_end"}
MeasurePcs == {"m_start", "m_d7", "m_kg", "m_enc", "m_dec", "m_while", "m_end", "m_rows"}

\* A step of test_alg() that does so: it does not leave the test, and a
\* failure is in r.  Its calls count like any other.
TestStep ==
  /\ pc \in CallPcs
  /\ pc' \in TestPcs \ {"t_start"}
  /\ pc' \in {"t_note", "t_end"} => r' # 0
  /\ pc' = "t_time" => r' = 0
  /\ seed' \in Int /\ draws' \in Nat /\ r' \in Int /\ faulty' \in BOOLEAN
  /\ window' \in [Ops -> Nat]
  /\ UNCHANGED <<ch, init_alg, i, n, host>>

\* A timed call.
TimedStep ==
  /\ \E o \in Ops, ret \in {0, 1} : Timed(o, ret) /\ Count(o)
  /\ seed' = seed /\ draws' \in Nat /\ faulty' \in BOOLEAN

MainNext == \/ Steps \/ MeasurePulse \/ MeasureWhile \/ TestStep \/ TimedStep
            \/ \E b \in Bytes : Receive(b)

(***************************************************************************)
(* The inductive invariant                                                 *)
(***************************************************************************)

\* What brought the firmware to where it is.
CommandInv ==
  /\ pc \in MainPcs \cup CallPcs
  /\ pc = "digit" => IsDigit(ch)
  /\ pc \in {"digit", "z_start", "z_d7", "z_end"} => ~IsMeasure(ch) /\ ~IsTest(ch)
  /\ pc \in TestPcs => IsMeasure(ch) \/ IsTest(ch)
  /\ pc \in MeasurePcs => IsMeasure(ch) /\ (init_alg \/ Kg \in Flags(ch))
  /\ pc = "m_d7" => n = 0
  /\ pc = "t_note" => r # 0
  /\ pc = "t_time" => r = 0

\* In this pass the operations before p have been called and the others not.
CalledBefore(p) ==
  window = [o \in Ops |-> IF o \in Flags(ch) THEN (IF o < p THEN n ELSE n - 1) ELSE 0]

WindowInv ==
  /\ \A p \in Ops : pc = OpPc[p] => p \in Flags(ch) /\ CalledBefore(p)
  /\ pc \in {"m_while", "m_end", "m_rows"} => CalledBefore(4)

MainInv == MainTypeOK /\ CommandInv /\ WindowInv

(***************************************************************************)
(* Commands                                                                *)
(***************************************************************************)

\* The operations of a command are operations.
LEMMA FlagsOps == ASSUME NEW c PROVE Flags(c) \subseteq {1, 2, 3}
BY DEF Flags, Ops, Kg, Enc, Dec

\* A digit has a value.
LEMMA DigitValue == ASSUME NEW c, IsDigit(c) PROVE Digit(c) \in 0..9
<1>1. PICK d \in 1..10 : c = DigitSeq[d]
  BY DEF IsDigit
<1>2. d - 1 \in 0..9 /\ c = DigitSeq[(d - 1) + 1]
  BY <1>1
<1> QED BY <1>2 DEF Digit

\* A byte goes where its class of commands goes.
LEMMA EntryFacts ==
  ASSUME NEW c
  PROVE  /\ Entry(c) \in {"m_start", "t_start", "z_start", "digit", "done", "input"}
         /\ Entry(c) = "m_start" => IsMeasure(c) /\ ~NeedsTest(c, init_alg)
         /\ Entry(c) = "t_start" => (IsMeasure(c) /\ NeedsTest(c, init_alg)) \/ IsTest(c)
         /\ Entry(c) = "digit" => IsDigit(c)
         /\ Entry(c) \in {"digit", "z_start"} => ~IsMeasure(c) /\ ~IsTest(c)
BY DEF Entry

\* A call counted is a number of calls.
LEMMA CountTyped ==
  ASSUME MainTypeOK, Count(Kg) \/ Count(Enc) \/ Count(Dec)
  PROVE  window' \in [Ops -> Nat]
<1>1. {Kg, Enc, Dec} \subseteq Ops /\ window \in [Ops -> Nat]
  BY DEF Ops, MainTypeOK
<1> QED BY <1>1 DEF Count

\* NextOp(o) is the first operation after o that is asked for, if there is one.
LEMMA NextOpFacts ==
  ASSUME NEW o \in 0..3
  PROVE  \/ NextOp(o) = "m_while" /\ \A p \in Flags(ch) : p <= o
         \/ \E p \in Flags(ch) : /\ p > o /\ NextOp(o) = OpPc[p]
                                 /\ \A q \in Flags(ch) : q > o => p <= q
<1>0. Flags(ch) \subseteq {1, 2, 3}
  BY FlagsOps
<1>1. CASE ~ \E p \in Flags(ch) : p > o
  BY <1>0, <1>1 DEF NextOp
<1>2. CASE \E p \in Flags(ch) : p > o
  <2> DEFINE First(p) == p > o /\ \A q \in Flags(ch) : q > o => p <= q
  <2>1. \E p \in Flags(ch) : First(p)
    BY <1>0, <1>2
  <2>2. (CHOOSE p \in Flags(ch) : First(p)) \in Flags(ch) /\ First(CHOOSE p \in Flags(ch) : First(p))
    BY <2>1
  <2>3. NextOp(o) = OpPc[CHOOSE p \in Flags(ch) : First(p)]
    BY <1>2 DEF NextOp
  <2> QED BY <2>2, <2>3
<1> QED BY <1>1, <1>2

(***************************************************************************)
(* The invariant is inductive                                              *)
(***************************************************************************)

LEMMA MainInitially == MainInit => MainInv
<1> SUFFICES ASSUME MainInit PROVE MainInv
  OBVIOUS
<1> USE MainAssumption DEF MainInit
<1>1. MainTypeOK
  <2>1. window \in [Ops -> Nat]
    BY DEF NoCalls
  <2>2. 0 \in 0..(MaxPass - 1) /\ 0 \in 0..MaxPass /\ 0 \in 0..MaxBytes
    OBVIOUS
  <2>3. /\ ch \in Bytes \cup {NoByte} /\ rx \in Bytes \cup {NoByte}
        /\ seed \in Int /\ draws \in Nat
        /\ i \in 0..(MaxPass - 1) /\ n \in 0..MaxPass /\ r \in Int
        /\ sent \in 0..MaxBytes
    BY <2>2
  <2>4. {init_alg, faulty} \subseteq BOOLEAN
    OBVIOUS
  <2> QED BY <2>1, <2>3, <2>4 DEF MainTypeOK
<1>2. CommandInv
  BY DEF CommandInv, MainPcs, CallPcs, TestPcs, MeasurePcs
<1>3. WindowInv
  BY DEF WindowInv, OpPc, Ops, Kg, Enc, Dec
<1> QED BY <1>1, <1>2, <1>3 DEF MainInv

LEMMA TypeStep == MainTypeOK /\ CommandInv /\ MainNext => MainTypeOK'
<1> SUFFICES ASSUME MainTypeOK, CommandInv, MainNext PROVE MainTypeOK'
  OBVIOUS
<1> USE MainAssumption DEF MainTypeOK, Goto, PrintLine, rng, host
<1>1. CASE Boot \/ Input \/ Done \/ ZzzStart \/ ZzzEnd \/ TestNote \/ MeasureEnd
  BY <1>1 DEF Boot, Input, Done, ZzzStart, ZzzEnd, TestNote, MeasureEnd
<1>2. CASE Getc
  BY <1>2 DEF Getc
<1>3. CASE SetSeed
  <2>1. Digit(ch) \in 0..9
    BY <1>3, DigitValue DEF SetSeed, CommandInv
  <2> QED BY <1>3, <2>1 DEF SetSeed
<1>0. NoCalls \in [Ops -> Nat] /\ 0 \in 0..(MaxPass - 1) /\ 0 \in 0..MaxPass
  BY DEF NoCalls
<1>4. CASE ZzzPulse
  BY <1>0, <1>4 DEF ZzzPulse
<1>12. CASE TestStart \/ MeasureStart
  BY <1>0, <1>12 DEF TestStart, MeasureStart
<1>13. CASE TestEnd
  <2>1. {TRUE, faulty} \subseteq BOOLEAN
    OBVIOUS
  <2> QED BY <1>13, <2>1 DEF TestEnd
<1>5. CASE TestTime
  BY <1>5 DEF TestTime
<1>6. CASE MeasureRows
  <2>1. (init_alg \/ Kg \in Flags(ch)) \in BOOLEAN
    OBVIOUS
  <2> QED BY <1>6, <2>1 DEF MeasureRows
<1>7. CASE MeasurePulse
  <2>1. n = 0
    BY <1>7 DEF MeasurePulse, CommandInv
  <2> QED BY <1>0, <1>7, <2>1 DEF MeasurePulse
<1>8. CASE MeasureWhile
  BY <1>8 DEF MeasureWhile
<1>9. CASE TestStep
  BY <1>9 DEF TestStep
<1>10. CASE TimedStep
  BY <1>10 DEF TimedStep, Timed, Count
<1>11. CASE \E b \in Bytes : Receive(b)
  BY <1>11 DEF Receive
<1> QED BY <1>1, <1>2, <1>3, <1>4, <1>5, <1>6, <1>7, <1>8, <1>9, <1>10, <1>11,
        <1>12, <1>13 DEF MainNext, Steps

LEMMA CommandStep == MainTypeOK /\ CommandInv /\ MainNext => CommandInv'
<1> SUFFICES ASSUME MainTypeOK, CommandInv, MainNext PROVE CommandInv'
  OBVIOUS
<1> USE DEF Goto, PrintLine, rng, host
<1>1. CASE Boot \/ Input \/ Done \/ ZzzStart \/ ZzzPulse \/ ZzzEnd \/ SetSeed
  BY <1>1 DEF Boot, Input, Done, ZzzStart, ZzzPulse, ZzzEnd, SetSeed, CommandInv,
    MainPcs, CallPcs, TestPcs, MeasurePcs
<1>2. CASE Getc
  <2>1. NeedsTest(rx, init_alg) = (IsMeasure(rx) /\ Kg \notin Flags(rx) /\ ~init_alg)
    BY DEF NeedsTest
  <2>2. pc' = Entry(rx) /\ ch' = rx /\ init_alg' = init_alg
    BY <1>2 DEF Getc
  <2> QED BY <2>1, <2>2, EntryFacts DEF CommandInv, MainPcs, CallPcs, TestPcs, MeasurePcs
<1>3. CASE TestStart \/ TestNote
  BY <1>3 DEF TestStart, TestNote, CommandInv, MainPcs, CallPcs, TestPcs, MeasurePcs
<1>4. CASE TestTime
  BY <1>4 DEF TestTime, CommandInv, MainPcs, CallPcs, TestPcs, MeasurePcs
<1>5. CASE TestEnd
  BY <1>5 DEF TestEnd, CommandInv, MainPcs, CallPcs, TestPcs, MeasurePcs
<1>6. CASE MeasureStart \/ MeasureEnd \/ MeasureRows
  BY <1>6 DEF MeasureStart, MeasureEnd, MeasureRows, CommandInv,
    MainPcs, CallPcs, TestPcs, MeasurePcs
<1>7. ASSUME NEW o \in 0..3, pc \in MeasurePcs, pc' = NextOp(o), UNCHANGED <<ch, init_alg>>
      PROVE  CommandInv'
  <2>1. NextOp(o) \in {"m_kg", "m_enc", "m_dec", "m_while"}
    BY NextOpFacts, FlagsOps DEF OpPc
  <2> QED BY <1>7, <2>1 DEF CommandInv, MainPcs, CallPcs, TestPcs, MeasurePcs
<1>8. CASE MeasurePulse
  BY <1>7, <1>8 DEF MeasurePulse, MeasurePcs
<1>9. CASE MeasureWhile
  <2>1. CASE pc' = "m_end"
    BY <1>9, <2>1 DEF MeasureWhile, CommandInv, MainPcs, CallPcs, TestPcs, MeasurePcs
  <2>2. CASE pc' = NextOp(0)
    BY <1>7, <1>9, <2>2 DEF MeasureWhile, MeasurePcs
  <2> QED BY <1>9, <2>1, <2>2 DEF MeasureWhile
<1>10. CASE TestStep
  BY <1>10 DEF TestStep, CommandInv, MainPcs, CallPcs, TestPcs, MeasurePcs
<1>11. CASE TimedStep
  <2>1. PICK o \in Ops, ret \in {0, 1} : Timed(o, ret) /\ Count(o)
    BY <1>11 DEF TimedStep
  <2>2. pc \in MeasurePcs /\ o \in 0..3
    BY <2>1 DEF Timed, OpPc, MeasurePcs, Ops, Kg, Enc, Dec
  <2> QED BY <1>7, <2>1, <2>2 DEF Timed
<1>12. CASE \E b \in Bytes : Receive(b)
  BY <1>12 DEF Receive, CommandInv
<1> QED BY <1>1, <1>2, <1>3, <1>4, <1>5, <1>6, <1>8, <1>9, <1>10, <1>11, <1>12
        DEF MainNext, Steps

LEMMA WindowStep == MainInv /\ MainNext => WindowInv'
<1> SUFFICES ASSUME MainInv, MainNext PROVE WindowInv'
  OBVIOUS
<1> USE DEF Goto, PrintLine, rng, host
<1>0. /\ Flags(ch) \subseteq {1, 2, 3} /\ Ops = {1, 2, 3}
      /\ OpPc[1] = "m_kg" /\ OpPc[2] = "m_enc" /\ OpPc[3] = "m_dec"
  BY FlagsOps DEF Ops, Kg, Enc, Dec, OpPc
<1>1. ASSUME pc' \notin {"m_kg", "m_enc", "m_dec", "m_while", "m_end", "m_rows"}
      PROVE  WindowInv'
  BY <1>0, <1>1 DEF WindowInv
<1>2. CASE Boot \/ Input \/ SetSeed \/ Done \/ ZzzStart \/ ZzzPulse \/ ZzzEnd
           \/ TestStart \/ TestNote \/ MeasureStart \/ MeasureRows
  BY <1>1, <1>2 DEF Boot, Input, SetSeed, Done, ZzzStart, ZzzPulse, ZzzEnd,
    TestStart, TestNote, MeasureStart, MeasureRows
<1>3. CASE Getc
  BY <1>1, <1>3, EntryFacts DEF Getc
<1>4. CASE TestTime \/ TestEnd \/ TestStep
  BY <1>1, <1>4 DEF TestTime, TestEnd, TestStep, TestPcs, CallPcs
<1>5. CASE MeasureEnd
  BY <1>0, <1>5 DEF MeasureEnd, WindowInv, CalledBefore, MainInv
<1>6. CASE \E b \in Bytes : Receive(b)
  BY <1>6 DEF Receive, WindowInv, CalledBefore, MainInv
\* A pass begins: of the operations asked for, none has been called in it.
<1>7. ASSUME pc' = NextOp(0), ch' = ch, IsMeasure(ch), n \in Nat, n' = n + 1,
             window' = [o \in Ops |-> IF o \in Flags(ch) THEN n ELSE 0]
      PROVE  WindowInv'
  <2>1. PICK p \in Flags(ch) : pc' = OpPc[p] /\ \A q \in Flags(ch) : p <= q
    BY <1>0, <1>7, NextOpFacts DEF IsMeasure
  <2>2. CalledBefore(p)'
    BY <1>0, <1>7, <2>1 DEF CalledBefore
  <2> QED BY <1>0, <1>7, <2>1, <2>2 DEF WindowInv
<1>8. CASE MeasurePulse
  <2>1. n = 0 /\ IsMeasure(ch)
    BY <1>8 DEF MeasurePulse, MainInv, CommandInv, MeasurePcs
  <2>2. window' = [o \in Ops |-> IF o \in Flags(ch) THEN n ELSE 0]
    BY <1>8, <2>1 DEF MeasurePulse, NoCalls
  <2> QED BY <1>7, <1>8, <2>1, <2>2 DEF MeasurePulse
<1>9. CASE MeasureWhile
  <2>1. CalledBefore(4) /\ n \in Nat /\ IsMeasure(ch)
    BY <1>9, MainAssumption DEF MeasureWhile, MainInv, WindowInv, MainTypeOK, CommandInv, MeasurePcs
  <2>2. window = [o \in Ops |-> IF o \in Flags(ch) THEN n ELSE 0]
    BY <1>0, <2>1 DEF CalledBefore
  <2>3. CASE pc' = "m_end" /\ n' = n
    BY <1>0, <1>9, <2>1, <2>3 DEF MeasureWhile, WindowInv, CalledBefore
  <2>4. CASE pc' = NextOp(0) /\ n' = n + 1
    BY <1>7, <1>9, <2>1, <2>2, <2>4 DEF MeasureWhile
  <2> QED BY <1>9, <2>3, <2>4 DEF MeasureWhile
<1>10. CASE TimedStep
  <2>1. PICK o \in Ops, ret \in {0, 1} : Timed(o, ret) /\ Count(o)
    BY <1>10 DEF TimedStep
  <2>2. pc = OpPc[o] /\ pc' = NextOp(o) /\ UNCHANGED <<ch, n>>
    BY <2>1 DEF Timed
  <2>3. o \in Flags(ch) /\ CalledBefore(o) /\ n \in 0..MaxPass
    BY <2>2 DEF MainInv, WindowInv, MainTypeOK
  <2>7. window' = [window EXCEPT ![o] = @ + 1]
    <3>1. window[o] = n - 1 /\ ~(n - 1 > MaxPass)
      BY <1>0, <2>3, MainAssumption DEF CalledBefore
    <3> QED BY <2>1, <3>1 DEF Count
  <2>6. window' = [q \in Ops |-> IF q \notin Flags(ch) THEN 0
                                 ELSE IF q <= o THEN n ELSE n - 1]
    <3>1. \A q \in Flags(ch) : q # o => (q <= o) = (q < o)
      BY <1>0
    <3>2. window' = [q \in Ops |-> IF q = o THEN window[q] + 1 ELSE window[q]]
      BY <2>3, <2>7 DEF CalledBefore
    <3>3. o \in Int /\ n - 1 + 1 = n /\ ~(o < o)
      BY <1>0, <2>3
    <3>4. \A q \in Ops : (IF q = o THEN window[q] + 1 ELSE window[q])
                          = IF q \notin Flags(ch) THEN 0 ELSE IF q <= o THEN n ELSE n - 1
      BY <1>0, <2>3, <3>1, <3>3 DEF CalledBefore
    <3> QED BY <3>2, <3>4
  <2>4. CASE NextOp(o) = "m_while" /\ \A p \in Flags(ch) : p <= o
    <3>1. CalledBefore(4)'
      <4>1. \A q \in Flags(ch) : (q <= o) = (q < 4)
        BY <1>0, <2>4
      <4> QED BY <1>0, <2>2, <2>6, <4>1 DEF CalledBefore
    <3> QED BY <1>0, <2>2, <2>4, <3>1 DEF WindowInv
  <2>5. ASSUME NEW p \in Flags(ch), p > o, NextOp(o) = OpPc[p],
               \A q \in Flags(ch) : q > o => p <= q
        PROVE  WindowInv'
    <3>1. CalledBefore(p)'
      <4>1. \A q \in Flags(ch) : (q <= o) = (q < p)
        BY <1>0, <2>5
      <4> QED BY <1>0, <2>2, <2>6, <4>1 DEF CalledBefore
    <3> QED BY <1>0, <2>2, <2>5, <3>1 DEF WindowInv
  <2> QED BY <1>0, <2>4, <2>5, NextOpFacts
<1> QED BY <1>2, <1>3, <1>4, <1>5, <1>6, <1>8, <1>9, <1>10 DEF MainNext, Steps

\* The invariant is kept by every step.
LEMMA MainStep == MainInv /\ [MainNext]_mainvars => MainInv'
<1> SUFFICES ASSUME MainInv, [MainNext]_mainvars PROVE MainInv'
  OBVIOUS
<1>1. CASE MainNext
  BY <1>1, TypeStep, CommandStep, WindowStep DEF MainInv
<1>2. CASE UNCHANGED mainvars
  BY <1>2 DEF MainInv, MainTypeOK, CommandInv, WindowInv, CalledBefore, mainvars, rng, host
<1> QED BY <1>1, <1>2

\* Between the pulse and "[END]" there is what the averages are taken of.
LEMMA MainWindowClean == MainInv => WindowClean
BY FlagsOps DEF MainInv, WindowInv, CalledBefore, WindowClean, Ops, Kg, Enc, Dec

(***************************************************************************)
(* The console                                                             *)
(***************************************************************************)

\* BenchConsole's variables, as BenchMain maps them.
ConsoleReady == init_alg \/ (pc \notin {"boot", "input", "getc"} /\ (IsMeasure(ch) \/ IsTest(ch)))

LEMMA ConsoleInitially == MainInit => Console!Init
BY DEF MainInit, Console!Init, Console!Start, Todo

\* The commands mean the same there.
LEMMA ConsoleCommands ==
  ASSUME NEW c, NEW init
  PROVE  /\ Console!IsMeasure(c) = IsMeasure(c)
         /\ Console!IsTest(c) = IsTest(c)
         /\ Console!IsDigit(c) = IsDigit(c)
         /\ Console!NeedsTest(c, init) = NeedsTest(c, init)
<1>1. Console!Kg = Kg /\ Console!Enc = Enc /\ Console!Dec = Dec /\ Console!Ops = Ops
  BY DEF Console!Kg, Kg, Console!Enc, Enc, Console!Dec, Dec, Console!Ops, Ops
<1>2. Console!Flags(c) = Flags(c)
  BY <1>1 DEF Console!Flags, Flags
<1> QED BY <1>1, <1>2 DEF Console!IsMeasure, IsMeasure, Console!IsTest, IsTest,
           Console!IsDigit, IsDigit, Console!DigitSeq, DigitSeq, Console!NeedsTest, NeedsTest

\* Every step of the firmware is a step of the console it promises, or none.
LEMMA ConsoleStep == MainInv /\ [MainNext]_mainvars => [Console!Next]_(Console!vars)
<1> SUFFICES ASSUME MainInv, [MainNext]_mainvars PROVE [Console!Next]_(Console!vars)
  OBVIOUS
<1> USE DEF Goto, PrintLine, rng, host
<1> DEFINE Lines == {"RESET", "INPUT", "RANDOM", "DONE", "ZZZ", "END", "TEST", "START", "ROWS", "FAIL"}
<1>0. CommandInv
  BY DEF MainInv
<1>1. ASSUME rx' = rx, ConsoleReady' = ConsoleReady, Todo' = Tail(Todo),
             Head(Todo) \in Lines \cup {"VERDICT", "D7"}
      PROVE  Console!Next
  BY <1>1 DEF Console!Next, Console!Device, Console!SendLine, Console!Pass, Console!Pulse,
    Console!Silent, ConsoleReady
<1>2. CASE Boot
  BY <1>1, <1>2 DEF Boot, Todo, ConsoleReady
<1>3. CASE Input
  BY <1>1, <1>3 DEF Input, Todo, ConsoleReady
<1>4. CASE SetSeed \/ Done \/ ZzzStart \/ ZzzPulse \/ ZzzEnd
  BY <1>0, <1>1, <1>4 DEF SetSeed, Done, ZzzStart, ZzzPulse, ZzzEnd, Todo, ConsoleReady, CommandInv
<1>5. CASE Getc
  <2>1. /\ rx # NoByte /\ rx' = NoByte /\ pc = "getc" /\ pc' = Entry(rx) /\ ch' = rx
        /\ init_alg' = init_alg
    BY <1>5 DEF Getc
  <2>2. ConsoleReady' = (ConsoleReady \/ IsMeasure(rx) \/ IsTest(rx))
    BY <2>1 DEF ConsoleReady, Entry
  <2>3. Todo = <<"GETC">> /\ Todo' = Console!Work(rx, ConsoleReady)
    <3>1. Todo = <<"GETC">>
      BY <2>1 DEF Todo
    <3>2. NeedsTest(rx, ConsoleReady) <=> NeedsTest(rx, init_alg)
      BY <2>1 DEF NeedsTest, ConsoleReady
    <3>3. CASE IsMeasure(rx) /\ NeedsTest(rx, init_alg)
      BY <2>1, <3>2, <3>3, ConsoleCommands DEF Entry, Todo, Console!Work
    <3>4. CASE IsMeasure(rx) /\ ~NeedsTest(rx, init_alg)
      BY <2>1, <3>2, <3>4, ConsoleCommands DEF Entry, Todo, Console!Work
    <3>5. CASE ~IsMeasure(rx) /\ IsTest(rx)
      BY <2>1, <3>5, ConsoleCommands DEF Entry, Todo, Console!Work
    <3>6. CASE ~IsMeasure(rx) /\ ~IsTest(rx)
      BY <2>1, <3>6, ConsoleCommands DEF Entry, Todo, Console!Work
    <3> QED BY <3>1, <3>3, <3>4, <3>5, <3>6
  <2> QED BY <2>1, <2>2, <2>3, ConsoleCommands
          DEF Console!Next, Console!Device, Console!Getc, ConsoleReady
<1>6. CASE TestStart \/ TestEnd
  BY <1>0, <1>1, <1>6 DEF TestStart, TestEnd, Todo, Verdict, ConsoleReady, CommandInv, TestPcs
\* A test goes on: nothing goes out, or the report of a failure.
<1>7. CASE TestNote \/ TestTime \/ TestStep
  <2>1. /\ Todo = Verdict("VERDICT") /\ rx' = rx /\ ConsoleReady' = ConsoleReady
        /\ Todo' \in {Todo, Verdict("FAIL")}
    BY <1>0, <1>7 DEF TestNote, TestTime, TestStep, CallPcs, TestPcs, Todo, Verdict,
      ConsoleReady, CommandInv
  <2>2. Head(Todo) = "VERDICT" /\ Verdict("FAIL") = [Todo EXCEPT ![1] = "FAIL"]
    BY <2>1 DEF Verdict
  <2>3. CASE Todo' = Todo
    BY <2>1, <2>3 DEF Console!vars, ConsoleReady
  <2>4. CASE Todo' = Verdict("FAIL")
    BY <2>1, <2>2, <2>4 DEF Console!Next, Console!Device, Console!Note, ConsoleReady
  <2> QED BY <2>1, <2>3, <2>4
<1>8. CASE MeasureStart \/ MeasureEnd
  BY <1>0, <1>1, <1>8 DEF MeasureStart, MeasureEnd, Todo, ConsoleReady, CommandInv, MeasurePcs
<1>14. CASE MeasureRows
  <2>1. ConsoleReady' = ConsoleReady
    BY <1>0, <1>14 DEF MeasureRows, ConsoleReady, CommandInv, MeasurePcs
  <2> QED BY <1>1, <1>14, <2>1 DEF MeasureRows, Todo
<1>9. \A o \in 0..3 : NextOp(o) \in {"m_kg", "m_enc", "m_dec", "m_while"}
  BY NextOpFacts, FlagsOps DEF OpPc
<1>10. CASE MeasurePulse
  BY <1>0, <1>1, <1>9, <1>10 DEF MeasurePulse, Todo, ConsoleReady, CommandInv, MeasurePcs
<1>11. CASE MeasureWhile \/ TimedStep
  <2>1. /\ pc \in {"m_kg", "m_enc", "m_dec", "m_while"}
        /\ pc' \in {"m_kg", "m_enc", "m_dec", "m_while", "m_end"}
        /\ UNCHANGED <<ch, init_alg, rx>>
    BY <1>9, <1>11 DEF MeasureWhile, TimedStep, Timed, OpPc, Ops, Kg, Enc, Dec
  <2> QED BY <2>1 DEF Console!vars, Todo
<1>12. CASE \E b \in Bytes : Receive(b)
  BY <1>12 DEF Receive, Console!Next, Console!Receive, Todo, Verdict
<1>13. CASE UNCHANGED mainvars
  BY <1>13 DEF mainvars, Console!vars, Todo, Verdict
<1> QED BY <1>2, <1>3, <1>4, <1>5, <1>6, <1>7, <1>8, <1>10, <1>11, <1>12, <1>13,
        <1>14 DEF MainNext, Steps

=============================================================================
