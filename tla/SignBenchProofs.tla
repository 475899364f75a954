-------------------------- MODULE SignBenchProofs --------------------------
(***************************************************************************)
(* The safety properties of the signature firmware for every sequence of   *)
(* bytes, every number of passes and every way in which the algorithm may  *)
(* fail, laid out as in KemBenchProofs.                                    *)
(***************************************************************************)
EXTENDS SignBench, BenchMainProofs

(***************************************************************************)
(* The inductive invariant                                                 *)
(***************************************************************************)

\* Key generation has been called at least once.
Touched == init_alg \/ pc \in {"t_enc", "t_long", "t_dec", "t_corrupt", "t_bad", "t_note",
                               "t_time", "t_end", "m_enc", "m_dec", "m_while", "m_end", "m_rows"}

\* What a failed key generation leaves.
NoPair == "keypair" \in Faults /\ pk = Junk /\ sk = Junk

\* From then on the key buffers hold a keypair, or that; between the
\* patterns and the call of the test, neither.
PairInv == Touched /\ pc # "t_kg" => HavePair \/ NoPair

\* A signature that nothing was done to since is good.
SignedInv == signed => Valid \/ NoPair

\* The pass of a test so far: what was called has worked.
TestInv ==
  /\ pc = "t_start" => ~faulty
  /\ pc = "t_seed" => r = 0 /\ ~faulty
  /\ pc = "t_kg"   => r = 0 /\ ~faulty /\ ~wrong
  /\ pc = "t_enc"  => r = 0 /\ ~faulty /\ ~wrong /\ HavePair
  /\ pc \in {"t_long", "t_dec", "t_corrupt"} =>
       r = 0 /\ ~faulty /\ ~wrong /\ HavePair /\ sm.key = pk /\ sm.intact
  /\ pc \in {"t_bad", "t_time"} =>
       r = 0 /\ ~faulty /\ ~wrong /\ HavePair /\ sm.key = pk /\ ~sm.intact
  /\ pc = "t_note" => faulty \/ wrong

IInv == /\ TypeOK /\ MainInv /\ PairInv /\ SignedInv /\ TestInv
        /\ VerdictRight /\ MessageFresh

(***************************************************************************)
(* Contents of buffers                                                     *)
(***************************************************************************)

\* Only a keypair looks like one.
LEMMA Contents == ~IsMade(Junk) /\ IsMade(Fresh)
BY DEF IsMade, Junk, Fresh

KeyValue == Patterns \cup (Int \X Nat)
MessageValue == Patterns \cup {<<"pass", p>> : p \in 1..MaxPass}

LEMMA Values ==
  /\ Junk \in Patterns /\ Zero \in Patterns
  /\ {Fill("0x11"), Fill("0x22"), Fill("0x33"), Fill("0x44")} \subseteq Patterns
  /\ MainTypeOK => Fresh \in Int \X Nat
BY DEF Patterns, Fresh, MainTypeOK

\* The fields of a signature.
LEMMA SignatureFields ==
  ASSUME NEW key, NEW msg
  PROVE  /\ Signature(key, msg).key = key /\ Signature(key, msg).msg = msg
         /\ Signature(key, msg).intact = TRUE
BY DEF Signature

\* What crypto_sign() returns and makes.
LEMMA SignResult ==
  ASSUME NEW ret, NEW x, NEW long, Sign(ret, x, long)
  PROVE  /\ ret \in {0, 1} /\ long \in BOOLEAN
         /\ (ret = 0 /\ x = Signature(sk, m)) \/ (ret = 1 /\ x = NoSignature(Junk))
<1>1. ret = 0 \/ ret = 1
  BY Zenon DEF Sign
<1>2. ("long" \in Faults) \in BOOLEAN
  OBVIOUS
<1>3. long = FALSE \/ long = ("long" \in Faults)
  BY Zenon DEF Sign
<1>4. (ret = 0 /\ x = Signature(sk, m)) \/ (ret = 1 /\ x = NoSignature(Junk))
  BY Zenon DEF Sign
<1> QED BY <1>1, <1>2, <1>3, <1>4

(***************************************************************************)
(* Steps of the firmware that touch no buffer, and the writing of messages *)
(***************************************************************************)

CallingPcs == {"t_kg", "t_enc", "t_long", "t_dec", "t_corrupt", "t_bad"}

\* They neither begin nor go on with the calls of a test, and leave it open
\* whether there has been a key generation.
LEMMA QuietPlace ==
  MainInv /\ (Quiet \/ Pass \/ LastPass) =>
    pc \notin CallingPcs /\ pc' \in MainPcs /\ (Touched' => Touched)
<1> SUFFICES ASSUME MainInv, Quiet \/ Pass \/ LastPass
             PROVE  pc \notin CallingPcs /\ pc' \in MainPcs /\ (Touched' => Touched)
  OBVIOUS
<1> USE DEF Goto, PrintLine, rng, host, CallingPcs, MainPcs, Touched
<1>0. CommandInv
  BY DEF MainInv
<1>1. CASE Boot \/ Input \/ SetSeed \/ Done \/ ZzzStart \/ ZzzPulse \/ ZzzEnd \/ TestStart
           \/ TestNote \/ TestTime \/ MeasureStart \/ MeasureEnd
  BY <1>1 DEF Boot, Input, SetSeed, Done, ZzzStart, ZzzPulse, ZzzEnd, TestStart,
    TestNote, TestTime, MeasureStart, MeasureEnd
<1>2. CASE Getc
  BY <1>2, EntryFacts DEF Getc
<1>3. CASE TestEnd \/ MeasureRows
  BY <1>3 DEF TestEnd, MeasureRows
<1>4. NextOp(0) \in {"m_kg", "m_enc", "m_dec", "m_while"}
  BY NextOpFacts, FlagsOps DEF OpPc
<1>5. CASE MeasurePulse
  <2>1. CASE Kg \in Flags(ch)
    <3>1. NextOp(0) = "m_kg"
      BY <2>1, NextOpFacts, FlagsOps DEF OpPc, Kg
    <3> QED BY <1>5, <3>1 DEF MeasurePulse
  <2>2. CASE Kg \notin Flags(ch)
    <3>1. init_alg
      BY <1>0, <1>5, <2>2 DEF MeasurePulse, CommandInv, MeasurePcs
    <3> QED BY <1>4, <1>5, <3>1 DEF MeasurePulse
  <2> QED BY <2>1, <2>2
<1>6. CASE MeasureWhile
  BY <1>4, <1>6 DEF MeasureWhile
<1> QED BY <1>1, <1>2, <1>3, <1>5, <1>6 DEF Steps, Quiet, Pass, LastPass

(***************************************************************************)
(* Steps of this module are steps of BenchMain                             *)
(***************************************************************************)

LEMMA Simulation == IInv /\ [Next]_vars => [MainNext]_mainvars
<1> SUFFICES ASSUME IInv, [Next]_vars PROVE [MainNext]_mainvars
  OBVIOUS
<1> USE DEF Goto, PrintLine, rng, host
<1>0. MainTypeOK /\ TestInv
  BY DEF IInv, MainInv
<1>12. Count(Kg) \/ Count(Enc) \/ Count(Dec) => window' \in [Ops -> Nat]
  BY <1>0, CountTyped
<1>1. CASE Quiet \/ Pass \/ LastPass \/ \E b \in Bytes : Receive(b) /\ UNCHANGED signvars
  BY <1>1 DEF Quiet, Pass, LastPass, MainNext
<1>2. CASE TestSeed
  BY <1>0, <1>2 DEF TestSeed, MainNext, TestStep, MainTypeOK, CallPcs, TestPcs
<1>3. CASE TestKeypair
  BY <1>0, <1>3, <1>12 DEF TestKeypair, CallKeypair, Keypair, Tested, MainNext, TestStep, MainTypeOK,
    CallPcs, TestPcs
<1>4. CASE TestSign
  <2>1. r' \in {0, 1} /\ toolong' \in BOOLEAN
    BY <1>4, SignResult DEF TestSign, CallSign
  <2> QED BY <1>0, <1>4, <1>12, <2>1 DEF TestSign, CallSign, Tested, MainNext, TestStep,
             MainTypeOK, CallPcs, TestPcs
<1>5. CASE TestOpen
  BY <1>0, <1>5, <1>12 DEF TestOpen, CallOpen, Open, Tested, MainNext, TestStep, MainTypeOK,
    CallPcs, TestPcs
<1>6. CASE TestLong \/ TestCorrupt
  BY <1>0, <1>6 DEF TestLong, TestCorrupt, MainNext, TestStep, MainTypeOK, CallPcs, TestPcs
<1>7. CASE TestBad
  BY <1>0, <1>7, <1>12 DEF TestBad, CallOpen, MainNext, TestStep, MainTypeOK, CallPcs, TestPcs
<1>8. CASE TimedKeypair
  BY <1>0, <1>8 DEF TimedKeypair, CallKeypair, MainNext, TimedStep, MainTypeOK, Ops
<1>9. CASE TimedSign
  BY <1>0, <1>9 DEF TimedSign, CallSign, MainNext, TimedStep, MainTypeOK, Ops
<1>10. CASE TimedOpen
  BY <1>0, <1>10 DEF TimedOpen, CallOpen, MainNext, TimedStep, MainTypeOK, Ops
<1>11. CASE UNCHANGED vars
  BY <1>11 DEF vars
<1> QED BY <1>1, <1>2, <1>3, <1>4, <1>5, <1>6, <1>7, <1>8, <1>9, <1>10, <1>11
        DEF Next, Device, Calls

(***************************************************************************)
(* The invariant is inductive                                              *)
(***************************************************************************)

LEMMA Initially == Init => IInv
<1> SUFFICES ASSUME Init PROVE IInv
  OBVIOUS
<1>1. MainInv
  BY MainInitially DEF Init
<1>2. pc = "boot" /\ init_alg = FALSE
  BY DEF Init, MainInit
<1>3. TypeOK
  <2>1. sm.key = Zero /\ sm.msg = Zero /\ sm.intact = TRUE
    BY SignatureFields DEF Init, NoSignature
  <2>2. {toolong, signed, wrong, sm.intact} \subseteq BOOLEAN
    BY <2>1 DEF Init
  <2>3. pc \in MainPcs
    BY <1>2 DEF MainPcs
  <2> QED BY <1>1, <2>1, <2>2, <2>3, Values DEF Init, TypeOK, MainInv
<1>4. PairInv /\ SignedInv /\ TestInv /\ VerdictRight /\ MessageFresh
  BY <1>2 DEF Init, PairInv, SignedInv, Touched, TestInv, VerdictRight, MessageFresh
<1> QED BY <1>1, <1>3, <1>4 DEF IInv

LEMMA PairsAreKept == IInv /\ Next => PairInv'
<1> SUFFICES ASSUME IInv, Next PROVE PairInv'
  OBVIOUS
<1> USE DEF Goto, PrintLine, rng, host, signvars, NoPair
<1>0. MainInv /\ PairInv /\ TestInv
  BY DEF IInv
<1>1. ASSUME UNCHANGED <<pk, sk>>, Touched' => Touched, pc # "t_kg"
      PROVE  PairInv'
  BY <1>0, <1>1 DEF PairInv, HavePair
<1>2. CASE Quiet \/ Pass \/ LastPass
  BY <1>0, <1>1, <1>2, QuietPlace DEF Quiet, Pass, LastPass, CallingPcs
<1>3. CASE TestSeed
  BY <1>3 DEF TestSeed, PairInv
<1>4. ASSUME NEW ret, Keypair(ret, pk', sk') PROVE PairInv'
  BY <1>4, Contents DEF Keypair, PairInv, HavePair
<1>5. CASE TestKeypair \/ TimedKeypair
  BY <1>4, <1>5 DEF TestKeypair, TimedKeypair, CallKeypair
<1>6. CASE TestSign \/ TestLong \/ TestOpen \/ TestCorrupt \/ TestBad
  BY <1>1, <1>6 DEF TestSign, TestLong, TestOpen, TestCorrupt, TestBad, CallSign, CallOpen,
    Tested, Touched
<1>7. CASE TimedSign \/ TimedOpen
  BY <1>1, <1>7 DEF TimedSign, TimedOpen, Timed, CallSign, CallOpen, Touched, OpPc, Enc, Dec
<1>8. CASE \E b \in Bytes : Receive(b) /\ UNCHANGED signvars
  BY <1>0, <1>8 DEF Receive, PairInv, HavePair, Touched
<1> QED BY <1>2, <1>3, <1>5, <1>6, <1>7, <1>8 DEF Next, Device, Calls

LEMMA SignaturesAreKept == IInv /\ Next => SignedInv'
<1> SUFFICES ASSUME IInv, Next PROVE SignedInv'
  OBVIOUS
<1> USE DEF rng, host, signvars, NoPair
<1>0. PairInv /\ SignedInv
  BY DEF IInv
<1>1. ASSUME UNCHANGED <<pk, sk, sm, signed>> PROVE SignedInv'
  BY <1>0, <1>1 DEF SignedInv, Valid
<1>2. CASE Quiet \/ Pass \/ LastPass \/ TestLong \/ TestOpen \/ TestBad \/ TimedOpen
           \/ \E b \in Bytes : Receive(b) /\ UNCHANGED signvars
  BY <1>1, <1>2 DEF Quiet, Pass, LastPass, TestLong, TestOpen, TestBad, TimedOpen, CallOpen
<1>3. CASE TestSeed \/ TestKeypair \/ TimedKeypair \/ TestCorrupt
  BY <1>3 DEF TestSeed, TestKeypair, TimedKeypair, CallKeypair, TestCorrupt, SignedInv
<1>4. ASSUME NEW ret, CallSign(ret), Touched, pc # "t_kg" PROVE SignedInv'
  <2>1. CASE ret = 0
    <3>1. sm'.key = sk /\ sm'.intact = TRUE /\ UNCHANGED <<pk, sk>>
      <4>1. sm' = Signature(sk, m) /\ UNCHANGED <<pk, sk>>
        BY <1>4, <2>1, SignResult DEF CallSign
      <4> QED BY <4>1, SignatureFields
    <3> QED BY <1>0, <1>4, <3>1 DEF PairInv, HavePair, SignedInv, Valid
  <2>2. CASE ret # 0
    BY <1>4, <2>2 DEF CallSign, SignedInv
  <2> QED BY <2>1, <2>2
<1>5. CASE TestSign \/ TimedSign
  BY <1>4, <1>5 DEF TestSign, TimedSign, Tested, Timed, Goto, Touched, OpPc, Enc
<1> QED BY <1>2, <1>3, <1>5 DEF Next, Device, Calls

LEMMA TypeIsKept == IInv /\ MainTypeOK' /\ Next => TypeOK'
<1> SUFFICES ASSUME IInv, MainTypeOK', Next PROVE TypeOK'
  OBVIOUS
<1> USE DEF Goto, PrintLine, rng, host, MainPcs, signvars
<1> DEFINE Buffers == /\ {pk, sk, sm.key} \subseteq KeyValue /\ {m, sm.msg} \subseteq MessageValue
                      /\ {toolong, signed, wrong, sm.intact} \subseteq BOOLEAN
<1> DEFINE Places == MainPcs \cup CallingPcs
<1>0. TypeOK /\ MainTypeOK /\ MainInv /\ Buffers
  BY DEF IInv, MainInv, TypeOK, KeyValue, MessageValue
<1>1. ASSUME pc' \in Places, Buffers' PROVE TypeOK'
  BY <1>1 DEF TypeOK, KeyValue, MessageValue, CallingPcs
<1>2. /\ Junk \in KeyValue /\ Fresh \in KeyValue /\ Junk \in MessageValue
      /\ {Fill("0x11"), Fill("0x22"), Fill("0x33"), Fill("0x44")} \subseteq KeyValue
      /\ {Fill("0x11"), Fill("0x22"), Fill("0x33"), Fill("0x44")} \subseteq MessageValue
  BY <1>0, Values DEF KeyValue, MessageValue
<1>3. CASE Quiet \/ LastPass
  BY <1>0, <1>1, <1>3, QuietPlace DEF Quiet, LastPass
<1>4. CASE Pass
  <2>1. n' \in 1..MaxPass
    BY <1>0, <1>4, MainAssumption DEF Pass, MeasurePulse, MeasureWhile, MainTypeOK
  <2>2. m' \in MessageValue
    BY <1>4, <2>1 DEF Pass, MessageValue
  <2> QED BY <1>0, <1>1, <1>4, <2>2, QuietPlace DEF Pass
<1>5. CASE TestSeed
  <2>1. sm'.key = Fill("0x44") /\ sm'.msg = Fill("0x44") /\ sm'.intact = TRUE
    BY <1>5, SignatureFields DEF TestSeed, NoSignature
  <2>2. {toolong', signed', wrong', sm'.intact} \subseteq BOOLEAN
    BY <1>0, <1>5, <2>1 DEF TestSeed
  <2> QED BY <1>0, <1>1, <1>2, <1>5, <2>1, <2>2 DEF TestSeed, CallingPcs
<1>6. ASSUME NEW ret, CallKeypair(ret) PROVE Buffers'
  BY <1>0, <1>2, <1>6 DEF CallKeypair, Keypair
<1>7. ASSUME NEW ret, CallSign(ret) PROVE Buffers'
  <2>1. sm' = Signature(sk, m) \/ sm' = Signature(Junk, Junk)
    BY <1>7, SignResult DEF CallSign, NoSignature
  <2>2. sm'.key \in {sk, Junk} /\ sm'.msg \in {m, Junk} /\ sm'.intact = TRUE
    <3>1. CASE sm' = Signature(sk, m)
      BY <3>1, SignatureFields
    <3>2. CASE sm' = Signature(Junk, Junk)
      BY <3>2, SignatureFields
    <3> QED BY <2>1, <3>1, <3>2
  <2>3. toolong' \in BOOLEAN /\ (ret = 0) \in BOOLEAN
    BY <1>7, SignResult DEF CallSign
  <2> QED BY <1>0, <1>2, <1>7, <2>2, <2>3 DEF CallSign
<1>8. ASSUME NEW ret, CallOpen(ret) PROVE Buffers'
  <2>1. m' \in {m, Junk, sm.msg}
    BY <1>8 DEF CallOpen, Open
  <2>2. wrong' \in BOOLEAN
    <3>1. wrong' = (wrong \/ (~Valid /\ ret = 0))
      BY <1>8 DEF CallOpen
    <3>2. (wrong \/ (~Valid /\ ret = 0)) \in BOOLEAN
      OBVIOUS
    <3> QED BY <3>1, <3>2
  <2> QED BY <1>0, <1>2, <1>8, <2>1, <2>2 DEF CallOpen
<1>9. CASE TestKeypair \/ TestSign \/ TestOpen
  BY <1>1, <1>6, <1>7, <1>8, <1>9 DEF TestKeypair, TestSign, TestOpen, Tested, CallingPcs
<1>10. CASE TestLong
  BY <1>0, <1>1, <1>10 DEF TestLong, CallingPcs
<1>11. CASE TestCorrupt
  <2>1. sm'.key \in {sm.key} /\ sm'.msg = sm.msg /\ sm'.intact \in BOOLEAN
    BY <1>11 DEF TestCorrupt
  <2> QED BY <1>0, <1>1, <1>11, <2>1 DEF TestCorrupt, CallingPcs
<1>12. CASE TestBad
  BY <1>1, <1>8, <1>12 DEF TestBad, CallingPcs
<1>13. \A o \in Ops : NextOp(o) \in MainPcs
  BY NextOpFacts, FlagsOps DEF OpPc, Ops, Kg, Enc, Dec
<1>14. CASE TimedKeypair \/ TimedSign \/ TimedOpen
  BY <1>1, <1>6, <1>7, <1>8, <1>13, <1>14 DEF TimedKeypair, TimedSign, TimedOpen, Timed, Ops
<1>15. CASE \E b \in Bytes : Receive(b) /\ UNCHANGED signvars
  BY <1>0, <1>1, <1>15 DEF Receive, TypeOK, CallingPcs
<1> QED BY <1>3, <1>4, <1>5, <1>9, <1>10, <1>11, <1>12, <1>14, <1>15 DEF Next, Device, Calls

LEMMA MessagesAreKept == IInv /\ Next => MessageFresh'
<1> SUFFICES ASSUME IInv, Next PROVE MessageFresh'
  OBVIOUS
<1> USE DEF Goto, PrintLine, rng, host, signvars, MessageFresh
<1>0. MainInv /\ MessageFresh
  BY DEF IInv
<1>1. CASE Pass
  BY <1>1 DEF Pass
<1>2. CASE Quiet
  BY <1>0, <1>2, EntryFacts DEF Quiet, Steps, Boot, Input, Getc, SetSeed, Done, ZzzStart,
    ZzzPulse, ZzzEnd, TestStart, TestNote, TestTime, TestEnd, MeasureStart, MeasureEnd, MeasureRows
<1>3. CASE LastPass
  BY <1>3 DEF LastPass
<1>4. CASE TestSeed \/ TestKeypair \/ TestSign \/ TestLong \/ TestOpen \/ TestCorrupt \/ TestBad
  BY <1>4 DEF TestSeed, TestKeypair, TestSign, TestLong, TestOpen, TestCorrupt, TestBad, Tested
<1>5. CASE TimedKeypair
  BY <1>0, <1>5 DEF TimedKeypair, Timed, CallKeypair, OpPc, Kg
<1>6. CASE TimedSign \/ TimedOpen
  <2>1. NextOp(Enc) \in {"m_dec", "m_while"} /\ NextOp(Dec) = "m_while"
    BY NextOpFacts, FlagsOps DEF OpPc, Enc, Dec
  <2> QED BY <1>6, <2>1 DEF TimedSign, TimedOpen, Timed
<1>7. CASE \E b \in Bytes : Receive(b) /\ UNCHANGED signvars
  BY <1>0, <1>7 DEF Receive
<1> QED BY <1>1, <1>2, <1>3, <1>4, <1>5, <1>6, <1>7 DEF Next, Device, Calls

LEMMA TestsAreKept == IInv /\ Next => TestInv' /\ VerdictRight'
<1> SUFFICES ASSUME IInv, Next PROVE TestInv' /\ VerdictRight'
  OBVIOUS
<1> USE DEF Goto, PrintLine, rng, host, signvars
<1> DEFINE Calling == {"t_start", "t_seed", "t_kg", "t_enc", "t_long", "t_dec", "t_corrupt",
                       "t_bad", "t_time", "t_note", "t_end"}
<1>0. TypeOK /\ MainTypeOK /\ MainInv /\ CommandInv /\ TestInv /\ VerdictRight
  BY DEF IInv, MainInv
<1>1. ASSUME pc' \notin Calling PROVE TestInv' /\ VerdictRight'
  BY <1>1 DEF TestInv, VerdictRight
<1>2. CASE Quiet
  <2> USE DEF Quiet
  <2>1. CASE Boot \/ Input \/ SetSeed \/ Done \/ ZzzStart \/ ZzzPulse \/ ZzzEnd \/ TestEnd
             \/ MeasureStart \/ MeasureEnd \/ MeasureRows
    BY <1>1, <2>1 DEF Boot, Input, SetSeed, Done, ZzzStart, ZzzPulse, ZzzEnd, TestEnd,
      MeasureStart, MeasureEnd, MeasureRows
  <2>2. CASE Getc
    BY <2>2, EntryFacts DEF Getc, TestInv, VerdictRight
  <2>3. CASE TestStart
    BY <1>0, <2>3 DEF TestStart, TestInv, VerdictRight
  <2>4. CASE TestNote
    BY <1>0, <1>2, <2>4 DEF TestNote, TestInv, VerdictRight, CommandInv
  <2>5. CASE TestTime
    <3>1. /\ r = 0 /\ ~faulty /\ ~wrong /\ HavePair /\ sm.key = pk /\ ~sm.intact
          /\ UNCHANGED <<r, faulty, signvars>>
      BY <1>0, <1>2, <2>5 DEF TestTime, TestInv
    <3>2. CASE pc' = "t_seed"
      BY <3>1, <3>2 DEF TestInv, VerdictRight
    <3>3. CASE pc' = "t_end"
      BY <3>1, <3>3 DEF TestInv, VerdictRight, HavePair
    <3> QED BY <2>5, <3>2, <3>3 DEF TestTime
  <2> QED BY <1>2, <2>1, <2>2, <2>3, <2>4, <2>5 DEF Steps
<1>3. CASE Pass \/ LastPass
  <2>1. NextOp(0) \in {"m_kg", "m_enc", "m_dec", "m_while"}
    BY NextOpFacts, FlagsOps DEF OpPc
  <2> QED BY <1>1, <1>3, <2>1 DEF Pass, LastPass, MeasurePulse, MeasureWhile
<1>4. CASE TestSeed
  BY <1>0, <1>4 DEF TestSeed, TestInv, VerdictRight
<1>5. CASE TestKeypair
  <2>1. /\ pc = "t_kg" /\ ~faulty /\ ~wrong /\ Keypair(r', pk', sk')
        /\ faulty' = (faulty \/ r' # 0) /\ wrong' = wrong
        /\ pc' = IF r' # 0 THEN "t_note" ELSE "t_enc"
    BY <1>0, <1>5 DEF TestKeypair, CallKeypair, Tested, TestInv
  <2>2. CASE r' = 0
    <3>1. HavePair'
      BY <2>1, <2>2, Contents DEF Keypair, HavePair
    <3> QED BY <2>1, <2>2, <3>1 DEF TestInv, VerdictRight
  <2>3. CASE r' # 0
    BY <2>1, <2>3 DEF TestInv, VerdictRight
  <2> QED BY <2>2, <2>3
<1>6. CASE TestSign
  <2>1. /\ pc = "t_enc" /\ ~faulty /\ ~wrong /\ HavePair /\ UNCHANGED <<pk, sk, wrong>>
        /\ Sign(r', sm', toolong')
        /\ faulty' = (faulty \/ r' # 0)
    BY <1>0, <1>6 DEF TestSign, CallSign, Tested, TestInv
  <2>4. r' = 0 => pc' \in {"t_long", "t_dec"}
    BY <1>6 DEF TestSign, Tested
  <2>5. r' # 0 => pc' = "t_note"
    BY <1>6 DEF TestSign, Tested
  <2>2. CASE r' = 0
    <3>1. sm' = Signature(sk, m)
      BY <2>1, <2>2, SignResult
    <3>2. sm'.key = sk /\ sm'.intact = TRUE
      BY <3>1, SignatureFields
    <3>3. HavePair'
      BY <2>1 DEF HavePair
    <3>4. sm'.key = pk'
      BY <2>1, <3>2 DEF HavePair
    <3>5. ~faulty'
      BY <2>1, <2>2
    <3> QED BY <2>1, <2>2, <2>4, <3>2, <3>3, <3>4, <3>5 DEF TestInv, VerdictRight
  <2>3. CASE r' # 0
    BY <2>1, <2>3, <2>5 DEF TestInv, VerdictRight
  <2> QED BY <2>2, <2>3
<1>7. CASE TestLong
  BY <1>0, <1>7 DEF TestLong, TestInv, VerdictRight, HavePair
<1>8. CASE TestOpen
  <2>1. /\ pc = "t_dec" /\ ~faulty /\ ~wrong /\ HavePair /\ sm.key = pk /\ sm.intact
        /\ UNCHANGED <<pk, sk, sm>>
        /\ Valid
        /\ faulty' = (faulty \/ (Valid /\ r' # 0))
        /\ wrong' = (wrong \/ (~Valid /\ r' = 0))
        /\ pc' = IF r' # 0 THEN "t_note" ELSE "t_corrupt"
    BY <1>0, <1>8 DEF TestOpen, CallOpen, Tested, TestInv, Valid, HavePair
  <2>2. HavePair'
    BY <2>1 DEF HavePair
  <2>3. CASE r' = 0
    BY <2>1, <2>2, <2>3 DEF TestInv, VerdictRight
  <2>4. CASE r' # 0
    BY <2>1, <2>4 DEF TestInv, VerdictRight
  <2> QED BY <2>3, <2>4
<1>9. CASE TestCorrupt
  <2>1. /\ pc = "t_corrupt" /\ pc' = "t_bad" /\ r = 0 /\ ~faulty /\ ~wrong /\ HavePair
        /\ sm.key = pk /\ UNCHANGED <<pk, sk, r, faulty, wrong>>
    BY <1>0, <1>9 DEF TestCorrupt, TestInv
  <2>2. sm'.key = sm.key /\ ~sm'.intact
    BY <1>9 DEF TestCorrupt
  <2>3. HavePair'
    BY <2>1 DEF HavePair
  <2> QED BY <2>1, <2>2, <2>3 DEF TestInv, VerdictRight
<1>10. CASE TestBad
  <2>1. PICK ret \in {0, 1} :
          /\ CallOpen(ret)
          /\ IF ret = 0 THEN r' = -1 /\ Goto("t_bad", "t_note")
                        ELSE r' = 0  /\ Goto("t_bad", "t_time")
    BY <1>10 DEF TestBad
  <2>2. /\ ~faulty /\ ~wrong /\ HavePair /\ sm.key = pk /\ ~sm.intact
        /\ UNCHANGED <<pk, sk, sm>> /\ ~Valid
        /\ faulty' = (faulty \/ (Valid /\ ret # 0))
        /\ wrong' = (wrong \/ (~Valid /\ ret = 0))
    BY <1>0, <2>1 DEF CallOpen, TestInv, Valid
  <2>3. HavePair'
    BY <2>2 DEF HavePair
  <2>4. CASE ret = 0
    BY <2>1, <2>2, <2>4 DEF TestInv, VerdictRight
  <2>5. CASE ret = 1
    BY <2>1, <2>2, <2>3, <2>5 DEF TestInv, VerdictRight
  <2> QED BY <2>4, <2>5
<1>11. CASE TimedKeypair \/ TimedSign \/ TimedOpen
  <2>1. \A o \in Ops : NextOp(o) \in {"m_kg", "m_enc", "m_dec", "m_while"}
    BY NextOpFacts, FlagsOps DEF OpPc, Ops, Kg, Enc, Dec
  <2> QED BY <1>1, <1>11, <2>1 DEF TimedKeypair, TimedSign, TimedOpen, Timed, Ops
<1>12. CASE \E b \in Bytes : Receive(b) /\ UNCHANGED signvars
  BY <1>0, <1>12 DEF Receive, TestInv, VerdictRight, HavePair
<1> QED BY <1>2, <1>3, <1>4, <1>5, <1>6, <1>7, <1>8, <1>9, <1>10, <1>11, <1>12
        DEF Next, Device, Calls

LEMMA StutterKeeps == IInv /\ UNCHANGED vars => IInv'
BY DEF IInv, vars, mainvars, signvars, rng, host, TypeOK, MainInv, MainTypeOK, CommandInv,
  WindowInv, CalledBefore, PairInv, NoPair, SignedInv, TestInv, VerdictRight, MessageFresh,
  HavePair, Valid, Touched

\* The invariant holds in every reachable state.
THEOREM Invariance == Spec => []IInv
<1>1. IInv /\ [Next]_vars => IInv'
  <2> SUFFICES ASSUME IInv, [Next]_vars PROVE IInv'
    OBVIOUS
  <2>1. CASE Next
    <3>1. MainInv'
      BY Simulation, MainStep DEF IInv
    <3> QED BY <2>1, <3>1, TypeIsKept, PairsAreKept, SignaturesAreKept, TestsAreKept,
               MessagesAreKept DEF IInv, MainInv
  <2> QED BY <2>1, StutterKeeps
<1> QED BY <1>1, Initially, PTL DEF Spec

(***************************************************************************)
(* The properties                                                          *)
(***************************************************************************)

\* Every variable keeps its type.
THEOREM TypeCorrect == Spec => []TypeOK
<1>1. IInv => TypeOK
  BY DEF IInv
<1> QED BY <1>1, Invariance, PTL

\* What is measured is what the averages are taken of (main.cpp:191-238).
THEOREM WindowIsClean == Spec => []WindowClean
<1>1. IInv => WindowClean
  BY MainWindowClean DEF IInv
<1> QED BY <1>1, Invariance, PTL

\* PASS exactly if nothing has gone wrong (main.cpp:134-180).
THEOREM VerdictsAreRight == Spec => []VerdictRight
<1>1. IInv => VerdictRight
  BY DEF IInv
<1> QED BY <1>1, Invariance, PTL

\* Signing and opening are never timed without a keypair if key generation
\* does not fail, whatever else fails and whatever commands came (main.cpp:191-193).
THEOREM KeypairComesFirst ==
  ASSUME "keypair" \notin Faults
  PROVE  Spec => []KeypairBeforeUse
<1>1. IInv => KeypairBeforeUse
  BY DEF IInv, PairInv, NoPair, Touched, KeypairBeforeUse
<1> QED BY <1>1, Invariance, PTL

\* What "v" after "s" relies on, if key generation does not fail
\* (main.cpp:159-167, 225-230).
THEOREM VerificationsMatch ==
  ASSUME "keypair" \notin Faults
  PROVE  Spec => []VerifyMatched
<1>1. IInv => VerifyMatched
  BY DEF IInv, SignedInv, NoPair, VerifyMatched
<1> QED BY <1>1, Invariance, PTL

\* No two passes of a measurement sign the same message (main.cpp:209).
THEOREM MessagesAreFresh == Spec => []MessageFresh
<1>1. IInv => MessageFresh
  BY DEF IInv
<1> QED BY <1>1, Invariance, PTL

\* The lines and pulses are the ones that BenchConsole promises, in its order.
THEOREM ConsoleIsImplemented == Spec => Console!Init /\ [][Console!Next]_(Console!vars)
<1>1. Init => Console!Init
  BY ConsoleInitially DEF Init
<1>2. IInv /\ [Next]_vars => [Console!Next]_(Console!vars)
  BY Simulation, ConsoleStep DEF IInv
<1> QED BY <1>1, <1>2, Invariance, PTL DEF Spec

=============================================================================
