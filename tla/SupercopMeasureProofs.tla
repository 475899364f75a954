----------------------- MODULE SupercopMeasureProofs -----------------------
(***************************************************************************)
(* Proofs about the measurement programs: for every number of rounds, of   *)
(* timings and of passes, and every limit on the lengths, the buffers are  *)
(* large enough, each block of timed calls finds what its label says, and  *)
(* labels are unique and can be decoded.                                   *)
(***************************************************************************)
EXTENDS SupercopMeasure, TLAPS

\* Division with remainder of natural numbers.
LEMMA DivNat ==
  ASSUME NEW x \in Nat, NEW d \in Nat \ {0}
  PROVE  /\ x \div d \in Nat
         /\ d * (x \div d) <= x
         /\ x < d * (x \div d) + d
         /\ x % d \in 0..(d - 1)
         /\ x = d * (x \div d) + (x % d)
BY SMT

\* A quotient is determined by the multiple below the dividend.
LEMMA DivUnique ==
  ASSUME NEW x \in Int, NEW q \in Int, NEW d \in Nat \ {0},
         d * q <= x, x < d * q + d
  PROVE  x \div d = q
BY SMT

\* A remainder is what a multiple of the divisor leaves.
LEMMA ModUnique ==
  ASSUME NEW q \in Int, NEW d \in Nat \ {0}, NEW r \in 0..(d - 1)
  PROVE  (d * q + r) % d = r
BY SMT

\* A number below the modulus is its own remainder.
LEMMA ModSmall ==
  ASSUME NEW d \in Nat \ {0}, NEW r \in 0..(d - 1)
  PROVE  r % d = r
BY SMT

\* In a block of timed calls, or about to print its figures.
Busy == pc \in {"call", "print"}

\* In a round.
InRound == pc \notin {"loop", "done"}

\* The bounds of the loops.
BoundInv ==
  /\ InRound => loop < LOOPS
  /\ pc = "call" => i < MaxPass * (TIMINGS + 1)
  /\ pc = "print" /\ block = "seal" => i > TIMINGS

\* The buffers: messages stay as they were filled until something is opened;
\* the calls of a pass make something in one slot after the other, and all
\* have been made at the end of a pass; only the last block sees a forgery.
BufferInv ==
  /\ Busy /\ block \in {"seal", "xor"} /\ ~NoLengths =>
       \A s \in Slots : msg[s] = "random"
  /\ Busy /\ block = "seal" => \A s \in Slots : s < i => box[s] = "good"
  /\ Busy /\ block = "open" => \A s \in Slots : box[s] = "good"
  /\ Busy /\ block = "forged" => prim = "aead" /\ box[0] = "forged"

\* The lengths of each direction of crypto_aead; the others have one.
ShapeInv ==
  InRound =>
    /\ direction = 0 => adlen = 0
    /\ direction = 1 => mlen = 0 /\ (pc # "grow" => adlen > 0)
    /\ direction = 2 => mlen = adlen /\ (pc # "grow" => adlen > 0)
    /\ prim # "aead" => direction = 0
    /\ NoLengths => Busy

\* Lengths that were printed before those of now, in this direction or an
\* earlier one.
Sooner(a, l) ==
  /\ direction = 0 => a = 0 /\ l < mlen
  /\ direction = 1 => a = 0 \/ (l = 0 /\ a < adlen)
  /\ direction = 2 => a = 0 \/ l = 0 \/ a < adlen

Order == {<<"seal", "open">>, <<"seal", "xor">>, <<"seal", "forged">>,
          <<"open", "forged">>}

\* Block b has been over for associated data of a and a message of l bytes.
Past(b, a, l) ==
  IF b = "keypair" THEN Busy => block # "keypair"
  ELSE \/ Sooner(a, l) /\ ~NoLengths /\ (Busy => block # "keypair")
       \/ /\ a = adlen /\ l = mlen
          /\ pc = "grow" \/ (Busy /\ <<b, block>> \in Order)

\* The entry of a block.
Under(b, a, l) ==
  <<Names[prim][b], IF b = "keypair" \/ NoLengths THEN -1 ELSE LabelBase * a + l>>

Tested == 0..MAXTEST_BYTES

\* What was printed in this round was printed for blocks that are over.
PrintedInv ==
  InRound => \A e \in printed :
               \E b \in Blocks(prim) : \E a, l \in Tested :
                 e = Under(b, a, l) /\ Past(b, a, l)

IInv == TypeOK /\ BoundInv /\ BufferInv /\ ShapeInv /\ PrintedInv

(***************************************************************************)
(* Facts about the blocks and the bounds                                   *)
(***************************************************************************)

\* Which blocks there are.
LEMMA BlockFacts ==
  ASSUME NEW p \in Primitives
  PROVE  /\ Blocks(p) \subseteq {"keypair", "seal", "open", "xor", "forged"}
         /\ "seal" \in Blocks(p)
         /\ "forged" \in Blocks(p) => p = "aead"
         /\ "keypair" \in Blocks(p) <=> p \in {"kem", "sign", "encrypt"}
<1>1. p \in {"kem", "sign", "encrypt", "aead", "hash", "stream"}
  BY MeasureAssumption
<1>2. CASE p = "kem"
  BY <1>2 DEF Blocks, Names
<1>3. CASE p = "sign"
  BY <1>3 DEF Blocks, Names
<1>4. CASE p = "encrypt"
  BY <1>4 DEF Blocks, Names
<1>5. CASE p = "aead"
  BY <1>5 DEF Blocks, Names
<1>6. CASE p = "hash"
  BY <1>6 DEF Blocks, Names
<1>7. CASE p = "stream"
  BY <1>7 DEF Blocks, Names
<1> QED BY <1>1, <1>2, <1>3, <1>4, <1>5, <1>6, <1>7

\* No two blocks of a program have the same name.
LEMMA NamesDiffer ==
  ASSUME NEW p \in Primitives, NEW b \in Blocks(p), NEW c \in Blocks(p),
         Names[p][b] = Names[p][c]
  PROVE  b = c
<1>1. p \in {"kem", "sign", "encrypt", "aead", "hash", "stream"}
  BY MeasureAssumption
<1>2. CASE p = "kem"
  BY <1>2 DEF Blocks, Names
<1>3. CASE p = "sign"
  BY <1>3 DEF Blocks, Names
<1>4. CASE p = "encrypt"
  BY <1>4 DEF Blocks, Names
<1>5. CASE p = "aead"
  BY <1>5 DEF Blocks, Names
<1>6. CASE p = "hash"
  BY <1>6 DEF Blocks, Names
<1>7. CASE p = "stream"
  BY <1>7 DEF Blocks, Names
<1> QED BY <1>1, <1>2, <1>3, <1>4, <1>5, <1>6, <1>7

\* A label determines its lengths.
LEMMA LabelDecoded ==
  ASSUME NEW a \in Nat, NEW l \in Tested
  PROVE  /\ (LabelBase * a + l) % LabelBase = l
         /\ (LabelBase * a + l) \div LabelBase = a
<1>1. LabelBase \in Nat \ {0} /\ l \in 0..(LabelBase - 1)
  BY MeasureAssumption, LabelAssumption DEF Tested
<1>2. LabelBase * a \in Nat
  BY <1>1, SMT
<1>3. LabelBase * a + l \in Int /\ LabelBase * a <= LabelBase * a + l
      /\ LabelBase * a + l < LabelBase * a + LabelBase
  BY <1>1, <1>2
<1>4. (LabelBase * a + l) % LabelBase = l
  BY <1>1, ModUnique
<1>5. (LabelBase * a + l) \div LabelBase = a
  BY <1>1, <1>3, DivUnique
<1> QED BY <1>4, <1>5

\* The number of calls of a block is positive.
LEMMA LimitPositive == MaxPass * (TIMINGS + 1) \in Nat \ {0}
<1>1. MaxPass \in Nat \ {0} /\ TIMINGS + 1 \in Nat \ {0}
  BY MeasureAssumption
<1> DEFINE c == TIMINGS + 1
<1> HIDE DEF c
<1>2. \A x, y \in Nat \ {0} : x * y \in Nat \ {0}
  BY SMT
<1> QED BY <1>1, <1>2

\* A call works on one of the slots.
LEMMA SlotIsOne ==
  ASSUME TypeOK
  PROVE  /\ Slot \in Slots
         /\ Slots \subseteq 0..TIMINGS
         /\ prim # "sign" => Slots = {0} /\ Slot = 0
         /\ \A s \in Slots : s = i => Slot = s
<1>1. i \in Nat /\ TIMINGS \in Nat
  BY LimitPositive, MeasureAssumption DEF TypeOK
<1>2. TIMINGS + 1 \in Nat \ {0} /\ (TIMINGS + 1) - 1 = TIMINGS
  BY <1>1
<1>3. i % (TIMINGS + 1) \in 0..TIMINGS
  BY <1>1, <1>2, DivNat
<1>4. i \in 0..TIMINGS => i % (TIMINGS + 1) = i
  BY <1>1, <1>2, ModSmall
<1>5. CASE prim = "sign"
  BY <1>3, <1>4, <1>5 DEF Slot, Slots
<1>6. CASE prim # "sign"
  BY <1>1, <1>6 DEF Slot, Slots
<1> QED BY <1>5, <1>6

\* Lengths grow.
LEMMA LongerGrows ==
  ASSUME NEW x \in Nat, NEW gap \in {3, 4}
  PROVE  Longer(x, gap) \in Nat /\ Longer(x, gap) > x
<1>1. x \div gap \in Nat
  BY SMT
<1> QED BY <1>1 DEF Longer

\* What may follow a block.
LEMMA FollowingCases ==
  ASSUME TypeOK, NEW b \in Following
  PROVE  /\ b \in Blocks(prim)
         /\ \/ block = "keypair" /\ b = "seal" /\ prim = "kem"
            \/ block = "seal" /\ b \in {"open", "xor"}
            \/ block = "open" /\ b = "forged" /\ prim = "aead" /\ Following = {"forged"}
<1>1. b \in Blocks(prim)
  BY DEF Following
<1>2. b = "forged" => prim = "aead"
  BY <1>1, BlockFacts DEF TypeOK
<1> QED BY <1>1, <1>2 DEF Following, NoLengths

(***************************************************************************)
(* The steps                                                               *)
(***************************************************************************)

LEMMA InitInv == Init => IInv
<1> SUFFICES ASSUME Init PROVE IInv
  OBVIOUS
<1>1. TypeOK
  BY MeasureAssumption, LimitPositive, BlockFacts DEF Init, TypeOK
<1> QED BY <1>1 DEF Init, IInv, BoundInv, BufferInv, ShapeInv, PrintedInv, InRound, Busy

LEMMA LoopTopStep == IInv /\ LoopTop => IInv'
<1> SUFFICES ASSUME IInv, LoopTop PROVE IInv'
  OBVIOUS
<1>1. /\ prim \in Primitives /\ prim' = prim /\ Slots' = Slots
      /\ loop' = loop /\ direction' = 0 /\ adlen' = 0 /\ printed' = {}
      /\ msg' = msg /\ box' = box /\ mlen16' = mlen16
  BY DEF LoopTop, buffers, IInv, TypeOK, Slots
<1>2. mlen' \in Tested /\ 0 \in Tested
  BY MeasureAssumption DEF LoopTop, Tested
<1>3. \/ loop = LOOPS /\ pc' = "done" /\ block' = block /\ i' = i
      \/ loop # LOOPS /\ pc' = "call" /\ block' = "keypair" /\ i' = 0 /\ "keypair" \in Blocks(prim)
      \/ /\ loop # LOOPS /\ prim \notin {"kem", "sign", "encrypt"}
         /\ pc' = IF prim = "aead" THEN "grow" ELSE "check"
         /\ block' = block /\ i' = i
  BY <1>1, BlockFacts DEF LoopTop, Begin, HasKeys
<1>4. TypeOK'
  BY <1>1, <1>2, <1>3, LimitPositive DEF IInv, TypeOK, Tested
<1>5. BoundInv'
  BY <1>1, <1>3, LimitPositive, MeasureAssumption DEF IInv, TypeOK, BoundInv, InRound
<1>6. BufferInv'
  BY <1>3 DEF BufferInv, Busy
<1>7. ShapeInv'
  BY <1>1, <1>3, BlockFacts DEF ShapeInv, Busy, InRound, NoLengths
<1>8. PrintedInv'
  BY <1>1 DEF PrintedInv
<1> QED BY <1>4, <1>5, <1>6, <1>7, <1>8 DEF IInv

LEMMA GrowStep == IInv /\ Grow => IInv'
<1> SUFFICES ASSUME IInv, Grow PROVE IInv'
  OBVIOUS
<1> DEFINE gap == IF prim \in {"sign", "encrypt"} THEN 4 ELSE 3
<1>1. /\ pc = "grow" /\ pc' = "check" /\ prim' = prim /\ mlen16' = mlen16 /\ block' = block
      /\ loop' = loop /\ direction' = direction /\ i' = i /\ msg' = msg /\ box' = box
      /\ printed' = printed /\ Slots' = Slots
  BY DEF Grow, buffers, Slots
<1>2. /\ prim \in Primitives /\ mlen \in Nat /\ adlen \in Nat
      /\ direction \in {0, 1, 2}
  BY DEF IInv, TypeOK
<1>3. /\ Longer(mlen, gap) \in Nat /\ Longer(mlen, gap) > mlen
      /\ Longer(adlen, gap) \in Nat /\ Longer(adlen, gap) > adlen
  BY <1>2, LongerGrows
<1>4. /\ direction = 0 => mlen' = Longer(mlen, gap) /\ adlen' = adlen
      /\ direction = 1 => mlen' = mlen /\ adlen' = Longer(adlen, gap)
      /\ direction = 2 => mlen' = Longer(mlen, gap) /\ adlen' = Longer(adlen, gap)
  <2>1. prim # "aead" => direction = 0
    BY <1>1 DEF IInv, ShapeInv, InRound
  <2>2. CASE prim = "aead"
    BY <1>2, <2>2 DEF Grow
  <2>3. CASE prim # "aead"
    BY <2>1, <2>3 DEF Grow
  <2> QED BY <2>2, <2>3
<1> HIDE DEF gap
<1>5. TypeOK'
  BY <1>1, <1>2, <1>3, <1>4 DEF IInv, TypeOK
<1>6. BoundInv' /\ BufferInv'
  BY <1>1 DEF IInv, BoundInv, BufferInv, Busy, InRound
<1>7. ShapeInv'
  BY <1>1, <1>2, <1>3, <1>4 DEF IInv, ShapeInv, InRound, NoLengths, Busy
<1>8. PrintedInv'
  <2>1. ASSUME NEW b \in Blocks(prim), NEW a \in Tested, NEW l \in Tested, Past(b, a, l)
        PROVE  Past(b, a, l)'
    <3>1. CASE b = "keypair"
      BY <1>1, <3>1 DEF Past, Busy
    <3>2. CASE b # "keypair"
      <4>1. a \in Nat /\ l \in Nat
        BY MeasureAssumption DEF Tested
      <4>2. ~NoLengths
        BY <1>1 DEF IInv, ShapeInv, InRound, Busy
      <4>3. Sooner(a, l) \/ (a = adlen /\ l = mlen)
        BY <2>1, <3>2 DEF Past
      <4>4. /\ direction = 0 => adlen = 0
            /\ direction = 1 => mlen = 0
            /\ direction = 2 => mlen = adlen
        BY <1>1 DEF IInv, ShapeInv, InRound
      <4>5. Sooner(a, l)'
        <5>1. CASE direction = 0
          BY <1>1, <1>2, <1>3, <1>4, <4>1, <4>3, <4>4, <5>1 DEF Sooner
        <5>2. CASE direction = 1
          BY <1>1, <1>2, <1>3, <1>4, <4>1, <4>3, <4>4, <5>2 DEF Sooner
        <5>3. CASE direction = 2
          BY <1>1, <1>2, <1>3, <1>4, <4>1, <4>3, <4>4, <5>3 DEF Sooner
        <5> QED BY <1>2, <5>1, <5>2, <5>3
      <4> QED BY <1>1, <3>2, <4>2, <4>5 DEF Past, Busy, NoLengths
    <3> QED BY <3>1, <3>2
  <2>2. \A b, a, l : Under(b, a, l)' = Under(b, a, l)
    BY <1>1 DEF Under, NoLengths
  <2> QED BY <1>1, <2>1, <2>2 DEF IInv, PrintedInv, InRound
<1> QED BY <1>5, <1>6, <1>7, <1>8 DEF IInv

LEMMA CheckStep == IInv /\ Check => IInv'
<1> SUFFICES ASSUME IInv, Check PROVE IInv'
  OBVIOUS
<1>1. /\ pc = "check" /\ prim' = prim /\ mlen16' = mlen16 /\ block' = block
      /\ i' = i /\ msg' = msg /\ box' = box /\ printed' = printed /\ Slots' = Slots
      /\ prim \in Primitives /\ mlen \in Nat /\ adlen \in Nat
      /\ direction \in {0, 1, 2} /\ loop \in 0..LOOPS /\ loop < LOOPS
      /\ ~NoLengths
  BY DEF Check, buffers, Slots, IInv, TypeOK, BoundInv, ShapeInv, InRound, Busy
<1>2. \/ /\ pc' = "fill" /\ loop' = loop /\ direction' = direction
         /\ mlen' = mlen /\ adlen' = adlen /\ mlen \in Tested /\ adlen \in Tested
      \/ /\ pc' = "grow" /\ loop' = loop /\ prim = "aead" /\ direction \in {0, 1}
         /\ direction' = direction + 1 /\ mlen' = 0 /\ adlen' = 0
      \/ /\ pc' = "loop" /\ loop' = loop + 1 /\ direction' = direction
         /\ mlen' = mlen /\ adlen' = adlen
  BY <1>1, MeasureAssumption DEF Check, lengths, Tested
<1>3. TypeOK'
  BY <1>1, <1>2, MeasureAssumption DEF IInv, TypeOK, Tested
<1>4. BoundInv' /\ BufferInv'
  BY <1>1, <1>2 DEF BoundInv, BufferInv, Busy, InRound
<1>5. ShapeInv'
  BY <1>1, <1>2 DEF IInv, ShapeInv, InRound, NoLengths, Busy
<1>6. PrintedInv'
  <2>1. ASSUME NEW b \in Blocks(prim), NEW a \in Tested, NEW l \in Tested,
               Past(b, a, l), InRound'
        PROVE  Past(b, a, l)'
    <3>1. CASE b = "keypair"
      BY <1>1, <1>2, <3>1 DEF Past, Busy
    <3>2. CASE b # "keypair"
      <4>1. Sooner(a, l)
        BY <1>1, <2>1, <3>2 DEF Past, Busy
      <4>2. Sooner(a, l)'
        <5>1. CASE pc' = "fill"
          BY <1>1, <1>2, <4>1, <5>1 DEF Sooner
        <5>2. CASE pc' = "grow" /\ direction = 0
          BY <1>1, <1>2, <4>1, <5>2 DEF Sooner
        <5>3. CASE pc' = "grow" /\ direction = 1
          BY <1>1, <1>2, <4>1, <5>3 DEF Sooner
        <5> QED BY <1>2, <2>1, <5>1, <5>2, <5>3 DEF InRound
      <4> QED BY <1>1, <1>2, <3>2, <4>2 DEF Past, Busy, NoLengths
    <3> QED BY <3>1, <3>2
  <2>2. \A b, a, l : Under(b, a, l)' = Under(b, a, l)
    BY <1>1 DEF Under, NoLengths
  <2> QED BY <1>1, <2>1, <2>2 DEF IInv, PrintedInv, InRound
<1> QED BY <1>3, <1>4, <1>5, <1>6 DEF IInv

LEMMA FillStep == IInv /\ Fill => IInv'
<1> SUFFICES ASSUME IInv, Fill PROVE IInv'
  OBVIOUS
<1>1. /\ pc = "fill" /\ prim' = prim /\ mlen16' = mlen16 /\ loop' = loop
      /\ direction' = direction /\ mlen' = mlen /\ adlen' = adlen
      /\ printed' = printed /\ Slots' = Slots
      /\ pc' = "call" /\ block' = "seal" /\ i' = 0
      /\ prim \in Primitives /\ loop < LOOPS /\ ~NoLengths
  BY DEF Fill, Begin, lengths, Slots, IInv, TypeOK, BoundInv, ShapeInv, InRound, Busy
<1>2. /\ msg' = [s \in Slots |-> "random"]
      /\ box' \in [Slots -> {"none", "good", "stale", "forged"}]
  BY DEF Fill
<1>3. TypeOK'
  BY <1>1, <1>2, LimitPositive, BlockFacts DEF IInv, TypeOK
<1>4. BoundInv'
  BY <1>1, LimitPositive DEF IInv, BoundInv, InRound
<1>5. BufferInv'
  <2>1. \A s \in Slots : ~(s < 0)
    BY SlotIsOne, MeasureAssumption DEF IInv
  <2> QED BY <1>1, <1>2, <2>1 DEF BufferInv, Busy
<1>6. ShapeInv'
  BY <1>1 DEF IInv, ShapeInv, InRound, NoLengths, Busy
<1>7. PrintedInv'
  <2>1. ASSUME NEW b \in Blocks(prim), NEW a \in Tested, NEW l \in Tested, Past(b, a, l)
        PROVE  Past(b, a, l)'
    <3>1. b # "keypair" => Sooner(a, l)
      BY <1>1, <2>1 DEF Past, Busy
    <3>2. Sooner(a, l)' = Sooner(a, l)
      BY <1>1 DEF Sooner
    <3> QED BY <1>1, <3>1, <3>2 DEF Past, NoLengths
  <2>2. \A b, a, l : Under(b, a, l)' = Under(b, a, l)
    BY <1>1 DEF Under, NoLengths
  <2> QED BY <1>1, <2>1, <2>2 DEF IInv, PrintedInv, InRound
<1> QED BY <1>3, <1>4, <1>5, <1>6, <1>7 DEF IInv

LEMMA CallStep == IInv /\ Call => IInv'
<1> SUFFICES ASSUME IInv, Call PROVE IInv'
  OBVIOUS
<1>1. /\ pc = "call" /\ prim' = prim /\ mlen16' = mlen16 /\ block' = block /\ loop' = loop
      /\ direction' = direction /\ mlen' = mlen /\ adlen' = adlen
      /\ printed' = printed /\ Slots' = Slots /\ i' = i + 1
      /\ pc' \in {"call", "print"}
      /\ prim \in Primitives /\ block \in Blocks(prim) /\ i \in Nat
      /\ i < MaxPass * (TIMINGS + 1) /\ MaxPass * (TIMINGS + 1) \in Nat
      /\ TIMINGS \in Nat
  BY LimitPositive, MeasureAssumption
     DEF Call, lengths, Slots, IInv, TypeOK, BoundInv
<1>2. block \in {"keypair", "seal", "open", "xor", "forged"}
  BY <1>1, BlockFacts
<1>3. /\ Slot \in Slots /\ Slots \subseteq 0..TIMINGS
      /\ prim # "sign" => Slots = {0} /\ Slot = 0
      /\ \A s \in Slots : s = i => Slot = s
  BY SlotIsOne DEF IInv
<1>4. /\ msg \in [Slots -> {"none", "random", "junk"}]
      /\ box \in [Slots -> {"none", "good", "stale", "forged"}]
  BY DEF IInv, TypeOK
<1>5. /\ block = "keypair" => msg' = msg /\ box' \in [Slots -> {"none", "good", "stale", "forged"}]
      /\ block = "seal" => msg' = msg /\ box' = [box EXCEPT ![Slot] = "good"]
      /\ block \in {"open", "forged"} =>
           box' = box /\ msg' \in [Slots -> {"none", "random", "junk"}]
      /\ block = "xor" => box' = box /\ msg' = msg
  <2>1. Effect
    BY DEF Call
  <2>2. CASE block = "keypair"
    BY <1>3, <1>4, <2>1, <2>2 DEF Effect, Keypair
  <2>3. CASE block = "seal"
    BY <2>1, <2>3 DEF Effect, Seal
  <2>4. CASE block \in {"open", "forged"}
    BY <1>3, <1>4, <2>1, <2>4 DEF Effect, Opened
  <2>5. CASE block = "xor"
    BY <2>1, <2>5 DEF Effect, buffers
  <2> QED BY <1>2, <2>2, <2>3, <2>4, <2>5
<1>6. TypeOK'
  <2>1. /\ msg' \in [Slots -> {"none", "random", "junk"}]
        /\ box' \in [Slots -> {"none", "good", "stale", "forged"}]
    BY <1>2, <1>3, <1>4, <1>5
  <2> QED BY <1>1, <2>1 DEF IInv, TypeOK
<1>7. BoundInv'
  <2>1. pc' = "call" => i' < MaxPass * (TIMINGS + 1)
    BY DEF Call
  <2>2. pc' = "print" => i' > TIMINGS
    <3> SUFFICES ASSUME pc' = "print", i + 1 <= TIMINGS PROVE FALSE
      BY <1>1
    <3>1. (i + 1) % (TIMINGS + 1) = 0
      BY <1>1 DEF Call
    <3>2. i + 1 \in 0..((TIMINGS + 1) - 1) /\ TIMINGS + 1 \in Nat \ {0}
      BY <1>1
    <3>3. (i + 1) % (TIMINGS + 1) = i + 1
      BY <3>2, ModSmall
    <3> QED BY <1>1, <3>1, <3>3
  <2> QED BY <1>1, <2>1, <2>2 DEF IInv, BoundInv, InRound
<1>8. BufferInv'
  <2>1. CASE block = "keypair"
    BY <1>1, <2>1 DEF BufferInv
  <2>2. CASE block = "seal"
    <3>1. \A s \in Slots : s < i => box[s] = "good"
      BY <1>1, <2>2 DEF IInv, BufferInv, Busy
    <3>2. \A s \in Slots : s < i + 1 => s < i \/ Slot = s
      BY <1>1, <1>3
    <3>3. \A s \in Slots : s < i + 1 => box'[s] = "good"
      BY <1>3, <1>4, <1>5, <2>2, <3>1, <3>2
    <3> QED BY <1>1, <1>5, <2>2, <3>3 DEF IInv, BufferInv, Busy, NoLengths
  <2>3. CASE block \in {"open", "forged", "xor"}
    BY <1>1, <1>5, <2>3 DEF IInv, BufferInv, Busy, NoLengths
  <2> QED BY <1>2, <2>1, <2>2, <2>3
<1>9. ShapeInv'
  BY <1>1 DEF IInv, ShapeInv, InRound, NoLengths, Busy
<1>10. PrintedInv'
  <2>1. ASSUME NEW b, NEW a, NEW l, Past(b, a, l)
        PROVE  Past(b, a, l)'
    BY <1>1, <2>1 DEF Past, Busy, Sooner, NoLengths
  <2>2. \A b, a, l : Under(b, a, l)' = Under(b, a, l)
    BY <1>1 DEF Under, NoLengths
  <2> QED BY <1>1, <2>1, <2>2 DEF IInv, PrintedInv, InRound
<1> QED BY <1>6, <1>7, <1>8, <1>9, <1>10 DEF IInv

\* Where a printed block leads to.
LEMMA ProceedCases ==
  ASSUME IInv, PrintEntries
  PROVE  \/ /\ pc' = "call" /\ i' = 0 /\ loop' = loop
            /\ block' \in Blocks(prim)
            /\ \/ /\ block = "keypair" /\ block' = "seal" /\ prim = "kem" /\ box' = box
               \/ /\ block = "seal" /\ block' \in {"open", "xor"} /\ box' = box
               \/ /\ block = "open" /\ block' = "forged" /\ prim = "aead"
                  /\ box' = [box EXCEPT ![0] = "forged"]
         \/ /\ block' = block /\ i' = i /\ box' = box
            /\ \/ block = "keypair" /\ pc' = "check" /\ loop' = loop /\ ~NoLengths
               \/ block # "keypair" /\ pc' = "grow" /\ loop' = loop /\ ~NoLengths
               \/ pc' = "loop" /\ loop' = loop + 1
<1>1. TypeOK /\ prim \in Primitives
  BY DEF IInv, TypeOK
<1>2. CASE Following # {}
  <2>1. PICK b \in Following : Begin(b) /\ loop' = loop
    BY <1>2 DEF PrintEntries, Proceed
  <2>2. /\ b \in Blocks(prim)
        /\ \/ block = "keypair" /\ b = "seal" /\ prim = "kem"
           \/ block = "seal" /\ b \in {"open", "xor"}
           \/ block = "open" /\ b = "forged" /\ prim = "aead" /\ Following = {"forged"}
    BY <1>1, FollowingCases
  <2>3. b # "forged" => box' = box
    BY DEF PrintEntries
  <2>4. Following = {"forged"} => box' = [box EXCEPT ![0] = "forged"]
    BY DEF PrintEntries
  <2> QED BY <2>1, <2>2, <2>3, <2>4 DEF Begin
<1>3. CASE Following = {}
  <2>1. block = "keypair" => ~NoLengths
    <3>1. "seal" \in Blocks(prim)
      BY <1>1, BlockFacts
    <3> QED BY <1>3, <3>1 DEF Following
  <2> QED BY <1>3, <2>1 DEF PrintEntries, Proceed
<1> QED BY <1>2, <1>3

LEMMA PrintStep == IInv /\ PrintEntries => IInv'
<1> SUFFICES ASSUME IInv, PrintEntries PROVE IInv'
  OBVIOUS
<1>1. /\ pc = "print" /\ prim' = prim /\ mlen16' = mlen16 /\ Slots' = Slots
      /\ direction' = direction /\ mlen' = mlen /\ adlen' = adlen
      /\ msg' = msg /\ printed' = printed \cup {Under(block, adlen, mlen)}
      /\ prim \in Primitives /\ block \in Blocks(prim)
      /\ mlen \in Tested /\ adlen \in Tested
      /\ loop \in Nat /\ loop < LOOPS /\ i \in Nat /\ TIMINGS \in Nat
      /\ box \in [Slots -> {"none", "good", "stale", "forged"}]
  BY LimitPositive, MeasureAssumption
     DEF PrintEntries, lengths, Slots, Entry, Label, Under, Tested, IInv, TypeOK,
         BoundInv, InRound
<1>2. \/ /\ pc' = "call" /\ i' = 0 /\ loop' = loop
         /\ block' \in Blocks(prim)
         /\ \/ /\ block = "keypair" /\ block' = "seal" /\ prim = "kem" /\ box' = box
            \/ /\ block = "seal" /\ block' \in {"open", "xor"} /\ box' = box
            \/ /\ block = "open" /\ block' = "forged" /\ prim = "aead"
               /\ box' = [box EXCEPT ![0] = "forged"]
      \/ /\ block' = block /\ i' = i /\ box' = box
         /\ \/ block = "keypair" /\ pc' = "check" /\ loop' = loop /\ ~NoLengths
            \/ block # "keypair" /\ pc' = "grow" /\ loop' = loop /\ ~NoLengths
            \/ pc' = "loop" /\ loop' = loop + 1
  BY ProceedCases
<1>3. Slots \subseteq 0..TIMINGS /\ (prim = "aead" => Slots = {0})
  BY SlotIsOne DEF IInv
<1>4. TypeOK'
  <2>1. box' \in [Slots -> {"none", "good", "stale", "forged"}]
    BY <1>1, <1>2
  <2>2. /\ pc' \in {"call", "check", "grow", "loop"} /\ block' \in Blocks(prim)
        /\ i' \in 0..(MaxPass * (TIMINGS + 1)) /\ loop' \in 0..LOOPS
    BY <1>1, <1>2, LimitPositive, MeasureAssumption DEF IInv, TypeOK
  <2> QED BY <1>1, <2>1, <2>2 DEF IInv, TypeOK, Tested
<1>5. BoundInv'
  BY <1>1, <1>2, LimitPositive DEF BoundInv, InRound
<1>6. BufferInv'
  <2>1. CASE block = "keypair" /\ block' = "seal"
    <3>1. \A s \in Slots : ~(s < 0)
      BY <1>1, <1>3
    <3> QED BY <1>1, <1>2, <2>1, <3>1 DEF BufferInv, Busy, NoLengths
  <2>2. CASE block = "seal" /\ block' \in {"open", "xor"}
    <3>1. \A s \in Slots : s < i
      BY <1>1, <1>3, <2>2 DEF IInv, BoundInv
    <3>2. \A s \in Slots : box[s] = "good"
      BY <1>1, <2>2, <3>1 DEF IInv, BufferInv, Busy
    <3>3. ~NoLengths => \A s \in Slots : msg[s] = "random"
      BY <1>1, <2>2 DEF IInv, BufferInv, Busy
    <3> QED BY <1>1, <1>2, <2>2, <3>2, <3>3 DEF BufferInv, NoLengths
  <2>3. CASE block = "open" /\ block' = "forged"
    BY <1>1, <1>2, <1>3, <2>3 DEF BufferInv
  <2>4. CASE pc' # "call"
    BY <1>2, <2>4 DEF BufferInv, Busy
  <2> QED BY <1>2, <2>1, <2>2, <2>3, <2>4
<1>7. ShapeInv'
  BY <1>1, <1>2 DEF IInv, ShapeInv, InRound, NoLengths, Busy
<1>8. PrintedInv'
  <2>1. \A b, a, l : Under(b, a, l)' = Under(b, a, l) /\ Sooner(a, l)' = Sooner(a, l)
    BY <1>1 DEF Under, NoLengths, Sooner
  <2>2. ASSUME NEW b \in Blocks(prim), NEW a \in Tested, NEW l \in Tested,
               Past(b, a, l), InRound'
        PROVE  Past(b, a, l)'
    <3>1. CASE b = "keypair"
      BY <1>1, <1>2, <2>2, <3>1 DEF Past, Busy
    <3>2. CASE b # "keypair" /\ Sooner(a, l)' /\ ~NoLengths /\ block # "keypair"
      BY <1>1, <1>2, <2>2, <3>2 DEF Past, Busy, NoLengths
    <3>3. CASE b # "keypair" /\ a = adlen /\ l = mlen /\ <<b, block>> \in Order
      <4>1. b \in {"seal", "open"} /\ block \in {"open", "xor", "forged"}
            /\ (b = "open" => block = "forged")
        BY <3>3 DEF Order
      <4>2. pc' = "grow" \/ (pc' = "call" /\ b = "seal" /\ block' = "forged")
        BY <1>2, <2>2, <4>1 DEF InRound
      <4> QED BY <1>1, <3>3, <4>2 DEF Past, Busy, Order
    <3> QED BY <1>1, <2>1, <2>2, <3>1, <3>2, <3>3 DEF Past, Busy
  <2>3. ASSUME InRound', NEW b, NEW a, NEW l, b = block, a = adlen, l = mlen
        PROVE  Past(b, a, l)'
    <3>1. CASE block = "keypair"
      BY <1>2, <2>3, <3>1 DEF Past, Busy
    <3>2. CASE block # "keypair"
      BY <1>1, <1>2, <2>3, <3>2 DEF Past, Busy, Order, InRound
    <3> QED BY <3>1, <3>2
  <2>4. ASSUME InRound', NEW e \in printed'
        PROVE  \E b \in Blocks(prim) : \E a, l \in Tested :
                 e = Under(b, a, l)' /\ Past(b, a, l)'
    <3>1. CASE e \in printed
      <4>1. PICK b \in Blocks(prim), a \in Tested, l \in Tested :
              e = Under(b, a, l) /\ Past(b, a, l)
        BY <1>1, <3>1 DEF IInv, PrintedInv, InRound
      <4> QED BY <2>1, <2>2, <2>4, <4>1
    <3>2. CASE e = Under(block, adlen, mlen)
      <4>1. PICK b \in Blocks(prim), a \in Tested, l \in Tested :
              b = block /\ a = adlen /\ l = mlen
        BY <1>1
      <4>2. e = Under(b, a, l)' /\ Past(b, a, l)'
        BY <2>1, <2>3, <2>4, <3>2, <4>1
      <4> QED BY <4>2
    <3> QED BY <1>1, <2>4, <3>1, <3>2
  <2> QED BY <1>1, <2>4 DEF PrintedInv
<1> QED BY <1>4, <1>5, <1>6, <1>7, <1>8 DEF IInv

(***************************************************************************)
(* Theorems                                                                *)
(***************************************************************************)

\* The inductive invariant: the bounds of the loops, the contents of the
\* buffers in each block, the shape of the lengths in each direction, and
\* for which blocks and lengths figures have been printed.
THEOREM Invariance == Spec => []IInv
<1>1. Init => IInv
  BY InitInv
<1>2. IInv /\ [Next]_vars => IInv'
  <2> SUFFICES ASSUME IInv, [Next]_vars PROVE IInv'
    OBVIOUS
  <2>1. CASE UNCHANGED vars
    <3>1. \A b, a, l : Under(b, a, l)' = Under(b, a, l) /\ Past(b, a, l)' = Past(b, a, l)
      BY <2>1 DEF vars, lengths, Under, NoLengths, Past, Sooner, Busy
    <3>2. PrintedInv'
      BY <2>1, <3>1 DEF vars, IInv, PrintedInv, InRound
    <3>3. /\ Slots' = Slots /\ Busy' = Busy /\ InRound' = InRound /\ NoLengths' = NoLengths
      BY <2>1 DEF vars, Slots, Busy, InRound, NoLengths
    <3>4. TypeOK'
      BY <2>1, <3>3 DEF vars, lengths, buffers, IInv, TypeOK
    <3>5. BoundInv' /\ BufferInv' /\ ShapeInv'
      BY <2>1, <3>3 DEF vars, lengths, buffers, IInv, BoundInv, BufferInv, ShapeInv
    <3> QED BY <3>2, <3>4, <3>5 DEF IInv
  <2> QED BY <2>1, LoopTopStep, GrowStep, CheckStep, FillStep, CallStep, PrintStep DEF Next
<1> QED BY <1>1, <1>2, PTL DEF Spec

\* No call is made with a message, or associated data, that is longer than
\* its buffer, and every index stays in its array.
THEOREM TypeCorrect == Spec => []TypeOK
<1>1. IInv => TypeOK
  BY DEF IInv
<1> QED BY <1>1, Invariance, PTL

\* Every timed call finds in its buffers what its label says it works on,
\* however many calls a pass has and however many passes are made.
THEOREM BlocksAreMatched == Spec => []BlocksMatched
<1>1. IInv => BlocksMatched
  <2> SUFFICES ASSUME IInv, pc = "call"
               PROVE  /\ block \in {"seal", "xor"} /\ ~NoLengths => msg[Slot] = "random"
                      /\ block = "open" => box[Slot] = "good"
                      /\ block = "forged" => box[Slot] = "forged"
    BY DEF BlocksMatched
  <2>1. Slot \in Slots /\ (prim = "aead" => Slot = 0)
    BY SlotIsOne DEF IInv
  <2> QED BY <2>1 DEF IInv, BufferInv, Busy
<1> QED BY <1>1, Invariance, PTL

\* In a round, no two blocks of calls are printed under the same name and
\* label, and the two lengths of a label can be recovered from it.
THEOREM LabelsAreRight == Spec => []LabelsRight
<1>1. IInv => LabelsRight
  <2> SUFFICES ASSUME IInv, pc = "print"
               PROVE  /\ Entry \notin printed
                      /\ Entry[2] # -1 => /\ Entry[2] % LabelBase = mlen
                                          /\ Entry[2] \div LabelBase = adlen
    BY DEF LabelsRight
  <2>1. /\ prim \in Primitives /\ block \in Blocks(prim)
        /\ mlen \in Tested /\ adlen \in Tested /\ direction \in {0, 1, 2}
        /\ Tested \subseteq Nat
    BY MeasureAssumption DEF IInv, TypeOK, Tested
  <2>2. Entry = Under(block, adlen, mlen)
    BY DEF Entry, Label, Under
  <2>3. ASSUME Entry \in printed PROVE FALSE
    <3>1. PICK b \in Blocks(prim), a \in Tested, l \in Tested :
            Entry = Under(b, a, l) /\ Past(b, a, l)
      BY <2>3 DEF IInv, PrintedInv, InRound
    <3>2. Names[prim][b] = Names[prim][block]
      BY <2>2, <3>1 DEF Under
    <3>3. b = block
      BY <2>1, <3>2, NamesDiffer
    <3>4. block # "keypair" /\ ~NoLengths /\ Sooner(a, l)
      BY <3>1, <3>3 DEF Past, Busy, Order
    <3>5. LabelBase * a + l = LabelBase * adlen + mlen
      BY <2>2, <3>1, <3>3, <3>4 DEF Under
    <3>6. a = adlen /\ l = mlen
      BY <2>1, <3>5, LabelDecoded
    <3>7. a \in Nat /\ l \in Nat
      BY <2>1
    <3>8. /\ direction = 1 => mlen = 0 /\ adlen > 0
          /\ direction = 2 => mlen = adlen /\ adlen > 0
      BY DEF IInv, ShapeInv, InRound
    <3>9. CASE direction = 0
      BY <3>4, <3>6, <3>7, <3>9 DEF Sooner
    <3>10. CASE direction = 1
      BY <3>4, <3>6, <3>7, <3>8, <3>10 DEF Sooner
    <3>11. CASE direction = 2
      BY <3>4, <3>6, <3>7, <3>8, <3>11 DEF Sooner
    <3> QED BY <2>1, <3>9, <3>10, <3>11
  <2>4. Entry[2] = -1 \/ Entry[2] = LabelBase * adlen + mlen
    BY <2>2 DEF Under
  <2> QED BY <2>1, <2>3, <2>4, LabelDecoded
<1> QED BY <1>1, Invariance, PTL

=============================================================================
