--------------------------- MODULE FiboRandProofs ---------------------------
(***************************************************************************)
(* Proofs about FiboRand, for words of any even modulus, every exclusive   *)
(* or on them and every set of seeds.                                      *)
(***************************************************************************)
EXTENDS FiboRand, WellFoundedInduction, SequenceTheorems, TLAPS

\* Division with remainder of natural numbers.
LEMMA DivNat ==
  ASSUME NEW x \in Nat, NEW d \in Nat \ {0}
  PROVE  /\ x \div d \in Nat
         /\ d * (x \div d) <= x
         /\ x < d * (x \div d) + d
         /\ x % d \in 0..(d - 1)
         /\ x = d * (x \div d) + (x % d)
BY SMT

\* The order of the multiples of a positive number.
LEMMA MulMono ==
  ASSUME NEW a \in Int, NEW b \in Int, NEW d \in Nat \ {0}
  PROVE  /\ d * a \in Int
         /\ a < b => d * a + d <= d * b
         /\ a <= b => d * a <= d * b
         /\ d * a < d * b => a < b
BY SMT

\* Reducing by an even modulus keeps the lowest bit.
LEMMA LowBit ==
  ASSUME NEW x \in Nat
  PROVE  (x % WordMod) % 2 = x % 2
<1> DEFINE q == x \div WordMod
           h == WordMod \div 2
           r == x % WordMod
<1>1. /\ q \in Nat /\ r \in 0..(WordMod - 1)
      /\ x = WordMod * q + r
  BY WordAssumption, DivNat
<1>2. h \in Nat /\ WordMod = 2 * h
  BY WordAssumption, SMT
<1> HIDE DEF q, h, r
<1>3. WordMod * q = 2 * (h * q) /\ h * q \in Nat
  BY <1>1, <1>2, SMT
<1>4. (2 * (h * q) + r) % 2 = r % 2
  <2> DEFINE y == h * q
  <2> HIDE DEF y
  <2>1. \A z \in Nat, w \in Nat : (2 * z + w) % 2 = w % 2
    BY SMT
  <2>2. y \in Nat /\ r \in Nat
    BY <1>1, <1>3, WordAssumption DEF y
  <2> QED BY <2>1, <2>2 DEF y
<1> QED BY <1>1, <1>3, <1>4 DEF r

\* Shifting a word to the right does not make it larger.
LEMMA Shift ==
  \A x \in Nat, y \in Nat \ {0} : x \div y \in Nat /\ x \div y <= x
BY SMT

\* Setting a seed gives a word whose lowest bit is set.
LEMMA SeedOdd ==
  ASSUME NEW seed \in Seeds
  PROVE  SeedA(seed) \in Word /\ SeedA(seed) % 2 = 1
<1>1. seed \in Word /\ seed \in Nat
  BY SeedAssumption, WordAssumption
<1>2. (seed * Shl20) % WordMod \in Word
  <2>1. seed * Shl20 \in Nat
    <3>1. Shl20 \in Nat
      BY WordAssumption
    <3> QED BY <1>1, <3>1, SMT
  <2> QED BY <2>1, WordAssumption, DivNat
<1>3. seed \div Shr12 \in Word
  <2>1. seed \div Shr12 \in Nat /\ seed \div Shr12 <= seed
    BY <1>1, Shift, WordAssumption
  <2> QED BY <1>1, <2>1, WordAssumption
<1> DEFINE x == XorOf(XorOf(A0, (seed * Shl20) % WordMod), seed \div Shr12)
<1>4. x \in Word
  <2>1. XorOf(A0, (seed * Shl20) % WordMod) \in Word
    BY <1>2, WordAssumption, SeedAssumption
  <2> QED BY <1>3, <2>1, WordAssumption
<1>5. SeedA(seed) = Or1(x)
  BY DEF SeedA
<1> HIDE DEF x
<1>6. x \in Nat /\ x <= WordMod - 1 /\ WordMod \in Nat /\ WordMod % 2 = 0
  BY <1>4, WordAssumption
<1>7. Or1(x) \in Nat /\ Or1(x) <= WordMod - 1 /\ Or1(x) % 2 = 1
  BY <1>6, SMT DEF Or1
<1> QED BY <1>5, <1>7, WordAssumption

\* An iteration of randombytes() stays in the words, and the lowest bits
\* follow a cycle of three states that leaves out the one with both clear.
LEMMA NextAlive ==
  ASSUME NEW a \in Word, NEW b \in Word
  PROVE  /\ NextA(a, b) \in Word
         /\ NextB(a, b) \in Word
         /\ (a % 2 = 1 \/ b % 2 = 1)
              => (NextA(a, b) % 2 = 1 \/ NextB(a, b) % 2 = 1)
<1>1. a \in Nat /\ b \in Nat
  BY WordAssumption
<1> DEFINE c == NextA(a, b)
           d == NextB(a, b)
<1>2. c \in Word /\ c \in Nat /\ c % 2 = (a + b) % 2
  <2>1. a + b \in Nat
    BY <1>1
  <2>2. c \in 0..(WordMod - 1)
    BY <2>1, WordAssumption, DivNat DEF NextA
  <2>3. c % 2 = (a + b) % 2
    BY <2>1, LowBit DEF NextA
  <2> QED BY <2>2, <2>3, WordAssumption
<1>3. d = (b + c) % WordMod
  BY DEF NextB
<1> HIDE DEF c, d
<1>4. d \in Word /\ d % 2 = (b + c) % 2
  <2>1. b + c \in Nat
    BY <1>1, <1>2
  <2> QED BY <1>3, <2>1, WordAssumption, DivNat, LowBit
<1>5. (a % 2 = 1 \/ b % 2 = 1) => (c % 2 = 1 \/ d % 2 = 1)
  BY <1>1, <1>2, <1>4, SMT
<1> QED BY <1>2, <1>4, <1>5 DEF c, d

\* The types, and the lowest bits, in every reachable state: no seed and no
\* number of requests brings the generator to where it is stuck.
Inv == TypeOK /\ Alive

THEOREM NeverStuck == Spec => []Inv
<1>1. Init => Inv
  BY SeedAssumption, EmptySeq DEF Init, Inv, TypeOK, Alive
<1>2. Inv /\ [Next]_vars => Inv'
  <2> SUFFICES ASSUME Inv, [Next]_vars PROVE Inv'
    OBVIOUS
  <2>1. ASSUME NEW seed \in Seeds, Seed(seed) PROVE Inv'
    BY <2>1, SeedOdd, SeedAssumption DEF Inv, TypeOK, Alive, Seed
  <2>2. ASSUME NEW len \in Lengths, Request(len) PROVE Inv'
    BY <2>2, SeedAssumption DEF Inv, TypeOK, Alive, Request
  <2>3. CASE Draw
    <3>1. /\ fibo_a' \in Word /\ fibo_b' \in Word
          /\ fibo_a' % 2 = 1 \/ fibo_b' % 2 = 1
      BY <2>3, NextAlive DEF Draw, Inv, TypeOK, Alive
    <3>2. ByteOf(fibo_a', fibo_b') \in 0..(ByteMod - 1)
      <4>1. /\ fibo_a' \div Shr24 \in Word
            /\ fibo_b' \div Shr16 \in Word
        <5>1. /\ fibo_a' \in Nat /\ fibo_a' <= WordMod - 1
              /\ fibo_b' \in Nat /\ fibo_b' <= WordMod - 1
              /\ WordMod \in Nat
          BY <3>1, WordAssumption
        <5>2. /\ fibo_a' \div Shr24 \in Nat /\ fibo_a' \div Shr24 <= fibo_a'
              /\ fibo_b' \div Shr16 \in Nat /\ fibo_b' \div Shr16 <= fibo_b'
          BY <5>1, Shift, WordAssumption
        <5>3. /\ fibo_a' \div Shr24 \in 0..(WordMod - 1)
              /\ fibo_b' \div Shr16 \in 0..(WordMod - 1)
          <6> DEFINE u == fibo_a' \div Shr24
                     v == fibo_b' \div Shr16
          <6>1. u \in Nat /\ v \in Nat /\ u <= fibo_a' /\ v <= fibo_b'
            BY <5>2
          <6> HIDE DEF u, v
          <6>2. u \in 0..(WordMod - 1) /\ v \in 0..(WordMod - 1)
            BY <5>1, <6>1
          <6> QED BY <6>2 DEF u, v
        <5> QED BY <5>3, WordAssumption
      <4>2. XorOf(fibo_a' \div Shr24, fibo_b' \div Shr16) \in Nat
        BY <4>1, WordAssumption
      <4> QED BY <4>2, DivNat, WordAssumption DEF ByteOf
    <3>3. drawn' \in Seq(0..(ByteMod - 1)) /\ left' \in Nat /\ last' = last
      BY <2>3, <3>2, AppendProperties DEF Draw, Inv, TypeOK
    <3> QED BY <3>1, <3>3 DEF Inv, TypeOK, Alive
  <2>4. CASE UNCHANGED vars
    BY <2>4 DEF vars, Inv, TypeOK, Alive
  <2> QED BY <2>1, <2>2, <2>3, <2>4 DEF Next
<1> QED BY <1>1, <1>2, PTL DEF Spec

\* The words keep their width and the bytes theirs.
THEOREM TypeCorrect == Spec => []TypeOK
BY NeverStuck, PTL DEF Inv

\* The low bits of the generator's words are never both zero.
THEOREM StaysAlive == Spec => []Alive
BY NeverStuck, PTL DEF Inv

\* An iteration loses nothing: different states have different successors,
\* so two streams that differ never run together, and every stream returns
\* to where it began.
THEOREM NoMerging ==
  ASSUME NEW a \in Word, NEW b \in Word, NEW c \in Word, NEW d \in Word,
         NextA(a, b) = NextA(c, d), NextB(a, b) = NextB(c, d)
  PROVE  a = c /\ b = d
<1>1. /\ a \in 0..(WordMod - 1) /\ b \in 0..(WordMod - 1)
      /\ c \in 0..(WordMod - 1) /\ d \in 0..(WordMod - 1)
      /\ WordMod \in Nat \ {0}
  BY WordAssumption
<1>2. ASSUME NEW x \in 0..(WordMod - 1), NEW y \in 0..(WordMod - 1),
             NEW z \in 0..(WordMod - 1), (x + z) % WordMod = (y + z) % WordMod
      PROVE  x = y
  <2> DEFINE p == (x + z) \div WordMod
             q == (y + z) \div WordMod
             r == (x + z) % WordMod
  <2>1. /\ p \in Nat /\ q \in Nat /\ r \in 0..(WordMod - 1)
        /\ x + z = WordMod * p + r
        /\ y + z = WordMod * q + r
    <3>1. x + z \in Nat /\ y + z \in Nat
      BY <1>1, <1>2
    <3> QED BY <1>1, <1>2, <3>1, DivNat
  <2> HIDE DEF p, q, r
  <2>2. WordMod * p \in Int /\ WordMod * q \in Int
    BY <1>1, <2>1, MulMono
  <2>3. CASE p < q
    <3>1. WordMod * p + WordMod <= WordMod * q
      BY <1>1, <2>1, <2>3, MulMono
    <3> QED BY <1>1, <1>2, <2>1, <2>2, <3>1
  <2>4. CASE q < p
    <3>1. WordMod * q + WordMod <= WordMod * p
      BY <1>1, <2>1, <2>4, MulMono
    <3> QED BY <1>1, <1>2, <2>1, <2>2, <3>1
  <2>5. CASE p = q
    BY <1>1, <1>2, <2>1, <2>2, <2>5
  <2> QED BY <2>1, <2>3, <2>4, <2>5
<1>3. NextA(a, b) \in 0..(WordMod - 1)
  BY NextAlive, WordAssumption
<1>4. b = d
  BY <1>1, <1>2, <1>3 DEF NextB
<1>5. a = c
  BY <1>1, <1>2, <1>4 DEF NextA
<1> QED BY <1>4, <1>5

\* The generator's state that a seed sets, and the one after another byte.
Seeded(seed) == IF seed = -1 THEN <<A0, B0>> ELSE <<SeedA(seed), seed>>
After(p) == <<NextA(p[1], p[2]), NextB(p[1], p[2])>>

\* f is the stream of a seed as far as n bytes.
IsStream(f, n, seed) ==
  f = [k \in 0..n |-> IF k = 0 THEN Seeded(seed) ELSE After(f[k - 1])]

\* A stream can be continued, so there is one of every length.
LEMMA StreamExists ==
  ASSUME NEW seed, NEW n \in Nat
  PROVE  \E f : IsStream(f, n, seed)
<1> DEFINE R == OpToRel(<, Nat)
           Missing == {m \in Nat : ~ \E f : IsStream(f, m, seed)}
<1>1. ASSUME Missing # {} PROVE FALSE
  <2>1. PICK m \in Missing : \A k \in Missing : m <= k
    <3>1. Missing \subseteq Nat
      OBVIOUS
    <3>2. IsWellFoundedOn(R, Nat)
      BY NatLessThanWellFounded
    <3>3. \A k \in Nat, m \in Nat : <<k, m>> \notin R => m <= k
      <4>1. \A k \in Nat, m \in Nat : k < m => <<k, m>> \in R
        BY Zenon DEF OpToRel
      <4> HIDE DEF R
      <4> QED BY <4>1
    <3> HIDE DEF Missing, R
    <3>4. \E m \in Missing : \A k \in Missing : <<k, m>> \notin R
      BY <1>1, <3>1, <3>2, WFMin
    <3> QED BY <3>1, <3>3, <3>4, Zenon
  <2>2. m # 0
    <3>1. IsStream([k \in 0..0 |-> Seeded(seed)], 0, seed)
      BY DEF IsStream
    <3> QED BY <2>1, <3>1
  <2>3. m - 1 \in Nat /\ m - 1 \notin Missing
    BY <2>1, <2>2
  <2>4. PICK f : IsStream(f, m - 1, seed)
    BY <2>3
  <2> DEFINE g == [k \in 0..m |-> IF k = m THEN After(f[m - 1]) ELSE f[k]]
  <2>5. \A k \in 0..m : k # 0 => g[k - 1] = f[k - 1]
    BY <2>1, <2>2
  <2>6. \A k \in 0..(m - 1) : f[k] = IF k = 0 THEN Seeded(seed) ELSE After(f[k - 1])
    BY <2>4 DEF IsStream
  <2>7. \A k \in 0..m : g[k] = IF k = 0 THEN Seeded(seed) ELSE After(g[k - 1])
    <3> SUFFICES ASSUME NEW k \in 0..m
                 PROVE  g[k] = IF k = 0 THEN Seeded(seed) ELSE After(g[k - 1])
      OBVIOUS
    <3>1. CASE k = m
      BY <2>2, <2>3, <2>5, <3>1
    <3>2. CASE k # m
      <4>1. k \in 0..(m - 1) /\ g[k] = f[k]
        BY <2>1, <3>2
      <4> QED BY <2>5, <2>6, <4>1
    <3> QED BY <3>1, <3>2
  <2>8. IsStream(g, m, seed)
    <3>1. g = [k \in 0..m |-> g[k]]
      OBVIOUS
    <3> HIDE DEF g
    <3> QED BY <2>7, <3>1 DEF IsStream
  <2> QED BY <2>1, <2>8
<1> QED BY <1>1

\* Stream is well defined: it begins with the state that the seed sets, and
\* each state is the one after that before it.
LEMMA StreamSteps ==
  ASSUME NEW seed
  PROVE  /\ Stream(seed)[0] = Seeded(seed)
         /\ \A k \in 1..MaxBytes : Stream(seed)[k] = After(Stream(seed)[k - 1])
<1>1. \E f : IsStream(f, MaxBytes, seed)
  BY SeedAssumption, StreamExists
<1>2. Stream(seed) = CHOOSE f : IsStream(f, MaxBytes, seed)
  BY Zenon DEF Stream, IsStream, Seeded, After
<1>3. IsStream(Stream(seed), MaxBytes, seed)
  BY <1>1, <1>2
<1>4. \A k \in 0..MaxBytes :
        Stream(seed)[k] = IF k = 0 THEN Seeded(seed) ELSE After(Stream(seed)[k - 1])
  BY <1>3 DEF IsStream
<1> QED BY <1>4, SeedAssumption

\* The words are those of the stream after the bytes drawn so far, and a
\* request is within the bound.
StreamInv ==
  /\ Len(drawn) + left <= MaxBytes
  /\ <<fibo_a, fibo_b>> = Stream(last)[Len(drawn)]
  /\ StreamOfSeed

\* The bytes drawn are a function of the seed and their number.
THEOREM StreamIsOfSeed == Spec => []StreamOfSeed
<1>1. Init => StreamInv
  <2> SUFFICES ASSUME Init PROVE StreamInv
    OBVIOUS
  <2>1. Len(drawn) = 0 /\ left = 0 /\ last = -1
    BY DEF Init
  <2>2. Stream(last)[0] = <<A0, B0>>
    BY <2>1, StreamSteps DEF Seeded
  <2> QED BY <2>1, <2>2, SeedAssumption DEF Init, StreamInv, StreamOfSeed
<1>2. TypeOK /\ StreamInv /\ [Next]_vars => StreamInv'
  <2> SUFFICES ASSUME TypeOK, StreamInv, [Next]_vars PROVE StreamInv'
    OBVIOUS
  <2>1. ASSUME NEW seed \in Seeds, Seed(seed) PROVE StreamInv'
    <3>1. Len(drawn') = 0 /\ left' = 0 /\ last' = seed
      BY <2>1 DEF Seed
    <3>2. seed # -1
      BY SeedAssumption, WordAssumption
    <3>3. Stream(seed)[0] = <<SeedA(seed), seed>>
      BY <3>2, StreamSteps DEF Seeded
    <3>4. <<fibo_a', fibo_b'>> = Stream(last')[Len(drawn')]
      BY <2>1, <3>1, <3>3 DEF Seed
    <3> QED BY <3>1, <3>4, SeedAssumption DEF StreamInv, StreamOfSeed
  <2>2. ASSUME NEW len \in Lengths, Request(len) PROVE StreamInv'
    BY <2>2 DEF StreamInv, StreamOfSeed, Request
  <2>3. CASE Draw
    <3> DEFINE n == Len(drawn)
    <3>1. /\ n \in Nat /\ n + 1 \in 1..MaxBytes
          /\ Len(drawn') = n + 1
          /\ \A k \in 1..n : drawn'[k] = drawn[k]
          /\ drawn'[n + 1] = ByteOf(fibo_a', fibo_b')
          /\ left' = left - 1 /\ last' = last
      <4>1. n \in Nat /\ left \in Nat /\ left > 0 /\ n + left <= MaxBytes
        BY <2>3, LenProperties DEF TypeOK, StreamInv, Draw
      <4>2. n + 1 \in 1..MaxBytes
        BY <4>1, SeedAssumption
      <4> QED BY <2>3, <4>1, <4>2, AppendProperties DEF TypeOK, Draw
    <3>2. <<fibo_a', fibo_b'>> = Stream(last)[n + 1]
      <4>1. Stream(last)[n + 1] = After(Stream(last)[n])
        BY <3>1, StreamSteps
      <4>2. Stream(last)[n] = <<fibo_a, fibo_b>>
        BY DEF StreamInv
      <4> QED BY <2>3, <4>1, <4>2 DEF Draw, After
    <3>3. \A k \in 1..(n + 1) : drawn'[k] = ByteOf(Stream(last)[k][1], Stream(last)[k][2])
      <4> SUFFICES ASSUME NEW k \in 1..(n + 1)
                   PROVE  drawn'[k] = ByteOf(Stream(last)[k][1], Stream(last)[k][2])
        OBVIOUS
      <4>1. CASE k = n + 1
        BY <3>1, <3>2, <4>1
      <4>2. CASE k # n + 1
        <5>1. k \in 1..n
          BY <3>1, <4>2
        <5> QED BY <3>1, <5>1 DEF StreamInv, StreamOfSeed
      <4> QED BY <4>1, <4>2
    <3>4. Len(drawn') + left' <= MaxBytes
      BY <3>1, SeedAssumption DEF StreamInv, TypeOK
    <3> HIDE DEF n
    <3> QED BY <3>1, <3>2, <3>3, <3>4 DEF StreamInv, StreamOfSeed
  <2>4. CASE UNCHANGED vars
    BY <2>4 DEF vars, StreamInv, StreamOfSeed
  <2> QED BY <2>1, <2>2, <2>3, <2>4 DEF Next
<1>3. StreamInv => StreamOfSeed
  BY DEF StreamInv
<1> QED BY <1>1, <1>2, <1>3, TypeCorrect, PTL DEF Spec

=============================================================================
