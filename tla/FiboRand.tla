------------------------------ MODULE FiboRand ------------------------------
(***************************************************************************)
(* randombytes.c: the deterministic generator behind the randombytes() of  *)
(* every algorithm on the board.  Two words, each added to the other in    *)
(* turn; my_random_seed() sets both, randombytes() takes a byte from each  *)
(* pair of additions.                                                      *)
(***************************************************************************)
EXTENDS Integers, Sequences

CONSTANTS
  Word,            \* the values of a uint32_t: 0..WordMod-1
  WordMod,         \* how many there are (2^32)
  XorOf(_, _),     \* the bitwise exclusive or of two words
  A0, B0,          \* the values of fibo_a and fibo_b at reset
  Shl20, Shr12,    \* factors by which << 20 multiplies and >> 12 divides
  Shr24, Shr16,    \* and those of >> 24 and >> 16
  ByteMod,         \* the values of a uint8_t (2^8)
  Seeds,           \* the seeds the callers set
  Lengths,         \* the lengths of their requests
  MaxBytes         \* bound: bytes drawn from one seed

ASSUME WordAssumption ==
  /\ WordMod \in Nat \ {0} /\ WordMod % 2 = 0
  /\ Word = 0..(WordMod - 1)
  /\ \A x, y \in Word : XorOf(x, y) \in Word
  /\ Shl20 \in Nat \ {0} /\ Shr12 \in Nat \ {0}
  /\ Shr24 \in Nat \ {0} /\ Shr16 \in Nat \ {0}
  /\ ByteMod \in Nat \ {0}

ASSUME SeedAssumption ==
  /\ A0 \in Word /\ B0 \in Word /\ A0 % 2 = 1
  /\ Seeds \subseteq Word
  /\ Lengths \subseteq Nat
  /\ MaxBytes \in Nat

VARIABLES
  fibo_a, fibo_b,
  left,            \* bytes that the running call of randombytes() still owes
  last,            \* history: the last seed set, -1 before the first
  drawn            \* history: the bytes drawn since

vars == <<fibo_a, fibo_b, left, last, drawn>>

-----------------------------------------------------------------------------
\* x | 1
Or1(x) == IF x % 2 = 0 THEN x + 1 ELSE x

\* Mutant of SeedA: without the | 1.
SeedA_NoOr(seed) == XorOf(XorOf(A0, (seed * Shl20) % WordMod), seed \div Shr12)

\* (0xDEADBEEF ^ (seed << 20) ^ (seed >> 12)) | 1
SeedA(seed) == Or1(XorOf(XorOf(A0, (seed * Shl20) % WordMod), seed \div Shr12))

\* Mutant of NextA: the sum keeps its carry.
NextA_Wide(a, b) == a + b

\* fibo_a += fibo_b; fibo_b += fibo_a, and what the byte is made of.
NextA(a, b) == (a + b) % WordMod
NextB(a, b) == (b + NextA(a, b)) % WordMod
ByteOf(a, b) == XorOf(a \div Shr24, b \div Shr16) % ByteMod

-----------------------------------------------------------------------------
Init ==
  /\ fibo_a = A0 /\ fibo_b = B0
  /\ left = 0
  /\ last = -1 /\ drawn = <<>>

\* Mutant of Seed: fibo_b is kept.
Seed_KeepsB(seed) ==
  /\ left = 0
  /\ fibo_a' = SeedA(seed) /\ fibo_b' = fibo_b
  /\ last' = seed /\ drawn' = <<>>
  /\ UNCHANGED left

\* my_random_seed(seed)
Seed(seed) ==
  /\ left = 0
  /\ fibo_a' = SeedA(seed) /\ fibo_b' = seed
  /\ last' = seed /\ drawn' = <<>>
  /\ UNCHANGED left

\* randombytes() is called.
Request(len) ==
  /\ left = 0
  /\ Len(drawn) + len <= MaxBytes
  /\ left' = len
  /\ UNCHANGED <<fibo_a, fibo_b, last, drawn>>

\* An iteration of its loop.
Draw ==
  /\ left > 0
  /\ fibo_a' = NextA(fibo_a, fibo_b)
  /\ fibo_b' = NextB(fibo_a, fibo_b)
  /\ drawn' = Append(drawn, ByteOf(fibo_a', fibo_b'))
  /\ left' = left - 1
  /\ UNCHANGED last

Next == (\E seed \in Seeds : Seed(seed)) \/ (\E len \in Lengths : Request(len)) \/ Draw

Spec == Init /\ [][Next]_vars

-----------------------------------------------------------------------------
(* Properties *)

TypeOK ==
  /\ fibo_a \in Word /\ fibo_b \in Word
  /\ left \in Nat
  /\ last \in Seeds \cup {-1}
  /\ drawn \in Seq(0..(ByteMod - 1))

\* The generator is never stuck in the state with both words even, where the
\* low bits stay zero for ever, nor in <<0, 0>>, where all of them do: that
\* is what the | 1 of my_random_seed() is for (randombytes.c:17, 28-29).
Alive == fibo_a % 2 = 1 \/ fibo_b % 2 = 1

\* The generator's state after a number of bytes from a seed.
Stream(seed) ==
  LET s[k \in 0..MaxBytes] ==
        IF k = 0 THEN IF seed = -1 THEN <<A0, B0>> ELSE <<SeedA(seed), seed>>
        ELSE LET p == s[k - 1] IN <<NextA(p[1], p[2]), NextB(p[1], p[2])>>
  IN  s

\* The bytes drawn depend on the seed and their number only: not on what was
\* drawn before the seed was set, nor on how the requests were cut.  A key
\* can be named after its seed and its place in the stream.
StreamOfSeed ==
  LET s == Stream(last)
  IN  \A k \in 1..Len(drawn) : drawn[k] = ByteOf(s[k][1], s[k][2])

=============================================================================
