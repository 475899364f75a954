------------------------------ MODULE KemBench ------------------------------
(***************************************************************************)
(* The firmware built for a KEM (main.cpp with TEST_KEM): BenchMain with   *)
(* the calls that test_alg() and measure() make to the KEM.                *)
(*                                                                         *)
(* The KEM is external: the crypto_kem_* functions of the algorithm that   *)
(* is linked in.  It draws from randombytes(), which is deterministic, so  *)
(* what it makes is named after the seed and the number of draws since.    *)
(***************************************************************************)
EXTENDS BenchMain

CONSTANT Faults     \* what the KEM may do wrong

ASSUME KemAssumption == Faults \subseteq {"keypair", "enc", "dec", "mismatch"}

VARIABLES
  pk, sk, ct, s1, s2,   \* the KEM state, main.cpp:265-269
  hex,             \* what was printed after "s1 = " and "s2 = "
  rekeyed          \* history: keypairs were made since ct was

buffers == <<pk, sk, ct, s1, s2>>
kemvars == <<buffers, hex, rekeyed>>
vars == <<mainvars, kemvars>>

-----------------------------------------------------------------------------
(* The external KEM: the return code of each operation and what it leaves  *)
(* in its output buffers.                                                  *)

\* Contents of a buffer that no operation made, or that one left in failing.
Zero == <<"zero">>
Junk == <<"junk">>
Fill(b) == <<b>>

Fresh == <<seed, draws>>
IsMade(x) == Len(x) = 2
HavePair == IsMade(pk) /\ sk = pk

\* crypto_kem_keypair(pk, sk)
Keypair(ret, p, s) ==
  \/ ret = 0 /\ p = Fresh /\ s = Fresh
  \/ ret = 1 /\ p = Junk  /\ s = Junk /\ "keypair" \in Faults

\* crypto_kem_enc(ct, ss, pk)
Encaps(ret, c, ss) ==
  \/ ret = 0 /\ c = [key |-> pk, ss |-> Fresh]   /\ ss = Fresh
  \/ ret = 1 /\ c = [key |-> Junk, ss |-> Junk] /\ ss = Junk /\ "enc" \in Faults

\* crypto_kem_dec(ss, ct, sk).  A ciphertext of another key is rejected,
\* with an error or with a secret that nobody else has.
Matching == IsMade(sk) /\ ct.key = sk
Decaps(ret, ss) ==
  \/ Matching  /\ ret = 0        /\ ss = ct.ss
  \/ ~Matching /\ ret \in {0, 1} /\ ss = Junk
  \/ Matching  /\ ret = 1        /\ ss = Junk /\ "dec" \in Faults
  \/ Matching  /\ ret = 0        /\ ss = Junk /\ "mismatch" \in Faults

\* What a call changes, wherever it is made.
CallKeypair(ret) ==
  /\ Count(Kg)
  /\ Keypair(ret, pk', sk')
  /\ draws' = draws + 1
  /\ faulty' = (faulty \/ ret # 0)
  /\ rekeyed' = TRUE
  /\ UNCHANGED <<seed, ct, s1, s2, hex>>

CallEncaps(ret) ==
  /\ Count(Enc)
  /\ Encaps(ret, ct', s1')
  /\ draws' = draws + 1
  /\ faulty' = (faulty \/ ret # 0)
  /\ rekeyed' = FALSE
  /\ UNCHANGED <<seed, pk, sk, s2, hex>>

CallDecaps(ret) ==
  /\ Count(Dec)
  /\ Decaps(ret, s2')
  /\ faulty' = (faulty \/ ret # 0 \/ s2' # s1)
  /\ UNCHANGED <<rng, pk, sk, ct, s1, rekeyed, hex>>

-----------------------------------------------------------------------------
Init ==
  /\ MainInit
  /\ pk = Zero /\ sk = Zero /\ s1 = Zero /\ s2 = Zero
  /\ ct = [key |-> Zero, ss |-> Zero]
  /\ hex = <<Zero, Zero>>
  /\ rekeyed = FALSE

(* test_alg() *)

\* The patterns that the buffers get, each its own.
Patterns ==
  /\ pk' = Fill("0x11") /\ sk' = Fill("0x22")
  /\ ct' = [key |-> Fill("0x33"), ss |-> Fill("0x33")]
  /\ s1' = Fill("0x44") /\ s2' = Fill("0x55")

\* Mutant of TestSeed: the seed is set for the first pass only.
TestSeed_Once ==
  /\ Goto("t_seed", "t_kg")
  /\ IF i = 0 THEN seed' = 0 /\ draws' = 0 ELSE UNCHANGED rng
  /\ Patterns
  /\ UNCHANGED <<ch, init_alg, i, n, r, host, hex, window, faulty, rekeyed>>

\* my_random_seed(i), and the patterns.
TestSeed ==
  /\ Goto("t_seed", "t_kg")
  /\ seed' = i /\ draws' = 0
  /\ Patterns
  /\ UNCHANGED <<ch, init_alg, i, n, r, host, hex, window, faulty, rekeyed>>

\* A call of the test: its return code is kept, and looked at.
Tested(from, to) ==
  /\ Goto(from, IF r' # 0 THEN "t_note" ELSE to)
  /\ UNCHANGED <<ch, init_alg, i, n, host>>

TestKeypair == CallKeypair(r') /\ Tested("t_kg", "t_enc")
TestEncaps == CallEncaps(r') /\ Tested("t_enc", "t_dec")
TestDecaps == CallDecaps(r') /\ Tested("t_dec", "t_cmp")

TestEqual ==
  /\ s1 = s2
  /\ PrintLine("t_cmp", "t_time")
  /\ UNCHANGED kemvars

\* Mutant of TestMismatch: the loop is left with the r of crypto_kem_dec().
TestMismatch_Pass ==
  /\ s1 # s2
  /\ hex' = <<s1, s1>>
  /\ Goto("t_cmp", "t_end")
  /\ UNCHANGED <<ch, buffers, init_alg, rng, i, n, r, host, window, faulty, rekeyed>>

\* "Shared secret mismatch!" and the two secrets: both lines print s1.
TestMismatch ==
  /\ s1 # s2
  /\ hex' = <<s1, s1>>
  /\ r' = -1
  /\ Goto("t_cmp", "t_end")
  /\ UNCHANGED <<ch, buffers, init_alg, rng, i, n, host, window, faulty, rekeyed>>

(* measure() *)

TimedKeypair == \E ret \in {0, 1} : Timed(Kg, ret) /\ CallKeypair(ret)

\* Mutant of TimedEncaps: the ciphertext goes into a buffer of its own.
TimedEncaps_Apart ==
  \E ret \in {0, 1} :
    /\ Timed(Enc, ret) /\ Count(Enc)
    /\ draws' = draws + 1 /\ rekeyed' = FALSE
    /\ s1' = Fresh
    /\ UNCHANGED <<seed, pk, sk, ct, s2, hex, faulty>>

TimedEncaps == \E ret \in {0, 1} : Timed(Enc, ret) /\ CallEncaps(ret)

TimedDecaps == \E ret \in {0, 1} : Timed(Dec, ret) /\ CallDecaps(ret)

-----------------------------------------------------------------------------
Calls == \/ TestSeed \/ TestKeypair \/ TestEncaps \/ TestDecaps \/ TestEqual \/ TestMismatch
         \/ TimedKeypair \/ TimedEncaps \/ TimedDecaps

Quiet == (Steps \/ MeasurePulse \/ MeasureWhile) /\ UNCHANGED kemvars

Device == Calls \/ Quiet

Next == Device \/ \E b \in Bytes : Receive(b) /\ UNCHANGED kemvars

\* The processor runs on and the KEM's functions return; that the host sends
\* anything is not assumed.
Spec == Init /\ [][Next]_vars /\ WF_vars(Device)

-----------------------------------------------------------------------------
(* Properties *)

Value == {Zero, Junk} \cup {Fill(b) : b \in {"0x11", "0x22", "0x33", "0x44", "0x55"}}
         \cup (Int \X Nat)

TypeOK ==
  /\ MainTypeOK
  /\ pc \in MainPcs \cup {"t_kg", "t_enc", "t_dec", "t_cmp"}
  /\ {pk, sk, s1, s2, ct.key, ct.ss, hex[1], hex[2]} \subseteq Value
  /\ rekeyed \in BOOLEAN

\* measure() never times an operation on something that is not a keypair:
\* it makes sure that there is one (main.cpp:345-347), whatever commands
\* came before.
KeypairBeforeUse == pc \in {"m_enc", "m_dec"} => HavePair

\* The verdict of test_alg() is right: it is PASS exactly when every call of
\* the test did what a KEM's should, and then the last pass agreed on a
\* secret under the keypair that is left behind (main.cpp:295-333).
VerdictRight ==
  pc = "t_end" => /\ r = 0 <=> ~faulty
                  /\ r = 0 => HavePair /\ ct.key = pk /\ s1 = s2 /\ IsMade(s1)

\* Every pass of test_alg() works on the keypair of its own seed, so that a
\* "i=%d" in a report says what to reproduce, whatever ran before it and
\* whatever seed a digit had set (main.cpp:287-295).
TestReproducible == pc = "t_enc" => pk = <<i, 0>>

\* A decapsulation is timed on a ciphertext that fits its key, unless keys
\* were made since the last encapsulation or that has failed: "a" and "e",
\* and the implicit test, always leave "d" a ciphertext to work on, while "k"
\* leaves it a stale one (main.cpp:345-384).
DecapsMatched == pc = "m_dec" /\ ~rekeyed /\ ct.key # Junk => Matching

\* When the shared secrets differ, the report shows both of them
\* (main.cpp:314-318).
MismatchShown == [][hex' # hex => hex' = <<s1, s2>>]_vars

=============================================================================
