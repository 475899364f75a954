----------------------------- MODULE SignBench -----------------------------
(***************************************************************************)
(* The firmware built for a signature algorithm (main.cpp with TEST_SIGN): *)
(* BenchMain with the calls that test_alg() and measure() make to it.      *)
(*                                                                         *)
(* The algorithm is external: the crypto_sign_* functions that are linked  *)
(* in.  A keypair is named after the seed and the draws before it, a       *)
(* message after the pass that wrote it, and a signature is a record of    *)
(* the key and the message it is of, and of whether a byte was changed.    *)
(***************************************************************************)
EXTENDS BenchMain

CONSTANT Faults     \* what the algorithm may do wrong

ASSUME SignAssumption == Faults \subseteq {"keypair", "sign", "long", "open", "forge"}

VARIABLES
  m, pk, sk, sm,   \* the signing state, main.cpp:107-112
  toolong,         \* sm_len > CRYPTO_BYTES + MESSAGE_BYTES
  signed,          \* history: nothing has been done to pk and sm since signing
  wrong            \* history: the algorithm has opened what it should not

signvars == <<m, pk, sk, sm, toolong, signed, wrong>>
vars == <<mainvars, signvars>>

-----------------------------------------------------------------------------
(* The external algorithm *)

Zero == <<"zero">>
Junk == <<"junk">>
Fill(b) == <<b>>
Signature(key, msg) == [key |-> key, msg |-> msg, intact |-> TRUE]
NoSignature(b) == Signature(b, b)

Fresh == <<seed, draws>>
IsMade(x) == Len(x) = 2
HavePair == IsMade(pk) /\ sk = pk

\* crypto_sign_keypair(pk, sk)
Keypair(ret, p, s) ==
  \/ ret = 0 /\ p = Fresh /\ s = Fresh
  \/ ret = 1 /\ p = Junk  /\ s = Junk /\ "keypair" \in Faults

\* crypto_sign(sm, &sm_len, m, MESSAGE_BYTES, sk)
Sign(ret, x, long) ==
  \/ ret = 0 /\ x = Signature(sk, m)  /\ long \in {FALSE, "long" \in Faults}
  \/ ret = 1 /\ x = NoSignature(Junk) /\ long = FALSE /\ "sign" \in Faults

\* crypto_sign_open(m, &m_len, sm, sm_len, pk): the message is m again if
\* the signature is good, and cleared or left alone if it is not.
Valid == IsMade(pk) /\ sm.key = pk /\ sm.intact
Open(ret, x) ==
  \/ Valid  /\ ret = 0 /\ x = sm.msg
  \/ ~Valid /\ ret = 1 /\ x \in {m, Junk}
  \/ Valid  /\ ret = 1 /\ x = Junk   /\ "open" \in Faults
  \/ ~Valid /\ ret = 0 /\ x = sm.msg /\ "forge" \in Faults

\* What a call changes, wherever it is made.
CallKeypair(ret) ==
  /\ Count(Kg)
  /\ Keypair(ret, pk', sk')
  /\ draws' = draws + 1
  /\ faulty' = (faulty \/ ret # 0)
  /\ signed' = FALSE
  /\ UNCHANGED <<seed, m, sm, toolong, wrong>>

CallSign(ret) ==
  /\ Count(Enc)
  /\ Sign(ret, sm', toolong')
  /\ draws' = draws + 1
  /\ faulty' = (faulty \/ ret # 0)
  /\ signed' = (ret = 0)
  /\ UNCHANGED <<seed, m, pk, sk, wrong>>

CallOpen(ret) ==
  /\ Count(Dec)
  /\ Open(ret, m')
  /\ faulty' = (faulty \/ (Valid /\ ret # 0))
  /\ wrong' = (wrong \/ (~Valid /\ ret = 0))
  /\ UNCHANGED <<rng, pk, sk, sm, toolong, signed>>

-----------------------------------------------------------------------------
Init ==
  /\ MainInit
  /\ m = Zero /\ pk = Zero /\ sk = Zero /\ sm = NoSignature(Zero)
  /\ toolong = FALSE
  /\ signed = FALSE /\ wrong = FALSE

(* test_alg() *)

\* my_random_seed(i), and every buffer gets a pattern of its own.
TestSeed ==
  /\ Goto("t_seed", "t_kg")
  /\ seed' = i /\ draws' = 0
  /\ m' = Fill("0x11") /\ pk' = Fill("0x22") /\ sk' = Fill("0x33")
  /\ sm' = NoSignature(Fill("0x44"))
  /\ signed' = FALSE
  /\ wrong' = FALSE
  /\ UNCHANGED <<ch, init_alg, i, n, r, host, toolong, window, faulty>>

\* A call of the test: its return code is kept, and looked at.
Tested(from, to) ==
  /\ Goto(from, IF r' # 0 THEN "t_note" ELSE to)
  /\ UNCHANGED <<ch, init_alg, i, n, host>>

TestKeypair == CallKeypair(r') /\ Tested("t_kg", "t_enc")
TestSign == CallSign(r') /\ Tested("t_enc", IF toolong' THEN "t_long" ELSE "t_dec")

\* "(Signature of %d bytes is %d bytes.)": a remark, and no failure.
TestLong == PrintLine("t_long", "t_dec") /\ UNCHANGED signvars

TestOpen == CallOpen(r') /\ Tested("t_dec", "t_corrupt")

\* Mutant of TestCorrupt: nothing is changed.
TestCorrupt_Nothing ==
  /\ Goto("t_corrupt", "t_bad")
  /\ signed' = FALSE
  /\ UNCHANGED <<ch, init_alg, rng, i, n, r, host, window, faulty>>
  /\ UNCHANGED <<m, pk, sk, sm, toolong, wrong>>

\* sm[0]++
TestCorrupt ==
  /\ Goto("t_corrupt", "t_bad")
  /\ sm' = [sm EXCEPT !.intact = FALSE]
  /\ signed' = FALSE
  /\ UNCHANGED <<ch, init_alg, rng, i, n, r, host, window, faulty>>
  /\ UNCHANGED <<m, pk, sk, toolong, wrong>>

\* Mutant of TestBad: r is left as crypto_sign_open() returned it.
TestBad_KeepsR ==
  /\ CallOpen(r')
  /\ Goto("t_bad", IF r' = 0 THEN "t_note" ELSE "t_time")
  /\ UNCHANGED <<ch, init_alg, i, n, host>>

\* The corrupt signature must not open.
TestBad ==
  /\ \E ret \in {0, 1} :
       /\ CallOpen(ret)
       /\ IF ret = 0 THEN r' = -1 /\ Goto("t_bad", "t_note")
                     ELSE r' = 0  /\ Goto("t_bad", "t_time")
  /\ UNCHANGED <<ch, init_alg, i, n, host>>

(* measure() *)

\* Mutant of Pass: the message is written before the loop.
Pass_Once ==
  /\ MeasurePulse \/ (MeasureWhile /\ pc' # "m_end")
  /\ m' = IF pc = "m_d7" THEN <<"pass", n'>> ELSE m
  /\ UNCHANGED <<pk, sk, sm, toolong, signed, wrong>>

\* memcpy(m, &n, sizeof(n)) at the top of a pass.
Pass ==
  /\ MeasurePulse \/ (MeasureWhile /\ pc' # "m_end")
  /\ m' = <<"pass", n'>>
  /\ UNCHANGED <<pk, sk, sm, toolong, signed, wrong>>

LastPass == MeasureWhile /\ pc' = "m_end" /\ UNCHANGED signvars

TimedKeypair == \E ret \in {0, 1} : Timed(Kg, ret) /\ CallKeypair(ret)

\* Mutant of TimedSign: the message is signed into a buffer of its own.
TimedSign_Apart ==
  \E ret \in {0, 1} :
    /\ Timed(Enc, ret) /\ Count(Enc)
    /\ draws' = draws + 1 /\ signed' = (ret = 0)
    /\ UNCHANGED <<seed, m, pk, sk, sm, toolong, wrong, faulty>>

TimedSign == \E ret \in {0, 1} : Timed(Enc, ret) /\ CallSign(ret)

TimedOpen == \E ret \in {0, 1} : Timed(Dec, ret) /\ CallOpen(ret)

-----------------------------------------------------------------------------
Calls == \/ TestSeed \/ TestKeypair \/ TestSign \/ TestLong \/ TestOpen
         \/ TestCorrupt \/ TestBad
         \/ Pass \/ LastPass \/ TimedKeypair \/ TimedSign \/ TimedOpen

Quiet == Steps /\ UNCHANGED signvars

Device == Calls \/ Quiet

Next == Device \/ \E b \in Bytes : Receive(b) /\ UNCHANGED signvars

\* The processor runs on and the algorithm's functions return.
Spec == Init /\ [][Next]_vars /\ WF_vars(Device)

-----------------------------------------------------------------------------
(* Properties *)

Patterns == {Zero, Junk} \cup {Fill(b) : b \in {"0x11", "0x22", "0x33", "0x44"}}

TypeOK ==
  /\ MainTypeOK
  /\ pc \in MainPcs \cup {"t_kg", "t_enc", "t_long", "t_dec", "t_corrupt", "t_bad"}
  /\ {pk, sk, sm.key} \subseteq Patterns \cup (Int \X Nat)
  /\ {m, sm.msg} \subseteq Patterns \cup {<<"pass", p>> : p \in 1..MaxPass}
  /\ {toolong, signed, wrong, sm.intact} \subseteq BOOLEAN

\* The verdict of test_alg() is right: FAIL if a call failed that should not
\* have, or a signature opened that should not have, PASS if not; and PASS
\* leaves a keypair, and its signature with a byte changed (main.cpp:134-180).
VerdictRight ==
  pc = "t_end" => /\ r = 0 <=> ~faulty /\ ~wrong
                  /\ r = 0 => HavePair /\ sm.key = pk /\ ~sm.intact

\* measure() never signs or opens without a keypair (main.cpp:191-193).
KeypairBeforeUse == pc \in {"m_enc", "m_dec"} => HavePair

\* A verification is timed on a good signature if the last call that made
\* one was not followed by a key generation or a test.  That is what
\* psctrl.py relies on when it sends "v" after "s"; a "v" that is the first
\* command, or that follows "k" or a test, times a rejection
\* (main.cpp:159-167, 225-230).
VerifyMatched == pc = "m_dec" /\ signed => Valid

\* Whatever was signed and opened, the message at a timed signing is the
\* number of its pass: no two passes of a measurement sign the same message
\* (main.cpp:209).
MessageFresh == pc \in {"m_kg", "m_enc"} => m = <<"pass", n>>

=============================================================================
