----------------------------- MODULE BenchMain -----------------------------
(***************************************************************************)
(* The firmware (main.cpp): main(), zzz_ms(), and what test_alg() and      *)
(* measure() have in common in their two versions, the one for a KEM and   *)
(* the one for signatures.  KemBench and SignBench add the calls to the    *)
(* algorithm, with one action for each call, printed line and pulse.       *)
(*                                                                         *)
(* The actions here leave the variables of the algorithm open.             *)
(* Clock readings are abstracted to whether a time limit has passed; what  *)
(* else they are used for is the subject of CycleCount.                    *)
(***************************************************************************)
EXTENDS Commands

CONSTANTS
  Bytes,           \* the bytes the host may send
  NoByte,          \* an empty receive register
  MaxBytes,        \* bound: bytes sent in a behaviour
  MaxPass          \* bound: passes of a loop that its time limit leaves room for

ASSUME MainAssumption ==
  /\ NoByte \notin Bytes
  /\ MaxBytes \in Nat
  /\ MaxPass \in Nat \ {0}

VARIABLES
  pc, ch,          \* the place in main() and below; the byte getc() returned
  init_alg,        \* init_kem or init_sign
  seed, draws,     \* randombytes(): the last seed, and the draws since
  i, n,            \* passes of test_alg() and of measure()
  r,               \* the return code in test_alg(), the errors in measure()
  rx,              \* the receive register of the UART
  sent,            \* bytes the host has sent
  window,          \* history: calls of each operation since the pulse on D7, by whomever
  faulty           \* history: a call has gone wrong since getc() returned

rng == <<seed, draws>>
host == <<rx, sent>>
mainvars == <<pc, ch, init_alg, rng, i, n, r, host, window, faulty>>

NoCalls == [o \in Ops |-> 0]

\* What a call of operation o leaves in the history, wherever it is made.  No
\* measurement has more than MaxPass passes: MaxPass + 1 stands for any more.
Count(o) == window' = [window EXCEPT ![o] = IF @ > MaxPass THEN @ ELSE @ + 1]

-----------------------------------------------------------------------------
MainInit ==
  /\ pc = "boot" /\ ch = NoByte
  /\ init_alg = FALSE
  /\ seed = -1 /\ draws = 0
  /\ i = 0 /\ n = 0 /\ r = 0
  /\ rx = NoByte /\ sent = 0
  /\ window = NoCalls
  /\ faulty = FALSE

Goto(from, to) == pc = from /\ pc' = to

\* A step that prints and nothing else.
PrintLine(from, to) ==
  /\ Goto(from, to)
  /\ UNCHANGED <<ch, init_alg, rng, i, n, r, host, window, faulty>>

(* main() *)

Boot == PrintLine("boot", "input")

Input == PrintLine("input", "getc")

\* Mutant of Entry: no implicit test.
Entry_NoTest(c) ==
  IF IsMeasure(c) THEN "m_start"
  ELSE IF IsTest(c)  THEN "t_start"
  ELSE IF c = "z"    THEN "z_start"
  ELSE IF IsDigit(c) THEN "digit"
  ELSE IF c = "x"    THEN "done"
  ELSE "input"

\* Where the switch, the digit test and the loop condition take a byte.
Entry(c) ==
  IF IsMeasure(c) THEN IF NeedsTest(c, init_alg) THEN "t_start" ELSE "m_start"
  ELSE IF IsTest(c)  THEN "t_start"
  ELSE IF c = "z"    THEN "z_start"
  ELSE IF IsDigit(c) THEN "digit"
  ELSE IF c = "x"    THEN "done"
  ELSE "input"

Getc ==
  /\ rx # NoByte
  /\ Goto("getc", Entry(rx))
  /\ ch' = rx
  /\ rx' = NoByte
  /\ faulty' = FALSE
  /\ UNCHANGED <<init_alg, rng, i, n, r, sent, window>>

\* my_random_seed(ch - '0') and the line that says so.
SetSeed ==
  /\ Goto("digit", "input")
  /\ seed' = Digit(ch) /\ draws' = 0
  /\ UNCHANGED <<ch, init_alg, i, n, r, host, window, faulty>>

Done == PrintLine("done", "sleep")

(* zzz_ms() *)

ZzzStart == PrintLine("z_start", "z_d7")

ZzzPulse ==
  /\ Goto("z_d7", "z_end")
  /\ window' = NoCalls
  /\ UNCHANGED <<ch, init_alg, rng, i, n, r, host, faulty>>

ZzzEnd == PrintLine("z_end", "input")

(* test_alg() *)

TestStart ==
  /\ Goto("t_start", "t_seed")
  /\ i' = 0 /\ r' = 0
  /\ UNCHANGED <<ch, init_alg, rng, n, host, window, faulty>>

\* "... returned %d"
TestNote == PrintLine("t_note", "t_end")

\* Mutants of TestTime: i is incremented on the way out too; the timer is
\* not started, and always shows 0.
TestTime_CountsExit ==
  /\ i' = i + 1
  /\ \/ i' < MaxPass /\ Goto("t_time", "t_seed")
     \/ Goto("t_time", "t_end")
  /\ UNCHANGED <<ch, init_alg, rng, n, r, host, window, faulty>>

TestTime_Stopped ==
  /\ i' = (i + 1) % MaxPass /\ Goto("t_time", "t_seed")
  /\ UNCHANGED <<ch, init_alg, rng, n, r, host, window, faulty>>

\* The loop goes on until the timer shows more than ms_time.
TestTime ==
  /\ \/ i' = i + 1 /\ i' < MaxPass /\ Goto("t_time", "t_seed")
     \/ i' = i /\ Goto("t_time", "t_end")
  /\ UNCHANGED <<ch, init_alg, rng, n, r, host, window, faulty>>

\* Mutants of TestEnd: the measurement that asked for the test is forgotten;
\* the next command is read without a prompt.
TestEnd_Returns ==
  /\ Goto("t_end", "input")
  /\ init_alg' = TRUE
  /\ UNCHANGED <<ch, rng, i, n, r, host, window, faulty>>

TestEnd_NoPrompt ==
  /\ Goto("t_end", IF IsMeasure(ch) THEN "m_start" ELSE "getc")
  /\ init_alg' = TRUE
  /\ UNCHANGED <<ch, rng, i, n, r, host, window, faulty>>

\* "[END] PASS" or "[END] FAIL".  The flag is set whatever the result.
TestEnd ==
  /\ Goto("t_end", IF IsMeasure(ch) THEN "m_start" ELSE "input")
  /\ init_alg' = TRUE
  /\ UNCHANGED <<ch, rng, i, n, r, host, window, faulty>>

(* measure() *)

MeasureStart ==
  /\ Goto("m_start", "m_d7")
  /\ n' = 0 /\ r' = 0
  /\ UNCHANGED <<ch, init_alg, rng, i, host, window, faulty>>

\* Where the if (do_*) statements of measure() are.
OpPc == <<"m_kg", "m_enc", "m_dec">>

\* The first if (do_*) after operation o whose flag is set.
NextOp(o) ==
  IF \E p \in Flags(ch) : p > o
    THEN OpPc[CHOOSE p \in Flags(ch) : p > o /\ \A q \in Flags(ch) : q > o => p <= q]
    ELSE "m_while"

\* Mutant of MeasurePulse: the pulse was given before the implicit test.
MeasurePulse_Early ==
  /\ Goto("m_d7", NextOp(0))
  /\ n' = n + 1
  /\ UNCHANGED <<ch, init_alg, rng, i, r, host, window, faulty>>

\* The pulse on D7, and on to the first pass.
MeasurePulse ==
  /\ Goto("m_d7", NextOp(0))
  /\ n' = n + 1
  /\ window' = NoCalls
  /\ UNCHANGED <<ch, init_alg, rng, i, r, host, faulty>>

\* if (crypto_...) r++, where ret is what the call returned.
Timed(o, ret) ==
  /\ r' = r + (IF ret = 0 THEN 0 ELSE 1)
  /\ Goto(OpPc[o], NextOp(o))
  /\ UNCHANGED <<ch, init_alg, i, n, host>>

\* The loop goes on while the timer shows less than ms_time, which it never
\* does if that is 0.
MeasureWhile ==
  /\ \/ Long(ch) /\ n < MaxPass /\ n' = n + 1 /\ Goto("m_while", NextOp(0))
     \/ n' = n /\ Goto("m_while", "m_end")
  /\ UNCHANGED <<ch, init_alg, rng, i, r, host, window, faulty>>

MeasureEnd == PrintLine("m_end", "m_rows")

\* The averages, and the flag if there was key generation.
MeasureRows ==
  /\ Goto("m_rows", "input")
  /\ init_alg' = (init_alg \/ Kg \in Flags(ch))
  /\ UNCHANGED <<ch, rng, i, n, r, host, window, faulty>>

-----------------------------------------------------------------------------
\* A byte arrives.  A byte that finds the register taken is lost.
Receive(b) ==
  /\ sent < MaxBytes
  /\ sent' = sent + 1
  /\ rx' = IF rx = NoByte THEN b ELSE rx
  /\ UNCHANGED <<pc, ch, init_alg, rng, i, n, r, window, faulty>>

\* The steps that touch no buffer of the algorithm.
Steps == \/ Boot \/ Input \/ Getc \/ SetSeed \/ Done
         \/ ZzzStart \/ ZzzPulse \/ ZzzEnd
         \/ TestStart \/ TestNote \/ TestTime \/ TestEnd
         \/ MeasureStart \/ MeasureEnd \/ MeasureRows

-----------------------------------------------------------------------------
(* Properties *)

MainTypeOK ==
  /\ ch \in Bytes \cup {NoByte} /\ rx \in Bytes \cup {NoByte}
  /\ {init_alg, faulty} \subseteq BOOLEAN
  /\ seed \in Int /\ draws \in Nat
  /\ i \in 0..(MaxPass - 1) /\ n \in 0..MaxPass /\ r \in Int
  /\ sent \in 0..MaxBytes
  /\ window \in [Ops -> Nat]

MainPcs == {"boot", "input", "getc", "digit", "done", "sleep", "z_start", "z_d7", "z_end",
            "t_start", "t_seed", "t_note", "t_time", "t_end",
            "m_start", "m_d7", "m_kg", "m_enc", "m_dec", "m_while", "m_end", "m_rows"}

\* What is between the pulse on D7 and the "[END]" of a measurement is the
\* measured operations and nothing else: each as many times as the n that the
\* averages are divided by, and no other call of the algorithm, by measure()
\* or by an implicit test_alg() (main.cpp:191-238, 345-390).
WindowClean ==
  pc \in {"m_end", "m_rows"} =>
    window = [o \in Ops |-> IF o \in Flags(ch) THEN n ELSE 0]

\* After a command the firmware always comes back to its prompt, or to the
\* sleep that "x" asked for.
CommandReturns == pc = "getc" /\ rx # NoByte ~> pc \in {"input", "sleep"}

-----------------------------------------------------------------------------
(* The console that is implemented *)

\* What is left to do from each place in the code; in a test, from its verdict on.
Verdict(v) ==
  IF IsMeasure(ch) THEN <<v, "START", "D7", "END", "ROWS", "INPUT", "GETC">>
                   ELSE <<v, "INPUT", "GETC">>

Todo ==
  CASE pc = "boot"    -> <<"RESET", "INPUT", "GETC">>
    [] pc = "input"   -> <<"INPUT", "GETC">>
    [] pc = "getc"    -> <<"GETC">>
    [] pc = "digit"   -> <<"RANDOM", "INPUT", "GETC">>
    [] pc = "done"    -> <<"DONE", "SLEEP">>
    [] pc = "sleep"   -> <<"SLEEP">>
    [] pc = "z_start" -> <<"ZZZ", "D7", "END", "INPUT", "GETC">>
    [] pc = "z_d7"    -> <<"D7", "END", "INPUT", "GETC">>
    [] pc = "z_end"   -> <<"END", "INPUT", "GETC">>
    [] pc = "t_start" -> IF IsMeasure(ch)
                           THEN <<"TEST", "VERDICT", "START", "D7", "END", "ROWS", "INPUT", "GETC">>
                           ELSE <<"TEST", "VERDICT", "INPUT", "GETC">>
    [] pc = "t_end"   -> Verdict(IF r = 0 THEN "VERDICT" ELSE "FAIL")
    [] pc = "m_start" -> <<"START", "D7", "END", "ROWS", "INPUT", "GETC">>
    [] pc = "m_d7"    -> <<"D7", "END", "ROWS", "INPUT", "GETC">>
    [] pc \in {"m_kg", "m_enc", "m_dec", "m_while", "m_end"}
                      -> <<"END", "ROWS", "INPUT", "GETC">>
    [] pc = "m_rows"  -> <<"ROWS", "INPUT", "GETC">>
    [] OTHER          -> Verdict("VERDICT")

Console == INSTANCE BenchConsole WITH
  todo <- Todo,
  ready <- init_alg \/ (pc \notin {"boot", "input", "getc"} /\ (IsMeasure(ch) \/ IsTest(ch)))

\* The firmware prints the lines and gives the pulses that BenchConsole
\* promises, in that order, and gets on with them.
ImplementsConsole == Console!Spec

=============================================================================
