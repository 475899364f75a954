---------------------------- MODULE BenchConsole ----------------------------
(***************************************************************************)
(* What the firmware (main.cpp) promises to whoever is at the other end of *)
(* its serial line: the lines it prints and the trigger pulses it gives on *)
(* D7, for every command byte, and in which order.  What it computes in    *)
(* between is left to KemBench, which implements this module.              *)
(*                                                                         *)
(* todo is what the firmware is committed to do next: lines to print, D7   *)
(* for a pulse, GETC for waiting in getc(), SLEEP at the end of main().    *)
(* VERDICT stands for the "[END] PASS" line of test_alg(), or a report of  *)
(* what failed (NOTE) followed by its "[END] FAIL" line (FAIL).            *)
(***************************************************************************)
EXTENDS Commands

CONSTANTS
  Bytes,           \* the bytes the host may send
  NoByte           \* an empty receive register

ASSUME ConsoleAssumption == NoByte \notin Bytes

VARIABLES
  todo,            \* the events to come, up to the next GETC or SLEEP
  rx,              \* the receive register of the UART
  ready            \* init_kem or init_sign, once the command is done

vars == <<todo, rx, ready>>

-----------------------------------------------------------------------------
(* What a command commits the firmware to *)

Start == <<"RESET", "INPUT", "GETC">>

Work(b, init) ==
  IF IsMeasure(b)
    THEN IF NeedsTest(b, init)
           THEN <<"TEST", "VERDICT", "START", "D7", "END", "ROWS", "INPUT", "GETC">>
           ELSE <<"START", "D7", "END", "ROWS", "INPUT", "GETC">>
    ELSE IF IsTest(b)  THEN <<"TEST", "VERDICT", "INPUT", "GETC">>
    ELSE IF b = "z"    THEN <<"ZZZ", "D7", "END", "INPUT", "GETC">>
    ELSE IF IsDigit(b) THEN <<"RANDOM", "INPUT", "GETC">>
    ELSE IF b = "x"    THEN <<"DONE", "SLEEP">>
    ELSE <<"INPUT", "GETC">>

-----------------------------------------------------------------------------
Init ==
  /\ todo = Start
  /\ rx = NoByte
  /\ ready = FALSE

Silent == {"D7", "GETC", "SLEEP", "VERDICT"}

\* The line Head(todo) goes out.  The UART has no flow control: printf never waits.
SendLine ==
  /\ Head(todo) \notin Silent
  /\ todo' = Tail(todo)
  /\ UNCHANGED <<rx, ready>>

Pass ==
  /\ Head(todo) = "VERDICT"
  /\ todo' = Tail(todo)
  /\ UNCHANGED <<rx, ready>>

\* A failure is reported before the verdict on it.
Note ==
  /\ Head(todo) = "VERDICT"
  /\ todo' = [todo EXCEPT ![1] = "FAIL"]
  /\ UNCHANGED <<rx, ready>>

Pulse ==
  /\ Head(todo) = "D7"
  /\ todo' = Tail(todo)
  /\ UNCHANGED <<rx, ready>>

\* getc() returns, and the switch is run on what it returned.
Getc ==
  /\ Head(todo) = "GETC"
  /\ rx # NoByte
  /\ todo' = Work(rx, ready)
  /\ ready' = (ready \/ IsMeasure(rx) \/ IsTest(rx))
  /\ rx' = NoByte

\* A byte arrives.  The register holds one: a byte that finds it taken is
\* lost (overrun), the older one stays.
Receive(b) ==
  /\ rx' = IF rx = NoByte THEN b ELSE rx
  /\ UNCHANGED <<todo, ready>>

Device == SendLine \/ Pass \/ Note \/ Pulse \/ Getc

Next == Device \/ \E b \in Bytes : Receive(b)

\* The processor runs on; the host need not send anything.
Spec == Init /\ [][Next]_vars /\ WF_vars(Device)

=============================================================================
