------------------------------- MODULE Batch -------------------------------
(***************************************************************************)
(* test_alg.sh: for each target, build its firmware, flash it, and run     *)
(* psctrl.py, which is killed when 1000 seconds are over, wherever it is.  *)
(* The board and the PowerShield stay as that leaves them.                 *)
(*                                                                         *)
(* The first script is as if run by hand: PsCtrl says in what state it may *)
(* find the target and the shield.                                         *)
(***************************************************************************)
EXTENDS PsCtrl

CONSTANT Targets         \* bound: targets after the first

ASSUME TargetsAssumption == Targets \in Nat

VARIABLES
  left,            \* targets to come
  target,          \* history: the target of this turn of the loop is a KEM
  hex              \* BUILD/pqps.hex: {}, or whether it is the image of a KEM

batchvars == <<sysvars, left, target, hex>>

Over == Len(Script) + 1

-----------------------------------------------------------------------------
BatchInit ==
  /\ SysInit
  /\ left = Targets /\ target = build /\ hex = {build}

\* Mutant of Build: BUILD is not removed.
Build_KeepsHex ==
  /\ h = Over /\ left > 0
  /\ left' = left - 1
  /\ target' \in BOOLEAN
  /\ hex' \in {hex, {target'}}
  /\ Goto(0)
  /\ log' = <<>>
  /\ UNCHANGED <<kem, wires, shield, console, build>>

\* The next target: a new log, nothing left in BUILD, and make, which may fail.
Build ==
  /\ h = Over /\ left > 0
  /\ left' = left - 1
  /\ target' \in BOOLEAN
  /\ hex' \in {{}, {target'}}
  /\ Goto(0)
  /\ log' = <<>>
  /\ UNCHANGED <<kem, wires, shield, console, build>>

\* There is no image, or st-flash fails.
Skip ==
  /\ h = 0
  /\ Goto(Over)
  /\ UNCHANGED <<kem, log, wires, shield, console, build, left, target, hex>>

\* Building and flashing take longer than what is on the wires, and than an
\* acquisition.  The target runs again, and what it prints before the script
\* opens the line is lost.
FlashAndRun ==
  /\ h = 0
  /\ toTarg = <<>> /\ toPwsh = <<>> /\ acq = None
  /\ build' \in hex
  /\ \E n \in 0..2 : todo' = SubSeq(Start, n + 1, 3)
  /\ rx' = NoByte /\ ready' = FALSE /\ cur' = None
  /\ fromTarg' = <<>> /\ fromPwsh' = <<>>
  /\ Goto(1) /\ kem' = FALSE
  /\ UNCHANGED <<log, toTarg, toPwsh, shield, lost, left, target, hex>>

\* timeout(1) ends the script; what it has sent is on its way.
Timeout ==
  /\ Running
  /\ Goto(Over)
  /\ UNCHANGED <<kem, log, wires, shield, console, build, left, target, hex>>

Loop == Build \/ Skip \/ FlashAndRun

BatchNext == (SysNext /\ UNCHANGED <<left, target, hex>>) \/ Loop \/ Timeout

\* The shell runs on; that the time is up is not assumed.
BatchSpec == BatchInit /\ [][BatchNext]_batchvars /\ Fairness /\ WF_batchvars(Loop)

-----------------------------------------------------------------------------
(* Properties *)

\* Whatever the runs before it were stopped in, each log is a beginning of
\* the log of its own target: the report on the power of each command comes
\* in its place, and so do the rows of its cycles.  parselog.py goes by the
\* place alone (psctrl.py:148-194, parselog.py:102, test_alg.sh:24-34).
LogOfTarget == IsLog(log, target)

\* Every target is tried and the batch comes to its end, without the help of
\* the 1000 seconds: in whatever state a killed script left the board and the
\* shield, the next one does not wait for ever (test_alg.sh:21-37,
\* psctrl.py:59-98).
BatchEnds == <>(left = 0 /\ h = Over)

=============================================================================
