------------------------------- MODULE PsCtrl -------------------------------
(***************************************************************************)
(* The measurement set-up: the script psctrl.py on the host, two serial    *)
(* lines, the firmware as BenchConsole describes it, and the PowerShield.  *)
(*                                                                         *)
(* The PowerShield is external, and modelled from what the script expects  *)
(* of it: it takes commands in order and answers each; once started with   *)
(* the trigger on D7 it acquires for ten seconds after an edge, sends a    *)
(* sample every 100 ms, reports, and waits for the next edge; "targrst_1"  *)
(* cuts the power of the target, which boots again.  Its answers to        *)
(* "status" and "trigsrc_d7" may at first be refusals.                     *)
(*                                                                         *)
(* Time.  A read of the script gives up after a second of silence.  What   *)
(* takes milliseconds (a byte on the wire, a printed line, an answer of    *)
(* the shield) is over by then; what takes seconds (an operation of the    *)
(* firmware, the power cut) may or may not be.                             *)
(***************************************************************************)
EXTENDS BenchConsole, MeasureLog

CONSTANT MaxRefusals     \* bound: refusals of the PowerShield

ASSUME RefusalAssumption == MaxRefusals \in Nat

\* What the script sends to the target.
Letters == {"a", "k", "e", "d", "s", "v", "z", "t"}

ASSUME BytesAssumption == Letters \cup {"\n"} \subseteq Bytes

VARIABLES
  h,               \* the statement of the script that is run next
  seen,            \* r of targ_get_str() and the like: what was read
  asked,           \* pwsh_get_ok() has sent "status" and is reading
  kem,             \* the script takes the target for a KEM
  toTarg, fromTarg,      \* the target's serial line
  toPwsh, fromPwsh,      \* the PowerShield's
  trig, armed, acq,      \* the PowerShield: trigger source, started, the
                         \* command whose pulse it acquires for
  refusals,        \* refusals of the PowerShield so far
  build,           \* the firmware is that of a KEM
  cur,             \* history: the last command byte getc() returned
  lost,            \* history: bytes that met a full receive register
  log              \* what the script has printed, see MeasureLog

script == <<h, seen, asked, kem, log>>
wires == <<toTarg, fromTarg, toPwsh, fromPwsh>>
shield == <<trig, armed, acq, refusals>>
console == <<todo, rx, ready, cur, lost>>
sysvars == <<script, wires, shield, console, build>>

-----------------------------------------------------------------------------
(* The script.  The commands that only set up the display or the format    *)
(* (htc, temp, volt, lcd, output, format, freq, acqtime, acqmode) are left *)
(* out: the shield's answers to them are read and not looked at.  In a     *)
(* command and its answer _ stands for a space.                            *)

Resp == [do |-> "resp", arg |-> None]
GetOk == [do |-> "ok", arg |-> None]
Pwsh(cmd) == [do |-> "pwsh", arg |-> cmd]
Targ(cmd) == [do |-> "targ", arg |-> cmd]
TargGetStr(st) == [do |-> "targ_get_str", arg |-> st]
PwshGetStr(st) == [do |-> "pwsh_get_str", arg |-> st]
TrigD7 == [do |-> "trig", arg |-> None]

\* A command and the wait for its acquisition and its end.
Section(c) == <<Targ(c), PwshGetStr("completed"), TargGetStr("END")>>

\* Mutant of Setup: the target's line is drained after the reset.
Setup_LateResp ==
  <<GetOk, Pwsh("stop"), Pwsh("trigsrc_sw"), Pwsh("targrst_1"), GetOk, Resp,
    TrigD7, Pwsh("start"), GetOk, TargGetStr("INPUT")>>

Setup ==
  <<Resp, GetOk, Pwsh("stop"), Pwsh("trigsrc_sw"), Pwsh("targrst_1"), GetOk,
    TrigD7, Pwsh("start"), GetOk, TargGetStr("INPUT")>>

\* What is measured, and the byte that asks for it.
Byte(section) ==
  [all      |-> "a",
   keygen   |-> "k",
   encaps   |-> IF kem THEN "e" ELSE "s",
   decaps   |-> IF kem THEN "d" ELSE "v",
   baseline |-> "z",
   test     |-> "t"][section]

Script ==
  Setup \o Section("all") \o Section("keygen") \o Section("encaps")
        \o Section("decaps") \o Section("baseline")
        \o <<Targ("test"), TargGetStr("END"), Pwsh("trigsrc_sw"), GetOk>>

Running == h \in 1..Len(Script)
Stmt == Script[h]
At(do) == Running /\ Stmt.do = do

ReadsTarg == At("resp") \/ At("targ_get_str")
ReadsPwsh == (At("ok") /\ asked) \/ At("pwsh_get_str") \/ At("trig")

-----------------------------------------------------------------------------
\* The script may find the target in any state of an earlier run, in the
\* middle of a measurement included, and the shield armed; opening the
\* serial lines empties their buffers.
SysInit ==
  /\ todo \in {Start, <<"GETC">>, <<"END", "ROWS", "INPUT", "GETC">>, <<"SLEEP">>}
  /\ rx = NoByte /\ ready \in BOOLEAN
  /\ h = 1 /\ seen = {} /\ asked = FALSE /\ kem = FALSE
  /\ toTarg = <<>> /\ fromTarg = <<>> /\ toPwsh = <<>> /\ fromPwsh = <<>>
  /\ trig \in {"sw", "d7"} /\ armed = (trig = "d7") /\ acq = None
  /\ refusals = 0
  /\ build \in BOOLEAN
  /\ cur = None /\ lost = {} /\ log = <<>>

(* The target and its line *)

\* A line, with what the log needs to know of it.
Printed(line) == CASE line = "ROWS"  -> <<"ROWS", cur>>
                   [] line = "RESET" -> <<"RESET", build>>
                   [] OTHER          -> <<line>>
Emit(line) == fromTarg' = Append(fromTarg, Printed(line))

TargPrint ==
  /\ SendLine
  /\ Emit(IF Head(todo) = "FAIL" THEN "END" ELSE Head(todo))
  /\ UNCHANGED <<script, toTarg, toPwsh, fromPwsh, shield, cur, lost, build>>

TargVerdict ==
  /\ \/ Pass /\ Emit("END")
     \/ Note /\ Emit("NOTE")
  /\ UNCHANGED <<script, toTarg, toPwsh, fromPwsh, shield, cur, lost, build>>

\* The edge on D7 starts an acquisition if the shield waits for one.
TargPulse ==
  /\ Pulse
  /\ acq' = IF armed /\ trig = "d7" /\ acq = None THEN cur ELSE acq
  /\ UNCHANGED <<script, wires, trig, armed, refusals, cur, lost, build>>

\* Mutant of TargGetc: a newline is a command.
TargGetc_Newline ==
  /\ Getc
  /\ cur' = rx
  /\ UNCHANGED <<script, wires, shield, lost, build>>

TargGetc ==
  /\ Getc
  /\ cur' = IF rx = "\n" THEN cur ELSE rx
  /\ UNCHANGED <<script, wires, shield, lost, build>>

WireByte ==
  /\ toTarg # <<>>
  /\ Receive(Head(toTarg))
  /\ toTarg' = Tail(toTarg)
  /\ lost' = IF rx = NoByte THEN lost ELSE lost \cup {Head(toTarg)}
  /\ UNCHANGED <<script, fromTarg, toPwsh, fromPwsh, shield, cur, build>>

Target == TargPrint \/ TargVerdict \/ TargPulse \/ TargGetc

(* The PowerShield *)

Answer(x) == toPwsh' = Tail(toPwsh) /\ fromPwsh' = Append(fromPwsh, <<x>>)

Reply(cmd) == CASE cmd = "status"     -> "status_ok"
                [] cmd = "trigsrc_d7" -> "ack_trigsrc_d7"
                [] OTHER              -> "ack"

ShieldRefuses ==
  /\ toPwsh # <<>> /\ Head(toPwsh) \in {"status", "trigsrc_d7"}
  /\ refusals < MaxRefusals /\ refusals' = refusals + 1
  /\ Answer("error")
  /\ UNCHANGED <<script, toTarg, fromTarg, trig, armed, acq, console, build>>

ShieldTakes(cmd) ==
  /\ toPwsh # <<>> /\ Head(toPwsh) = cmd
  /\ Answer(Reply(cmd))
  /\ trig' = CASE cmd = "trigsrc_d7" -> "d7" [] cmd = "trigsrc_sw" -> "sw" [] OTHER -> trig
  /\ armed' = CASE cmd = "start" -> TRUE [] cmd = "stop" -> FALSE [] OTHER -> armed
  /\ acq' = IF cmd = "stop" THEN None ELSE acq
  /\ UNCHANGED <<script, toTarg, fromTarg, refusals, build>>
  /\ IF cmd = "targrst_1"
       THEN /\ todo' = Start /\ rx' = NoByte /\ ready' = FALSE
            /\ UNCHANGED <<cur, lost>>
       ELSE UNCHANGED console

\* Ten seconds after the edge.
ShieldReport ==
  /\ acq # None
  /\ fromPwsh' = Append(fromPwsh, <<"completed", acq>>)
  /\ acq' = None
  /\ UNCHANGED <<script, toTarg, fromTarg, toPwsh, trig, armed, refusals, console, build>>

PwshCmds == {"status", "stop", "start", "trigsrc_sw", "trigsrc_d7", "targrst_1"}
Shield == ShieldRefuses \/ (\E cmd \in PwshCmds : ShieldTakes(cmd)) \/ ShieldReport

(* The host *)

Goto(to) == h' = to /\ seen' = {} /\ asked' = FALSE

PwshCmd ==
  /\ At("pwsh")
  /\ toPwsh' = Append(toPwsh, Stmt.arg)
  /\ Goto(h + 1)
  /\ UNCHANGED <<kem, log, toTarg, fromTarg, fromPwsh, shield, console, build>>

\* The command byte is followed by a newline, to which the firmware answers
\* with another prompt.
TargCmd ==
  /\ At("targ")
  /\ toTarg' = toTarg \o <<Byte(Stmt.arg), "\n">>
  /\ Goto(h + 1)
  /\ UNCHANGED <<kem, log, fromTarg, toPwsh, fromPwsh, shield, console, build>>

\* pwsh_get_ok() asks, and asks again.
AskStatus ==
  /\ At("ok") /\ ~asked
  /\ asked' = TRUE
  /\ toPwsh' = Append(toPwsh, "status")
  /\ UNCHANGED <<h, seen, kem, log, toTarg, fromTarg, fromPwsh, shield, console, build>>

\* What a line adds to the log.
Logged(l, line) == CASE line[1] = "RESET" -> Append(l, <<"banner", line[2]>>)
                     [] line[1] = "ROWS"  -> Append(l, <<"rows", line[2]>>)
                     [] OTHER             -> l

\* What is read is printed when the line has become quiet.  A script that is
\* killed before that leaves less of the log: a beginning of it all the same.
ReadTarg ==
  /\ ReadsTarg /\ fromTarg # <<>>
  /\ seen' = seen \cup {Head(fromTarg)[1]}
  /\ log' = Logged(log, Head(fromTarg))
  /\ fromTarg' = Tail(fromTarg)
  /\ UNCHANGED <<h, asked, kem, toTarg, toPwsh, fromPwsh, shield, console, build>>

ReadPwsh ==
  /\ ReadsPwsh /\ fromPwsh # <<>>
  /\ LET reply == Head(fromPwsh)
     IN  /\ seen' = seen \cup {reply[1]}
         /\ log' = IF reply[1] = "completed" /\ ~At("trig")
                     THEN Append(log, <<"watt", reply[2]>>) ELSE log
  /\ fromPwsh' = Tail(fromPwsh)
  /\ UNCHANGED <<h, asked, kem, toTarg, fromTarg, toPwsh, shield, console, build>>

\* A second without a byte.  The shield sends samples while it acquires.  A
\* power cut takes a second: one status request may go unanswered for it.
Slow == \/ Head(todo) \in {"VERDICT", "END", "SLEEP"}
        \/ Head(todo) = "GETC" /\ rx = NoByte
Settled == /\ toTarg = <<>>
           /\ Slow
           /\ toPwsh \in {<<>>, <<"targrst_1", "status">>}
Silence == /\ Settled
           /\ ReadsTarg => fromTarg = <<>>
           /\ ReadsPwsh => fromPwsh = <<>> /\ acq = None

\* Mutant of Found: the substring is enough, the silence is not waited for.
Found_Eager ==
  /\ At("targ_get_str") \/ At("pwsh_get_str")
  /\ Stmt.arg \in seen
  /\ kem' = IF Stmt.arg = "INPUT" THEN build /\ "RESET" \in seen ELSE kem
  /\ Goto(h + 1)
  /\ UNCHANGED <<log, wires, shield, console, build>>

\* targ_get_str() and pwsh_get_str() look at what they have read when it has
\* become quiet, and go on reading if it is not what they wait for.  What
\* came with "[INPUT]" tells whether the target is a KEM: the banner that
\* it prints at reset says so.
Found ==
  /\ At("targ_get_str") \/ At("pwsh_get_str")
  /\ Silence
  /\ Stmt.arg \in seen
  /\ kem' = IF Stmt.arg = "INPUT" THEN build /\ "RESET" \in seen ELSE kem
  /\ Goto(h + 1)
  /\ UNCHANGED <<log, wires, shield, console, build>>

RespDone ==
  /\ At("resp") /\ Silence
  /\ Goto(h + 1)
  /\ UNCHANGED <<kem, log, wires, shield, console, build>>

OkDone ==
  /\ At("ok") /\ asked /\ Silence
  /\ IF "status_ok" \in seen THEN Goto(h + 1) ELSE asked' = FALSE /\ UNCHANGED <<h, seen>>
  /\ UNCHANGED <<kem, log, wires, shield, console, build>>

\* The loop that sets the trigger forgets what it read before.
TrigDone ==
  /\ At("trig") /\ Silence
  /\ IF "ack_trigsrc_d7" \in seen
       THEN Goto(h + 1) /\ UNCHANGED toPwsh
       ELSE Goto(h) /\ toPwsh' = Append(toPwsh, "trigsrc_d7")
  /\ UNCHANGED <<kem, log, toTarg, fromTarg, fromPwsh, shield, console, build>>

Host == \/ PwshCmd \/ TargCmd \/ AskStatus \/ ReadTarg \/ ReadPwsh
        \/ Found \/ RespDone \/ OkDone \/ TrigDone

SysNext == Target \/ WireByte \/ Shield \/ Host

\* Each part runs on by itself.
Fairness == /\ WF_sysvars(Target) /\ WF_sysvars(WireByte)
            /\ WF_sysvars(Shield) /\ WF_sysvars(Host)

-----------------------------------------------------------------------------
(* Properties *)

Words == {"RESET", "INPUT", "START", "END", "ROWS", "TEST", "NOTE", "ZZZ", "RANDOM", "DONE"}
Lines == {<<w>> : w \in Words \ {"RESET", "ROWS"}} \cup ({"RESET"} \X BOOLEAN)
         \cup ({"ROWS"} \X (Letters \cup {None}))
Replies == {"status_ok", "ack_trigsrc_d7", "ack", "error"}

TypeOK ==
  /\ h \in 0..(Len(Script) + 1)
  /\ seen \subseteq Words \cup Replies \cup {"completed"}
  /\ {asked, kem, armed, build, ready} \subseteq BOOLEAN
  /\ toTarg \in Seq(Bytes) /\ fromTarg \in Seq(Lines)
  /\ toPwsh \in Seq(PwshCmds)
  /\ fromPwsh \in Seq({<<x>> : x \in Replies} \cup {<<"completed", c>> : c \in Letters})
  /\ trig \in {"sw", "d7"} /\ acq \in Letters \cup {None}
  /\ refusals \in 0..MaxRefusals
  /\ rx \in Bytes \cup {NoByte} /\ cur \in Letters \cup {None} /\ lost \subseteq Bytes
  /\ log \in Seq({"banner"} \X BOOLEAN \cup {"watt", "rows"} \X (Letters \cup {None}))

\* No command is lost in the one-byte receive register of the target,
\* although each is followed by a newline that the firmware reads only when
\* the command is done (psctrl.py:34-35, main.cpp:448).
NoCommandLost == lost \subseteq {"\n"}

\* When the measurements begin the script has seen the banner of the target
\* that was just reset, and not taken an earlier prompt for the one after it
\* (psctrl.py:131-136).
Identified == Running /\ h > Len(Setup) => kem = build

=============================================================================
