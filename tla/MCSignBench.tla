---------------------------- MODULE MCSignBench ----------------------------
(***************************************************************************)
(* SignBench with a host that sends up to three bytes at any time: a test, *)
(* the measurements of psctrl.py, a short one, the baseline, the end, and  *)
(* the newline that follows each command of psctrl.py.                     *)
(***************************************************************************)
EXTENDS SignBench

MCBytes == {"a", "k", "s", "v", "V", "T", "z", "x", "\n"}

=============================================================================
