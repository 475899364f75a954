----------------------------- MODULE MCKemBench -----------------------------
(***************************************************************************)
(* KemBench with a host that sends up to three bytes at any time: a test,   *)
(* every measurement of psctrl.py, a short one, the baseline, a seed, the  *)
(* end, and the newline that follows each command of psctrl.py.            *)
(***************************************************************************)
EXTENDS KemBench

MCBytes == {"a", "k", "e", "d", "D", "T", "z", "5", "x", "\n"}

=============================================================================
