---------------------------- MODULE MCCycleCount ----------------------------
(***************************************************************************)
(* CycleCount scaled down: a counter period of 64 cycles, a millisecond of *)
(* 4 cycles (so a period is not a whole number of milliseconds: ofl_ms is  *)
(* 15) and an int that covers four counter periods before it turns         *)
(* negative.  An operation takes less than a period or more than two.      *)
(***************************************************************************)
EXTENDS CycleCount

\* The commands a and e (or s); k and d differ from e in the index only.
MCFlagSets == {{1, 2, 3}, {2}}

=============================================================================
