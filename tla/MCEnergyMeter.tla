--------------------------- MODULE MCEnergyMeter ---------------------------
(***************************************************************************)
(* EnergyMeter with four calls in a pass, three of them timed, so that a   *)
(* measurement takes one to three passes, and a counter of 40 microjoules  *)
(* that starts near zero or near its end, where it wraps.                  *)
(***************************************************************************)
EXTENDS EnergyMeter

=============================================================================
