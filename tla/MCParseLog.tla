----------------------------- MODULE MCParseLog -----------------------------
(***************************************************************************)
(* ParseLog with three logs of a KEM and a signature algorithm, on boards  *)
(* of two clocks.                                                          *)
(***************************************************************************)
EXTENDS ParseLog

=============================================================================
