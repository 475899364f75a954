------------------------------ MODULE MCBatch ------------------------------
(***************************************************************************)
(* Batch with the bytes that the script sends, a PowerShield that refuses  *)
(* twice, and two targets after the first.                                 *)
(***************************************************************************)
EXTENDS Batch

MCBytes == {"a", "k", "e", "d", "s", "v", "z", "t", "\n"}

=============================================================================
