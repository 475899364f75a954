------------------------- MODULE MCSupercopMeasure -------------------------
(***************************************************************************)
(* The six programs for two rounds each, over messages of up to 6 bytes.   *)
(* Labels are to base 7, the smallest with LabelAssumption.  Ciphertexts   *)
(* are as long as their messages, so that there is an empty one.           *)
(***************************************************************************)
EXTENDS SupercopMeasure

AllPrimitives == {"kem", "sign", "encrypt", "aead", "hash", "stream"}

=============================================================================
