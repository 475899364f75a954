----------------------------- MODULE MCReadData -----------------------------
(***************************************************************************)
(* ReadData on up to four lines of joules of three measurements: one of a  *)
(* KEM, without a size, and two sizes of a signature algorithm.            *)
(***************************************************************************)
EXTENDS ReadData

MCMeasurements ==
  {<<"bike", "-", "kem_enc">>, <<"falcon", "16", "sign_do">>, <<"falcon", "21", "sign_do">>}

\* With the joules of a measurement during which the counter wrapped.
MCNJoules == {-3, 3, 4}

=============================================================================
