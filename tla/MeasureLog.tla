----------------------------- MODULE MeasureLog -----------------------------
(***************************************************************************)
(* The log of a measurement: what psctrl.py prints and parselog.py reads.  *)
(* Of its lines these matter:                                              *)
(*   <<"banner", k>>  the banner of the firmware, of a KEM if k            *)
(*   <<"watt", c>>    an "Acquisition time:" line that ends the report on  *)
(*                    the power drawn while c was measured                 *)
(*   <<"rows", c>>    the "***" rows that measuring c prints               *)
(***************************************************************************)
EXTENDS SequencesExt

None == "none"

\* The commands that time operations, in the order of psctrl.py.
Timing(kem) ==
  <<"a", "k", IF kem THEN "e" ELSE "s", IF kem THEN "d" ELSE "v">>

\* Each is followed by its report and its rows; the baseline has no rows.
WholeLog(kem) ==
  LET c == Timing(kem)
  IN  <<<<"banner", kem>>,
        <<"watt", c[1]>>, <<"rows", c[1]>>, <<"watt", c[2]>>, <<"rows", c[2]>>,
        <<"watt", c[3]>>, <<"rows", c[3]>>, <<"watt", c[4]>>, <<"rows", c[4]>>,
        <<"watt", "z">>>>

\* What may precede the banner: one that is printed before the script resets
\* the target, or the rows of a command that was not the script's.
Early(kem) == {<<>>, <<<<"banner", kem>>>>, <<<<"rows", None>>>>}

\* A script that is stopped leaves a beginning of a log.
IsLog(log, kem) ==
  \E e \in Early(kem) : IsPrefix(log, e \o WholeLog(kem))

=============================================================================
