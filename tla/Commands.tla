------------------------------ MODULE Commands ------------------------------
(***************************************************************************)
(* The command bytes of the firmware, as the switch in main() (main.cpp)   *)
(* understands them.                                                       *)
(***************************************************************************)
EXTENDS Integers, Sequences

\* The operations measure() can time: key generation, encapsulation or
\* signing, decapsulation or verification, in the order it runs them.
Kg == 1
Enc == 2
Dec == 3
Ops == {Kg, Enc, Dec}

\* The operations whose do_* flag a command sets.
Flags(c) ==
  {o \in Ops : \/ o = Kg  /\ c \in {"a", "A", "k", "K"}
               \/ o = Enc /\ c \in {"a", "A", "e", "E", "s", "S"}
               \/ o = Dec /\ c \in {"a", "A", "d", "D", "v", "V"}}

IsMeasure(c) == Flags(c) # {}
IsTest(c) == c \in {"t", "T"}

\* A measurement of these goes on for 10000 ms; of the capitals, for a pass.
Long(c) == c \in {"a", "k", "e", "s", "d", "v"}

\* The digits set the seed.
DigitSeq == <<"0", "1", "2", "3", "4", "5", "6", "7", "8", "9">>
IsDigit(c) == \E d \in 1..10 : c = DigitSeq[d]
Digit(c) == CHOOSE d \in 0..9 : c = DigitSeq[d + 1]

\* measure() runs test_alg(0) first if it would time an operation that needs
\* a keypair and there has been none.
NeedsTest(c, init) == IsMeasure(c) /\ Kg \notin Flags(c) /\ ~init

=============================================================================
