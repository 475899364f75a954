----------------------------- MODULE MCFiboRand -----------------------------
(***************************************************************************)
(* FiboRand with words of 8 bits, the constants of randombytes.c cut to    *)
(* their low byte and its shifts scaled from 32 bits to 8.                 *)
(***************************************************************************)
EXTENDS FiboRand, Bitwise

MCXor(x, y) == x ^^ y
MCWord == 0..255

\* Seeds with the bits that the shifts move in and out, set and clear.
MCSeeds == {0, 1, 8, 9, 31, 32, 200, 255}

=============================================================================
