-------------------------- MODULE SupercopMeasure --------------------------
(***************************************************************************)
(* The measurement programs of suppercop/crypto_*/measure.c: their loops   *)
(* over message lengths, and what the blocks of timed calls find in the    *)
(* buffers.  One module for the six of them: prim says which one runs.     *)
(*                                                                         *)
(* What a block does with clock and energy is the subject of EnergyMeter;  *)
(* here it is one or more passes of calls, and a label to print its        *)
(* figures under.  The primitives are external, and correct.               *)
(***************************************************************************)
EXTENDS Integers

CONSTANTS
  Primitives,      \* the programs that are run
  LOOPS,           \* rounds of a program
  TIMINGS,         \* timed calls of a pass, one less than those made
  MaxPass,         \* bound: passes that a block needs
  MAXTEST_BYTES,   \* the longest message
  FixedLen,        \* 16: the only length in measure.c.mlen16
  crypto_aead_ABYTES, \* by how much a ciphertext is longer than its message
  LabelBase        \* 1000000: label = LabelBase * adlen + mlen

ASSUME MeasureAssumption ==
  /\ Primitives \subseteq {"kem", "sign", "encrypt", "aead", "hash", "stream"}
  /\ LOOPS \in Nat /\ TIMINGS \in Nat \ {0} /\ MaxPass \in Nat \ {0}
  /\ MAXTEST_BYTES \in Nat /\ crypto_aead_ABYTES \in Nat /\ LabelBase \in Nat
  /\ FixedLen \in 0..MAXTEST_BYTES

\* MAXTEST_BYTES is 2048, 4096 or 100000.
ASSUME LabelAssumption == MAXTEST_BYTES < LabelBase

VARIABLES
  prim, mlen16,    \* the program, and whether it is its variant of one length
  pc, block,       \* the statement, and the block of calls it is in
  loop, direction, mlen, adlen,
  i,               \* calls made in the block
  msg, box,        \* of each slot: the message, and what was made from it
                   \* (a ciphertext or a signature)
  printed          \* history: what was printed in this round

lengths == <<direction, mlen, adlen>>
buffers == <<msg, box>>
vars == <<prim, mlen16, pc, block, loop, lengths, i, buffers, printed>>

\* crypto_sign uses buffers of its own for each call of a pass.
Slots == IF prim = "sign" THEN 0..TIMINGS ELSE {0}
Slot == IF prim = "sign" THEN i % (TIMINGS + 1) ELSE 0

\* The name of the figures of each block, without "_njoule" and "_avgcyc".
Names ==
  [kem     |-> [keypair |-> "kem_kg", seal |-> "kem_enc", open |-> "kem_dec"],
   sign    |-> [keypair |-> "sign_kg", seal |-> "sign_do", open |-> "sign_vfy"],
   encrypt |-> [keypair |-> "pke_kg", seal |-> "pke_enc", open |-> "pke_dec"],
   aead    |-> [seal |-> "aead_enc", open |-> "aead_dec", forged |-> "aead_decf"],
   hash    |-> [seal |-> "hash"],
   stream  |-> [seal |-> "stream", xor |-> "encdec"]]
Blocks(p) == DOMAIN Names[p]

HasKeys == "keypair" \in Blocks(prim)
NoLengths == prim = "kem"

-----------------------------------------------------------------------------
Init ==
  /\ prim \in Primitives
  /\ mlen16 \in BOOLEAN /\ (mlen16 => prim \in {"sign", "encrypt"})
  /\ pc = "loop" /\ block = "seal"   \* block is set before it is used
  /\ loop = 0 /\ direction = 0 /\ mlen = 0 /\ adlen = 0
  /\ i = 0
  /\ msg = [s \in Slots |-> "none"] /\ box = [s \in Slots |-> "none"]
  /\ printed = {}

Begin(b) == pc' = "call" /\ block' = b /\ i' = 0

\* for (loop = 0;loop < LOOPS;++loop), and the lengths at their start.  That
\* of crypto_aead grows before it is used.
LoopTop ==
  /\ pc = "loop"
  /\ direction' = 0 /\ adlen' = 0
  /\ mlen' = IF mlen16 THEN FixedLen ELSE 0
  /\ printed' = {}
  /\ IF loop = LOOPS THEN pc' = "done" /\ UNCHANGED <<block, i>>
     ELSE IF HasKeys THEN Begin("keypair")
     ELSE pc' = (IF prim = "aead" THEN "grow" ELSE "check") /\ UNCHANGED <<block, i>>
  /\ UNCHANGED <<prim, mlen16, loop, buffers>>

\* Mutant of Longer: without the 1.
Longer_Stays(x, gap) == x + x \div gap

Longer(x, gap) == x + 1 + x \div gap

\* mlen += 1 + mlen / 4, or / MGAP, which is 3; in crypto_aead the message
\* grows, or the associated data, or both.
Grow ==
  /\ pc = "grow"
  /\ LET gap == IF prim \in {"sign", "encrypt"} THEN 4 ELSE 3
     IN  IF prim = "aead"
           THEN /\ mlen' = IF direction # 1 THEN Longer(mlen, gap) ELSE mlen
                /\ adlen' = IF direction # 0 THEN Longer(adlen, gap) ELSE adlen
           ELSE mlen' = Longer(mlen, gap) /\ adlen' = adlen
  /\ pc' = "check"
  /\ UNCHANGED <<prim, mlen16, block, loop, direction, i, buffers, printed>>

\* Mutant of Check: the associated data is not looked at.
Check_MessageOnly ==
  /\ pc = "check"
  /\ IF mlen <= MAXTEST_BYTES
       THEN pc' = "fill" /\ UNCHANGED <<loop, lengths>>
       ELSE IF prim = "aead" /\ direction < 2
         THEN /\ direction' = direction + 1 /\ mlen' = 0 /\ adlen' = 0
              /\ pc' = "grow" /\ UNCHANGED loop
         ELSE loop' = loop + 1 /\ pc' = "loop" /\ UNCHANGED lengths
  /\ UNCHANGED <<prim, mlen16, block, i, buffers, printed>>

\* The end of the lengths: of a direction, or of the round.
Check ==
  /\ pc = "check"
  /\ IF mlen <= MAXTEST_BYTES /\ adlen <= MAXTEST_BYTES
       THEN pc' = "fill" /\ UNCHANGED <<loop, lengths>>
       ELSE IF prim = "aead" /\ direction < 2
         THEN /\ direction' = direction + 1 /\ mlen' = 0 /\ adlen' = 0
              /\ pc' = "grow" /\ UNCHANGED loop
         ELSE loop' = loop + 1 /\ pc' = "loop" /\ UNCHANGED lengths
  /\ UNCHANGED <<prim, mlen16, block, i, buffers, printed>>

\* crypto_aead and crypto_stream fill all their buffers.
RandomBox == prim \in {"aead", "stream"}

\* The messages are made.  What was made from those before is now stale.
Fill ==
  /\ pc = "fill"
  /\ msg' = [s \in Slots |-> "random"]
  /\ box' = [s \in Slots |-> IF box[s] = "none" \/ RandomBox THEN "none" ELSE "stale"]
  /\ Begin("seal")
  /\ UNCHANGED <<prim, mlen16, loop, lengths, printed>>

\* What a call leaves in the buffers.
Keypair == UNCHANGED msg /\ box' = [box EXCEPT ![Slot] = IF @ = "none" THEN @ ELSE "stale"]
Seal == UNCHANGED msg /\ box' = [box EXCEPT ![Slot] = "good"]

\* crypto_aead_decrypt() writes to the message; the others have a buffer for
\* it.  What it writes when it fails is not specified.
Opened ==
  /\ msg' = IF prim = "aead" /\ box[Slot] # "good" THEN [msg EXCEPT ![Slot] = "junk"] ELSE msg
  /\ UNCHANGED box

Effect ==
  CASE block = "keypair" -> Keypair
    [] block = "seal" -> Seal
    [] block \in {"open", "forged"} -> Opened
    [] block = "xor" -> UNCHANGED buffers

\* A timed call.  A block is left at the end of a pass, when it has taken
\* long enough.
Call ==
  /\ pc = "call"
  /\ Effect
  /\ i' = i + 1
  /\ \/ i' < MaxPass * (TIMINGS + 1) /\ pc' = "call"
     \/ i' % (TIMINGS + 1) = 0 /\ pc' = "print"
  /\ UNCHANGED <<prim, mlen16, block, loop, lengths, printed>>

\* Mutant of Label: the other way round.
Label_Swapped == LabelBase * mlen + adlen

\* What the figures are printed under; -1 is printed as a dash.
Label == LabelBase * adlen + mlen
Entry == <<Names[prim][block], IF block = "keypair" \/ NoLengths THEN -1 ELSE Label>>

\* The block of the same length, or of the same round, that comes next, if any:
\* no forgery is made of an empty ciphertext.
Following ==
  {b \in Blocks(prim) :
     \/ block = "keypair" /\ b = "seal" /\ NoLengths
     \/ block = "seal" /\ b \in {"open", "xor"}
     \/ block = "open" /\ b = "forged" /\ mlen + crypto_aead_ABYTES > 0}

\* Where the program goes after the figures of a block.
Proceed ==
  IF Following # {} THEN (\E b \in Following : Begin(b)) /\ UNCHANGED loop
  ELSE /\ IF block = "keypair" THEN pc' = "check" /\ UNCHANGED loop
          ELSE IF NoLengths \/ mlen16 THEN pc' = "loop" /\ loop' = loop + 1
          ELSE pc' = "grow" /\ UNCHANGED loop
       /\ UNCHANGED <<block, i>>

\* Mutant of PrintEntries: the ciphertext is changed one block early.
PrintEntries_Tampers ==
  /\ pc = "print"
  /\ printed' = printed \cup {Entry}
  /\ Proceed
  /\ box' = IF Following = {"open"} /\ prim = "aead" THEN [box EXCEPT ![0] = "forged"] ELSE box
  /\ UNCHANGED <<prim, mlen16, lengths, msg>>

\* The printentry() calls of a block, and on to the next block or length.
\* crypto_aead does ++c[clen/2] before it decrypts again.
PrintEntries ==
  /\ pc = "print"
  /\ printed' = printed \cup {Entry}
  /\ Proceed
  /\ box' = IF Following = {"forged"} THEN [box EXCEPT ![0] = "forged"] ELSE box
  /\ UNCHANGED <<prim, mlen16, lengths, msg>>

Next == LoopTop \/ Grow \/ Check \/ Fill \/ Call \/ PrintEntries

\* The program runs on, and so do the operations that it measures.
Spec == Init /\ [][Next]_vars /\ WF_vars(Next)

-----------------------------------------------------------------------------
(* Properties *)

\* The buffers hold MAXTEST_BYTES (and what a ciphertext or signature adds):
\* no call is made with a message, or associated data, that is longer.
TypeOK ==
  /\ prim \in Primitives /\ mlen16 \in BOOLEAN
  /\ pc \in {"loop", "check", "grow", "fill", "call", "print", "done"}
  /\ block \in Blocks(prim)
  /\ loop \in 0..LOOPS /\ direction \in 0..2
  /\ {mlen, adlen} \subseteq Nat
  /\ pc \in {"fill", "call", "print"} => {mlen, adlen} \subseteq 0..MAXTEST_BYTES
  /\ i \in 0..(MaxPass * (TIMINGS + 1))
  /\ msg \in [Slots -> {"none", "random", "junk"}]
  /\ box \in [Slots -> {"none", "good", "stale", "forged"}]

\* Every timed call finds what its label says: encryption and signing a fresh
\* message, also after a decryption that failed into the message buffer;
\* decryption and opening what was made in this round from this message with
\* this key, in each slot and however many passes there were; and the block of
\* forgeries a forged ciphertext, and no other does.
BlocksMatched ==
  pc = "call" =>
    /\ block \in {"seal", "xor"} /\ ~NoLengths => msg[Slot] = "random"
    /\ block = "open" => box[Slot] = "good"
    /\ block = "forged" => box[Slot] = "forged"

\* Figures of a round can be told apart: no block of calls is printed under a
\* name and label that another has, in any of the three directions, and
\* read_data.py (69-70) gets both lengths back from the label.
LabelsRight ==
  pc = "print" =>
    /\ Entry \notin printed
    /\ LET label == Entry[2]
       IN  label # -1 => label % LabelBase = mlen /\ label \div LabelBase = adlen

\* Every program ends: the lengths grow at every step, also from 0.
MeasureEnds == <>(pc = "done")

=============================================================================
