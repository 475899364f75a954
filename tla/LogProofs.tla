----------------------------- MODULE LogProofs -----------------------------
(***************************************************************************)
(* Proofs about the logs: that Batch leaves only beginnings of the log of  *)
(* the right target, for any number of targets and refusals of the shield, *)
(* and what ParseLog makes of any number of such logs.                     *)
(***************************************************************************)
EXTENDS Batch, ParseLog, SequenceTheorems, FiniteSetTheorems, TLAPS

(***************************************************************************)
(* Logs                                                                    *)
(***************************************************************************)

LogCmds == {"a", "k", "e", "s", "d", "v", "z", "t", None}
LogLines == ({"banner"} \X BOOLEAN) \cup ({"watt", "rows"} \X LogCmds)

\* A prefix agrees with the sequence as far as it goes.
LEMMA PrefixAt ==
  ASSUME NEW S, NEW s \in Seq(S), NEW t \in Seq(S)
  PROVE  IsPrefix(s, t) <=> Len(s) <= Len(t) /\ \A i \in 1..Len(s) : s[i] = t[i]
<1>1. Len(s) \in Nat /\ Len(t) \in Nat
  BY LenProperties
<1>2. /\ SubSeq(s, 1, Len(s)) \in Seq(S) /\ Len(SubSeq(s, 1, Len(s))) = Len(s)
      /\ \A i \in 1..Len(s) : SubSeq(s, 1, Len(s))[i] = s[i]
  BY <1>1, SubSeqFull
<1>3. ASSUME Len(s) <= Len(t)
      PROVE  /\ SubSeq(t, 1, Len(s)) \in Seq(S) /\ Len(SubSeq(t, 1, Len(s))) = Len(s)
             /\ \A i \in 1..Len(s) : SubSeq(t, 1, Len(s))[i] = t[i]
  <2>1. \A i \in 1..Len(s) : t[i] \in S
    BY <1>1, <1>3, ElementOfSeq
  <2> QED BY <1>1, <2>1, SubSeqProperties
<1>4. ASSUME Len(s) <= Len(t), \A i \in 1..Len(s) : s[i] = t[i]
      PROVE  SubSeq(s, 1, Len(s)) = SubSeq(t, 1, Len(s))
  BY <1>2, <1>3, <1>4, SeqEqual
<1> QED BY <1>2, <1>3, <1>4, Zenon DEF IsPrefix

\* The lines of a whole log.
LEMMA WholeLogType ==
  ASSUME NEW k \in BOOLEAN
  PROVE  /\ WholeLog(k) \in Seq(LogLines)
         /\ Len(WholeLog(k)) = 10
         /\ \A i \in 1..4 : Timing(k)[i] \in LogCmds
BY SMT DEF WholeLog, Timing, LogLines, LogCmds

\* A whole log after what may precede it.
LEMMA WholeLogAt ==
  ASSUME NEW k \in BOOLEAN, NEW e \in Early(k)
  PROVE  /\ e \o WholeLog(k) \in Seq(LogLines)
         /\ Len(e) \in 0..1 /\ Len(e \o WholeLog(k)) = Len(e) + 10
         /\ Len(e) = 1 => (e \o WholeLog(k))[1] \in {<<"banner", k>>, <<"rows", None>>}
         /\ \A p \in 1..10 : (e \o WholeLog(k))[Len(e) + p] = WholeLog(k)[p]
<1> DEFINE b == <<"banner", k>>
           r == <<"rows", None>>
           w == WholeLog(k)
<1>1. b \in LogLines /\ r \in LogLines
  BY DEF LogLines, LogCmds
<1>2. e = <<>> \/ e = <<b>> \/ e = <<r>>
  BY DEF Early
<1>3. w \in Seq(LogLines) /\ Len(w) = 10
  BY WholeLogType
<1> HIDE DEF b, r, w
<1>4. e \in Seq(LogLines) /\ Len(e) \in 0..1 /\ (Len(e) = 1 => e[1] \in {b, r})
  <2>1. CASE e = <<>>
    BY <2>1
  <2>2. ASSUME NEW x \in LogLines, x \in {b, r}, e = <<x>>
        PROVE  e \in Seq(LogLines) /\ Len(e) = 1 /\ e[1] = x
    BY <2>2
  <2> QED BY <1>1, <1>2, <2>1, <2>2
<1>5. /\ e \o w \in Seq(LogLines) /\ Len(e \o w) = Len(e) + 10
      /\ \A i \in 1..(Len(e) + 10) : (e \o w)[i] = IF i <= Len(e) THEN e[i] ELSE w[i - Len(e)]
  <2>1. e \in Seq(LogLines) /\ w \in Seq(LogLines)
    BY <1>3, <1>4
  <2>2. /\ e \o w \in Seq(LogLines) /\ Len(e \o w) = Len(e) + Len(w)
        /\ \A i \in 1..(Len(e) + Len(w)) :
             (e \o w)[i] = IF i <= Len(e) THEN e[i] ELSE w[i - Len(e)]
    BY <2>1, ConcatProperties, Zenon
  <2> QED BY <1>3, <2>2
<1>6. Len(e) = 1 => (e \o w)[1] \in {b, r}
  BY <1>4, <1>5
<1>7. \A p \in 1..10 : (e \o w)[Len(e) + p] = w[p]
  <2> SUFFICES ASSUME NEW p \in 1..10 PROVE (e \o w)[Len(e) + p] = w[p]
    OBVIOUS
  <2>1. Len(e) + p \in 1..(Len(e) + 10) /\ ~(Len(e) + p <= Len(e)) /\ (Len(e) + p) - Len(e) = p
    BY <1>4
  <2> QED BY <1>5, <2>1
<1> QED BY <1>4, <1>5, <1>6, <1>7 DEF b, r, w

\* The commands that are reported on, in their order.
Reported(k) == <<"a", "k", IF k THEN "e" ELSE "s", IF k THEN "d" ELSE "v", "z">>

\* Where in a whole log the lines of each kind are.
LEMMA WholeLogLines ==
  ASSUME NEW k \in BOOLEAN
  PROVE  /\ WholeLog(k)[1] = <<"banner", k>>
         /\ \A i \in 1..5 : WholeLog(k)[2 * i] = <<"watt", Reported(k)[i]>>
         /\ \A i \in 1..4 : WholeLog(k)[2 * i + 1] = <<"rows", Timing(k)[i]>>
<1>1. WholeLog(k)[1] = <<"banner", k>>
  BY DEF WholeLog
<1>2. \A i \in 1..5 : WholeLog(k)[2 * i] = <<"watt", Reported(k)[i]>>
  <2>1. \A i \in 1..5 : i = 1 \/ i = 2 \/ i = 3 \/ i = 4 \/ i = 5
    OBVIOUS
  <2> QED BY <2>1 DEF WholeLog, Timing, Reported
<1>3. \A i \in 1..4 : WholeLog(k)[2 * i + 1] = <<"rows", Timing(k)[i]>>
  <2>1. \A i \in 1..4 : i = 1 \/ i = 2 \/ i = 3 \/ i = 4
    OBVIOUS
  <2> QED BY <2>1 DEF WholeLog, Timing
<1> QED BY <1>1, <1>2, <1>3

\* The commands differ from each other, and from that of a foreign row.
LEMMA CommandsDiffer ==
  ASSUME NEW k \in BOOLEAN
  PROVE  /\ \A i, j \in 1..4 : Timing(k)[i] = Timing(k)[j] => i = j
         /\ \A i \in 1..4 : Timing(k)[i] \in LogCmds /\ Timing(k)[i] # None
         /\ \A i \in 1..4 : Timing(k)[i] = Reported(k)[i]
         /\ \A i \in 1..5 : Reported(k)[i] \in LogCmds
         /\ Timing(k)[1] = "a" /\ Reported(k)[5] = "z"
<1>1. \A i \in 1..4 : i = 1 \/ i = 2 \/ i = 3 \/ i = 4
  OBVIOUS
<1>2. \A i \in 1..5 : i = 1 \/ i = 2 \/ i = 3 \/ i = 4 \/ i = 5
  OBVIOUS
<1> QED BY <1>1, <1>2 DEF Timing, Reported, LogCmds, None

\* A kind of line determines where in the log it is: l is the line of place p.
LEMMA PlaceOf ==
  ASSUME NEW k \in BOOLEAN, NEW p \in 1..10
  PROVE  /\ WholeLog(k)[p] = <<"banner", k>> => p = 1
         /\ \A c : WholeLog(k)[p] = <<"watt", c>> => \E i \in 1..5 : p = 2 * i /\ c = Reported(k)[i]
         /\ \A c : WholeLog(k)[p] = <<"rows", c>> => \E i \in 1..4 : p = 2 * i + 1 /\ c = Timing(k)[i]
<1>1. CASE p = 1
  BY <1>1, WholeLogLines
<1>2. ASSUME NEW i \in 1..5, p = 2 * i
      PROVE  /\ WholeLog(k)[p] # <<"banner", k>>
             /\ \A c : WholeLog(k)[p] = <<"watt", c>> => c = Reported(k)[i]
             /\ \A c : WholeLog(k)[p] # <<"rows", c>>
  <2>1. WholeLog(k)[p] = <<"watt", Reported(k)[i]>>
    BY <1>2, WholeLogLines
  <2> QED BY <2>1
<1>3. ASSUME NEW i \in 1..4, p = 2 * i + 1
      PROVE  /\ WholeLog(k)[p] # <<"banner", k>>
             /\ \A c : WholeLog(k)[p] # <<"watt", c>>
             /\ \A c : WholeLog(k)[p] = <<"rows", c>> => c = Timing(k)[i]
  <2>1. WholeLog(k)[p] = <<"rows", Timing(k)[i]>>
    BY <1>3, WholeLogLines
  <2> QED BY <2>1
<1>4. \/ p = 1
      \/ \E i \in 1..5 : p = 2 * i
      \/ \E i \in 1..4 : p = 2 * i + 1
  <2>1. \E i \in 0..5 : p = 2 * i \/ p = 2 * i + 1
    <3>1. p \div 2 \in 0..5 /\ (p = 2 * (p \div 2) \/ p = 2 * (p \div 2) + 1)
      OBVIOUS
    <3> QED BY <3>1
  <2> QED BY <2>1
<1> QED BY <1>1, <1>2, <1>3, <1>4

\* A log that has grown by a line is a log without it, and the line is that
\* of the next place.
LEMMA NextLine ==
  ASSUME NEW k \in BOOLEAN, NEW e \in Early(k), NEW s \in Seq(LogLines), NEW l \in LogLines,
         IsPrefix(Append(s, l), e \o WholeLog(k))
  PROVE  /\ IsPrefix(s, e \o WholeLog(k))
         /\ Len(s) + 1 - Len(e) \in 0..10
         /\ Len(s) + 1 = Len(e) => l \in {<<"banner", k>>, <<"rows", None>>}
         /\ Len(s) + 1 > Len(e) => WholeLog(k)[Len(s) + 1 - Len(e)] = l
<1> DEFINE t == e \o WholeLog(k)
<1>1. t \in Seq(LogLines) /\ Len(e) \in 0..1 /\ Len(t) = Len(e) + 10
  BY WholeLogAt
<1>2. Len(e) = 1 => t[1] \in {<<"banner", k>>, <<"rows", None>>}
  BY WholeLogAt
<1>3. \A p \in 1..10 : t[Len(e) + p] = WholeLog(k)[p]
  BY WholeLogAt
<1> HIDE DEF t
<1>4. /\ Append(s, l) \in Seq(LogLines) /\ Len(Append(s, l)) = Len(s) + 1
      /\ \A i \in 1..Len(s) : Append(s, l)[i] = s[i]
      /\ Append(s, l)[Len(s) + 1] = l
      /\ Len(s) \in Nat
  BY AppendProperties, LenProperties
<1>5. Len(s) + 1 <= Len(t) /\ \A i \in 1..(Len(s) + 1) : Append(s, l)[i] = t[i]
  <2> DEFINE u == Append(s, l)
  <2>1. IsPrefix(u, t)
    BY DEF t
  <2>2. u \in Seq(LogLines)
    BY <1>4
  <2>3. Len(u) <= Len(t) /\ \A i \in 1..Len(u) : u[i] = t[i]
    <3> HIDE DEF u
    <3>1. t \in Seq(LogLines)
      BY <1>1
    <3> QED BY <2>1, <2>2, <3>1, PrefixAt
  <2> QED BY <1>4, <2>3
<1>6. IsPrefix(s, t)
  <2>1. Len(s) <= Len(t) /\ \A i \in 1..Len(s) : s[i] = t[i]
    BY <1>1, <1>4, <1>5
  <2> QED BY <1>1, <2>1, PrefixAt
<1>7. t[Len(s) + 1] = l
  BY <1>4, <1>5
<1>8. Len(s) + 1 > Len(e) => WholeLog(k)[Len(s) + 1 - Len(e)] = l
  <2> SUFFICES ASSUME Len(s) + 1 > Len(e) PROVE WholeLog(k)[Len(s) + 1 - Len(e)] = l
    OBVIOUS
  <2> DEFINE p == Len(s) + 1 - Len(e)
  <2>1. p \in 1..10 /\ Len(e) + p = Len(s) + 1
    BY <1>1, <1>4, <1>5
  <2> QED BY <1>3, <1>7, <2>1
<1>9. Len(s) + 1 - Len(e) \in 0..10
  <2>1. \A m \in Nat, d \in 0..1 : m + 1 <= d + 10 => m + 1 - d \in 0..10
    OBVIOUS
  <2> QED BY <1>1, <1>4, <1>5, <2>1
<1>10. Len(s) + 1 = Len(e) => l \in {<<"banner", k>>, <<"rows", None>>}
  BY <1>1, <1>2, <1>4, <1>7
<1> QED BY <1>6, <1>8, <1>9, <1>10 DEF t

(***************************************************************************)
(* The file that parselog.py reads                                         *)
(***************************************************************************)

Figure == [from : Nat \X LogCmds, cycles : Nat]

ParseTypeOK ==
  /\ open \in BOOLEAN /\ ct_l \in BOOLEAN
  /\ fn \in Nat /\ file \in Files
  /\ lines \in Seq(LogLines)
  /\ watt \in Seq(Nat \X LogCmds)
  /\ rows \in [Ops -> Figure]
  /\ totals \subseteq (Kems \cup Signatures) \X Nat

\* What was taken from a file whose log began with e: the powers that were
\* reported, in their order, and the cycles of each operation by itself, or
\* with the others until those came.
Taken(e, k) ==
  LET p == Len(lines) - Len(e)
  IN  /\ Len(watt) = IF p < 2 THEN 0 ELSE p \div 2
      /\ \A i \in 1..Len(watt) : watt[i] = <<fn, Reported(k)[i]>>
      /\ \A op \in Ops :
           /\ p >= 2 * op + 3 => rows[op] = [from |-> <<fn, Alone(op, k)>>, cycles |-> file.alone]
           /\ p \in 3..(2 * op + 2) => rows[op] = [from |-> <<fn, "a">>, cycles |-> file.inAll]
      /\ p >= 1 => algn = file.alg /\ (ct_l <=> k)

\* A file is open: what was taken fits every way to read its log so far.
FileInv ==
  open =>
    /\ fn >= 1
    /\ IsLog(lines, IsKem(file))
    /\ \A k \in BOOLEAN : (k <=> IsKem(file)) =>
         \A e \in Early(k) : IsPrefix(lines, e \o WholeLog(k)) => Taken(e, k)

\* The three operations.
LEMMA OpsAre == Ops = 1..3
BY DEF Ops, Kg, Enc, Dec

\* A line that is read keeps the types of what a line does not change.
LEMMA LineStep ==
  ASSUME ParseTypeOK, NEW l \in LogLines, Line(l)
  PROVE  /\ open /\ open' = open /\ fn' = fn /\ file' = file
         /\ kems' = kems /\ sgns' = sgns /\ totals' = totals /\ clocks' = clocks
         /\ lines' = Append(lines, l) /\ lines' \in Seq(LogLines) /\ Len(lines') = Len(lines) + 1
         /\ IsLog(lines', IsKem(file))
<1>1. Append(lines, l) \in Seq(LogLines) /\ Len(Append(lines, l)) = Len(lines) + 1
  BY AppendProperties DEF ParseTypeOK
<1> QED BY <1>1 DEF Line

\* A step that reads a line keeps FileInv if it takes what belongs to the
\* line's place.
LEMMA LineKeepsFile ==
  ASSUME ParseTypeOK, FileInv, NEW l \in LogLines, Line(l),
         \A k \in BOOLEAN : (k <=> IsKem(file)) => \A e \in Early(k) :
           LET p == Len(lines) + 1 - Len(e)
           IN  /\ Taken(e, k)
               /\ p \in 0..10
               /\ p = 0 => l \in {<<"banner", k>>, <<"rows", None>>}
               /\ p > 0 => WholeLog(k)[p] = l
               => Taken(e, k)'
  PROVE  FileInv'
<1>1. /\ open /\ fn' = fn /\ file' = file /\ lines' = Append(lines, l)
      /\ IsLog(lines', IsKem(file)) /\ lines \in Seq(LogLines)
  BY LineStep DEF ParseTypeOK
<1>2. ASSUME NEW k \in BOOLEAN, k <=> IsKem(file), NEW e \in Early(k),
             IsPrefix(lines', e \o WholeLog(k))
      PROVE  Taken(e, k)'
  <2> DEFINE p == Len(lines) + 1 - Len(e)
  <2>1. IsPrefix(Append(lines, l), e \o WholeLog(k))
    BY <1>1, <1>2
  <2>2. Len(lines) \in Nat /\ Len(e) \in 0..1
    BY <1>1, <1>2, LenProperties, WholeLogAt
  <2>3. /\ IsPrefix(lines, e \o WholeLog(k))
        /\ Len(lines) + 1 - Len(e) \in 0..10
        /\ Len(lines) + 1 = Len(e) => l \in {<<"banner", k>>, <<"rows", None>>}
        /\ Len(lines) + 1 > Len(e) => WholeLog(k)[Len(lines) + 1 - Len(e)] = l
    BY <1>1, <1>2, <2>1, NextLine
  <2>4. Taken(e, k)
    BY <1>1, <1>2, <2>3 DEF FileInv
  <2>5. /\ p \in 0..10
        /\ p = 0 => l \in {<<"banner", k>>, <<"rows", None>>}
        /\ p > 0 => WholeLog(k)[p] = l
    BY <2>2, <2>3
  <2> QED BY <1>2, <2>4, <2>5
<1>3. IsKem(file') <=> IsKem(file)
  BY <1>1
<1> QED BY <1>1, <1>2, <1>3 DEF FileInv

\* The actions that read a line, one after the other.
LEMMA BannerStep ==
  ASSUME ParseTypeOK, FileInv, Banner
  PROVE  ParseTypeOK' /\ FileInv'
<1> DEFINE g == IsKem(file)
           b == <<"banner", g>>
<1>1. g \in BOOLEAN
  BY SMT DEF IsKem
<1>2. /\ Line(b)
      /\ cclk' = file.clock /\ algn' = file.alg /\ ct_l' = g
      /\ watt' = watt /\ rows' = rows
  BY Zenon DEF Banner
<1> HIDE DEF g
<1>3. b \in LogLines
  BY <1>1 DEF LogLines
<1>4. ASSUME NEW k \in BOOLEAN, k <=> g PROVE b = <<"banner", k>> /\ k = g
  <2>1. k = g
    BY <1>1, <1>4, Zenon
  <2> QED BY <2>1, Zenon
<1> HIDE DEF b
<1>5. ASSUME NEW k \in BOOLEAN, k <=> g, NEW e \in Early(k), Taken(e, k),
             NEW p, p = Len(lines) + 1 - Len(e), p \in 0..10, p > 0 => WholeLog(k)[p] = b
      PROVE  Taken(e, k)'
  <2>1. p <= 1
    <3>1. p > 0 => p \in 1..10 /\ WholeLog(k)[p] = <<"banner", k>>
      BY <1>4, <1>5
    <3>2. p > 0 => p = 1
      <4>1. \A q \in 1..10 : WholeLog(k)[q] = <<"banner", k>> => q = 1
        BY PlaceOf, Zenon
      <4> QED BY <3>1, <4>1, Zenon
    <3> QED BY <1>5, <3>2
  <2>2. Len(lines) \in Nat /\ Len(e) \in 0..1 /\ Len(lines') = Len(lines) + 1
    BY <1>2, <1>3, <1>5, LineStep, LenProperties, WholeLogAt DEF ParseTypeOK
  <2>3. Len(lines) - Len(e) < 2 /\ Len(lines') - Len(e) < 2
        /\ ~(Len(lines) - Len(e) >= 3) /\ ~(Len(lines') - Len(e) >= 3)
    BY <1>5, <2>1, <2>2
  <2>4. Len(watt) = 0
    BY <1>5, <2>3 DEF Taken
  <2>5. /\ fn' = fn /\ file' = file
    BY <1>2, <1>3, LineStep
  <2>6. ASSUME NEW op \in Ops
        PROVE  ~(Len(lines') - Len(e) >= 2 * op + 3) /\ ~(Len(lines') - Len(e) \in 3..(2 * op + 2))
    BY <2>2, <2>3, <2>6, OpsAre
  <2>7. ct_l' <=> k
    BY <1>2, <1>5, Zenon
  <2> QED BY <1>2, <2>3, <2>4, <2>5, <2>6, <2>7 DEF Taken
<1>6. FileInv'
  <2>1. \A k \in BOOLEAN : (k <=> IsKem(file)) => \A e \in Early(k) :
          LET p == Len(lines) + 1 - Len(e)
          IN  /\ Taken(e, k)
              /\ p \in 0..10
              /\ p = 0 => b \in {<<"banner", k>>, <<"rows", None>>}
              /\ p > 0 => WholeLog(k)[p] = b
              => Taken(e, k)'
    BY <1>5 DEF g
  <2> QED BY <1>2, <1>3, <2>1, LineKeepsFile
<1>7. ParseTypeOK'
  BY <1>1, <1>2, <1>3, LineStep DEF ParseTypeOK
<1> QED BY <1>6, <1>7

\* A report on the power of a command.
LEMMA ReportStep ==
  ASSUME ParseTypeOK, FileInv, NEW c \in LogCmds, AcquisitionTime(c)
  PROVE  ParseTypeOK' /\ FileInv'
<1> DEFINE l == <<"watt", c>>
<1>1. Line(l) /\ l \in LogLines
  BY DEF AcquisitionTime, LogLines
<1>2. /\ watt' = Append(watt, <<fn, c>>)
      /\ rows' = rows /\ algn' = algn /\ ct_l' = ct_l
  BY DEF AcquisitionTime
<1>3. /\ watt' \in Seq(Nat \X LogCmds) /\ Len(watt) \in Nat /\ Len(watt') = Len(watt) + 1
      /\ \A i \in 1..Len(watt) : watt'[i] = watt[i]
      /\ watt'[Len(watt) + 1] = <<fn, c>>
  <2>1. <<fn, c>> \in Nat \X LogCmds
    BY DEF ParseTypeOK
  <2> QED BY <1>2, <2>1, AppendProperties, LenProperties DEF ParseTypeOK
<1>4. ASSUME NEW k \in BOOLEAN, k <=> IsKem(file), NEW e \in Early(k), Taken(e, k),
             NEW p, p = Len(lines) + 1 - Len(e), p \in 0..10,
             p = 0 => l \in {<<"banner", k>>, <<"rows", None>>}, p > 0 => WholeLog(k)[p] = l
      PROVE  Taken(e, k)'
  <2>1. PICK i \in 1..5 : p = 2 * i /\ c = Reported(k)[i]
    <3>1. p \in 1..10 /\ WholeLog(k)[p] = <<"watt", c>>
      BY <1>4
    <3> QED BY <3>1, PlaceOf
  <2>2. Len(lines) \in Nat /\ Len(e) \in 0..1 /\ Len(lines') = Len(lines) + 1
    BY <1>1, <1>4, LineStep, LenProperties, WholeLogAt DEF ParseTypeOK
  <2>3. Len(lines) - Len(e) = 2 * i - 1 /\ Len(lines') - Len(e) = 2 * i
    BY <1>4, <2>1, <2>2
  <2>4. /\ fn' = fn /\ file' = file
    BY <1>1, LineStep
  <2>5. Len(watt) = i - 1
    BY <1>4, <2>1, <2>3 DEF Taken
  <2>6. /\ Len(watt') = IF Len(lines') - Len(e) < 2 THEN 0 ELSE (Len(lines') - Len(e)) \div 2
        /\ \A j \in 1..Len(watt') : watt'[j] = <<fn', Reported(k)[j]>>
    <3>1. Len(watt') = i /\ i >= 1
      BY <1>3, <2>1, <2>5
    <3>2. \A j \in 1..(i - 1) : watt'[j] = <<fn, Reported(k)[j]>>
      BY <1>3, <1>4, <2>5 DEF Taken
    <3>3. watt'[i] = <<fn, Reported(k)[i]>>
      BY <1>3, <2>1, <2>5
    <3>4. \A j \in 1..i : j \in 1..(i - 1) \/ j = i
      BY <2>1
    <3>5. \A j \in 1..i : watt'[j] = <<fn, Reported(k)[j]>>
      BY <3>2, <3>3, <3>4
    <3>6. ~(2 * i < 2) /\ (2 * i) \div 2 = i
      BY <3>1
    <3> QED BY <2>3, <2>4, <3>1, <3>5, <3>6
  <2>7. ASSUME NEW op \in Ops
        PROVE  /\ Len(lines') - Len(e) >= 2 * op + 3 => Len(lines) - Len(e) >= 2 * op + 3
               /\ Len(lines') - Len(e) \in 3..(2 * op + 2) => Len(lines) - Len(e) \in 3..(2 * op + 2)
    BY <2>1, <2>3, <2>7, OpsAre
  <2>8. Len(lines) - Len(e) >= 1
    BY <2>1, <2>3
  <2> QED BY <1>2, <1>4, <2>4, <2>6, <2>7, <2>8 DEF Taken
<1>5. FileInv'
  <2> HIDE DEF l
  <2> QED BY <1>1, <1>4, LineKeepsFile
<1>6. ParseTypeOK'
  BY <1>1, <1>2, <1>3, LineStep DEF ParseTypeOK
<1> QED BY <1>5, <1>6

\* The rows of a command.
LEMMA RowsStep ==
  ASSUME ParseTypeOK, FileInv, NEW c \in LogCmds, Rows(c)
  PROVE  ParseTypeOK' /\ FileInv'
<1> DEFINE g == IsKem(file)
           l == <<"rows", c>>
           Row(cyc) == [from |-> <<fn, c>>, cycles |-> cyc]
<1>1. Line(l) /\ l \in LogLines
  BY DEF Rows, LogLines
<1>2. PICK ops \in SUBSET Ops, cyc \in Cycles :
        /\ c = "a" => ops = Ops /\ cyc = file.inAll
        /\ c \notin {"a", None} => ops = {op \in Ops : Alone(op, g) = c} /\ cyc = file.alone
        /\ rows' = [op \in Ops |-> IF op \in ops THEN Row(cyc) ELSE rows[op]]
  BY Zenon DEF Rows
<1>3. /\ watt' = watt /\ algn' = algn /\ ct_l' = ct_l
      /\ fn' = fn /\ file' = file
  BY <1>1, LineStep DEF Rows
<1>4. g \in BOOLEAN
  BY SMT DEF IsKem
<1>5. rows' \in [Ops -> Figure]
  <2>1. Row(cyc) \in Figure
    BY ParseAssumption DEF Figure, ParseTypeOK
  <2> HIDE DEF Row
  <2> QED BY <1>2, <2>1 DEF ParseTypeOK
<1> HIDE DEF g
<1>6. ASSUME NEW k \in BOOLEAN, k <=> g, NEW e \in Early(k), Taken(e, k),
             NEW p, p = Len(lines) + 1 - Len(e), p \in 0..10,
             p > 0 => WholeLog(k)[p] = l
      PROVE  Taken(e, k)'
  <2>1. Len(lines) \in Nat /\ Len(e) \in 0..1 /\ Len(lines') = Len(lines) + 1
    BY <1>1, <1>6, LineStep, LenProperties, WholeLogAt DEF ParseTypeOK
  <2>2. Len(lines) - Len(e) = p - 1 /\ Len(lines') - Len(e) = p
    BY <1>6, <2>1
  <2>3. CASE p = 0
    <3>1. Len(watt) = 0
      BY <1>6, <2>2, <2>3 DEF Taken
    <3>2. ASSUME NEW op \in Ops
          PROVE  ~(p >= 2 * op + 3) /\ ~(p \in 3..(2 * op + 2))
      BY <2>3, OpsAre
    <3> QED BY <1>3, <2>2, <2>3, <3>1, <3>2 DEF Taken
  <2>4. CASE p # 0
    <3>1. PICK i \in 1..4 : p = 2 * i + 1 /\ c = Timing(k)[i]
      <4>1. p \in 1..10 /\ WholeLog(k)[p] = <<"rows", c>>
        BY <1>6, <2>4
      <4>2. \A q \in 1..10 : \A d : WholeLog(k)[q] = <<"rows", d>>
                                     => \E i \in 1..4 : q = 2 * i + 1 /\ d = Timing(k)[i]
        BY PlaceOf, Zenon
      <4> QED BY <4>1, <4>2, Zenon
    <3>2. /\ Len(watt') = IF p < 2 THEN 0 ELSE p \div 2
          /\ \A j \in 1..Len(watt') : watt'[j] = <<fn', Reported(k)[j]>>
      <4>1. ~(p - 1 < 2) \/ p - 1 = 2
        BY <3>1
      <4>2. (p - 1) \div 2 = p \div 2 /\ ~(p < 2) /\ ~(p - 1 < 2)
        BY <3>1
      <4> QED BY <1>3, <1>6, <2>2, <4>2 DEF Taken
    <3>3. algn' = file'.alg /\ (ct_l' <=> k)
      <4>1. p - 1 >= 1
        BY <3>1
      <4> QED BY <1>3, <1>6, <2>2, <4>1 DEF Taken
    <3>4. ASSUME NEW op \in Ops
          PROVE  /\ p >= 2 * op + 3 => rows'[op] = [from |-> <<fn, Alone(op, k)>>, cycles |-> file.alone]
                 /\ p \in 3..(2 * op + 2) => rows'[op] = [from |-> <<fn, "a">>, cycles |-> file.inAll]
      <4>1. /\ p - 1 >= 2 * op + 3 => rows[op] = [from |-> <<fn, Alone(op, k)>>, cycles |-> file.alone]
            /\ p - 1 \in 3..(2 * op + 2) => rows[op] = [from |-> <<fn, "a">>, cycles |-> file.inAll]
        BY <1>6, <2>2 DEF Taken
      <4>2. op \in 1..3 /\ Alone(op, k) = Timing(k)[op + 1]
        BY OpsAre DEF Alone
      <4>3. CASE i = 1
        <5>1. c = "a"
          BY <3>1, <4>3, CommandsDiffer
        <5>2. rows'[op] = [from |-> <<fn, "a">>, cycles |-> file.inAll]
          BY <1>2, <5>1
        <5>3. p = 3 /\ ~(p >= 2 * op + 3)
          BY <3>1, <4>2, <4>3
        <5> QED BY <5>2, <5>3
      <4>4. CASE i > 1
        <5>1. c \notin {"a", None}
          <6>1. /\ \A m, n \in 1..4 : Timing(k)[m] = Timing(k)[n] => m = n
                /\ \A m \in 1..4 : Timing(k)[m] # None
                /\ Timing(k)[1] = "a"
            BY CommandsDiffer
          <6> QED BY <3>1, <4>4, <6>1
        <5>2. op \in ops <=> op + 1 = i
          <6>1. k = g
            <7>1. \A x, y \in BOOLEAN : (x <=> y) => x = y
              BY Zenon
            <7>2. k <=> g
              BY <1>6
            <7> QED BY <1>4, <7>1, <7>2, Zenon
          <6>2. op \in ops <=> Timing(k)[op + 1] = Timing(k)[i]
            BY <1>2, <3>1, <4>2, <5>1, <6>1, Zenon
          <6>3. \A m, n \in 1..4 : Timing(k)[m] = Timing(k)[n] => m = n
            BY CommandsDiffer
          <6> QED BY <3>1, <4>2, <6>2, <6>3
        <5>3. CASE op + 1 = i
          <6>1. rows'[op] = [from |-> <<fn, Alone(op, k)>>, cycles |-> file.alone]
            BY <1>2, <3>1, <4>2, <5>1, <5>2, <5>3
          <6>2. ~(p \in 3..(2 * op + 2))
            BY <3>1, <4>2, <5>3
          <6> QED BY <6>1, <6>2
        <5>4. CASE op + 1 # i
          <6>1. rows'[op] = rows[op]
            BY <1>2, <5>2, <5>4
          <6>2. /\ p >= 2 * op + 3 => p - 1 >= 2 * op + 3
                /\ p \in 3..(2 * op + 2) => p - 1 \in 3..(2 * op + 2)
            BY <3>1, <4>2, <4>4, <5>4
          <6> QED BY <4>1, <6>1, <6>2
        <5> QED BY <5>3, <5>4
      <4> QED BY <3>1, <4>3, <4>4
    <3> QED BY <1>3, <2>2, <3>2, <3>3, <3>4 DEF Taken
  <2> QED BY <2>3, <2>4
<1>7. FileInv'
  <2> HIDE DEF l
  <2>1. \A k \in BOOLEAN : (k <=> IsKem(file)) => \A e \in Early(k) :
          LET p == Len(lines) + 1 - Len(e)
          IN  /\ Taken(e, k)
              /\ p \in 0..10
              /\ p = 0 => l \in {<<"banner", k>>, <<"rows", None>>}
              /\ p > 0 => WholeLog(k)[p] = l
              => Taken(e, k)'
    BY <1>6 DEF g
  <2> QED BY <1>1, <2>1, LineKeepsFile
<1>8. ParseTypeOK'
  BY <1>1, <1>3, <1>5, LineStep DEF ParseTypeOK
<1> QED BY <1>7, <1>8

(***************************************************************************)
(* The tables                                                              *)
(***************************************************************************)

\* An entry's powers and cycles are of the f-th file and belong together.
Together(entry, k, f) ==
  /\ entry.watt[1] = <<f, "a">>
  /\ \A op \in Ops :
       /\ entry.watt[op + 1] = <<f, Alone(op, k)>>
       /\ entry.rows[op].from \in {<<f, Alone(op, k)>>, <<f, "a">>}
       /\ op < 3 => entry.rows[op].from[2] # "a"

TableInv(table, k) ==
  /\ DOMAIN table \subseteq IF k THEN Kems ELSE Signatures
  /\ \A a \in DOMAIN table :
       /\ table[a].total \in Nat
       /\ \E f \in 1..fn : Together(table[a], k, f)

\* The algorithms of a table, and others, are those of the totals; the table
\* has the least total of each of its own.
Least(all, table, others) ==
  /\ \A t \in all : t[1] \in DOMAIN table \cup others
  /\ \A a \in DOMAIN table \cup others : \E t \in all : t[1] = a
  /\ \A t \in all : t[1] \in DOMAIN table =>
       <<t[1], table[t[1]].total>> \in all /\ table[t[1]].total <= t[2]

TablesInv ==
  /\ TableInv(kems, TRUE) /\ TableInv(sgns, FALSE)
  /\ Least(totals, kems, DOMAIN sgns) /\ Least(totals, sgns, DOMAIN kems)

\* The clock is the default one until the banner of the last file is read.
ClocksInv ==
  /\ IsFiniteSet(clocks)
  /\ fn = 0 => clocks = {}
  /\ fn # 0 => file.clock \in clocks
  /\ (algn = None /\ cclk = DefaultClock) \/ (algn = file.alg /\ cclk = file.clock)

ParseInv == ParseTypeOK /\ FileInv /\ TablesInv /\ ClocksInv

\* A row is among the lines if the log went on to its place.
LEMMA RowIsRead ==
  ASSUME NEW k \in BOOLEAN, NEW e \in Early(k), NEW s \in Seq(LogLines),
         IsPrefix(s, e \o WholeLog(k)), NEW i \in 1..4
  PROVE  <<"rows", Timing(k)[i]>> \in Range(s) <=> Len(s) - Len(e) >= 2 * i + 1
<1> DEFINE t == e \o WholeLog(k)
           l == <<"rows", Timing(k)[i]>>
<1>1. t \in Seq(LogLines) /\ Len(e) \in 0..1 /\ Len(t) = Len(e) + 10
  BY WholeLogAt
<1>2. Len(e) = 1 => t[1] # l
  <2>1. Len(e) = 1 => t[1] \in {<<"banner", k>>, <<"rows", None>>}
    BY WholeLogAt
  <2>2. Timing(k)[i] # None
    BY CommandsDiffer
  <2>3. l # <<"banner", k>> /\ l # <<"rows", None>>
    BY <2>2
  <2> QED BY <2>1, <2>3
<1>3. \A p \in 1..10 : t[Len(e) + p] = WholeLog(k)[p]
  BY WholeLogAt
<1>4. WholeLog(k)[2 * i + 1] = l
  BY WholeLogLines
<1>5. \A p \in 1..10 : WholeLog(k)[p] = l => p = 2 * i + 1
  <2> SUFFICES ASSUME NEW p \in 1..10, WholeLog(k)[p] = l PROVE p = 2 * i + 1
    OBVIOUS
  <2>1. PICK j \in 1..4 : p = 2 * j + 1 /\ Timing(k)[i] = Timing(k)[j]
    <3>1. \A q \in 1..10 : \A d : WholeLog(k)[q] = <<"rows", d>>
                                   => \E j \in 1..4 : q = 2 * j + 1 /\ d = Timing(k)[j]
      BY PlaceOf, Zenon
    <3> QED BY <3>1, Zenon
  <2>2. i = j
    BY <2>1, CommandsDiffer
  <2> QED BY <2>1, <2>2
<1> HIDE DEF t, l
<1>6. IsPrefix(s, t)
  BY DEF t
<1>7. Len(s) <= Len(t) /\ (\A j \in 1..Len(s) : s[j] = t[j]) /\ Len(s) \in Nat
  BY <1>1, <1>6, PrefixAt, LenProperties
<1>8. Range(s) = {s[j] : j \in 1..Len(s)}
  BY RangeEquality
<1>9. ASSUME Len(s) - Len(e) >= 2 * i + 1 PROVE l \in Range(s)
  <2>1. Len(e) + (2 * i + 1) \in 1..Len(s) /\ 2 * i + 1 \in 1..10
    BY <1>1, <1>7, <1>9
  <2>2. s[Len(e) + (2 * i + 1)] = l
    BY <1>3, <1>4, <1>7, <2>1
  <2> QED BY <1>8, <2>1, <2>2
<1>10. ASSUME l \in Range(s) PROVE Len(s) - Len(e) >= 2 * i + 1
  <2>1. PICK j \in 1..Len(s) : s[j] = l
    BY <1>8, <1>10
  <2>2. t[j] = l /\ j <= Len(e) + 10
    BY <1>1, <1>7, <2>1
  <2>3. j > Len(e)
    <3>1. j \in Nat /\ j >= 1
      BY <1>7, <2>1
    <3>2. ASSUME j <= Len(e) PROVE FALSE
      <4>1. Len(e) = 1 /\ j = 1
        <5>1. \A m \in 0..1, q \in Nat : q >= 1 /\ q <= m => m = 1 /\ q = 1
          OBVIOUS
        <5> QED BY <1>1, <3>1, <3>2, <5>1
      <4> QED BY <1>2, <2>2, <4>1
    <3> QED BY <1>1, <3>1, <3>2
  <2>4. j - Len(e) \in 1..10 /\ Len(e) + (j - Len(e)) = j
    BY <1>1, <2>2, <2>3
  <2>5. j - Len(e) = 2 * i + 1
    BY <1>3, <1>5, <2>2, <2>4
  <2> QED BY <1>1, <1>7, <2>1, <2>5
<1> QED BY <1>9, <1>10 DEF l

\* At the end of a file with enough data, what was taken is what the log says.
LEMMA EnoughData ==
  ASSUME ParseTypeOK, FileInv, open, Len(watt) >= 4,
         NEW k \in BOOLEAN, k <=> IsKem(file)
  PROVE  /\ fn \in 1..fn /\ algn = file.alg /\ (ct_l <=> k)
         /\ Total \in Nat /\ Total = TrueTotal
         /\ \A total : Together([total |-> total, rows |-> rows, watt |-> watt], k, fn)
<1> DEFINE g == IsKem(file)
<1>1. g \in BOOLEAN
  BY SMT DEF IsKem
<1>2. k = g
  <2>1. \A x, y \in BOOLEAN : (x <=> y) => x = y
    BY Zenon
  <2> QED BY <1>1, <2>1, Zenon
<1>3. PICK e \in Early(k) : IsPrefix(lines, e \o WholeLog(k))
  <2>1. IsLog(lines, k)
    <3>1. IsLog(lines, g)
      BY DEF FileInv
    <3> HIDE DEF g
    <3> QED BY <1>2, <3>1, Zenon
  <2> QED BY <2>1 DEF IsLog
<1>4. Taken(e, k)
  BY <1>3 DEF FileInv
<1> DEFINE p == Len(lines) - Len(e)
<1>5. p \in Int /\ p >= 8
  <2>1. Len(lines) \in Nat /\ Len(e) \in 0..1
    BY LenProperties, WholeLogAt DEF ParseTypeOK
  <2>2. Len(watt) = IF p < 2 THEN 0 ELSE p \div 2
    BY <1>4 DEF Taken
  <2>3. p \in Int
    BY <2>1
  <2> HIDE DEF p
  <2> QED BY <2>2, <2>3
<1>6. /\ algn = file.alg /\ (ct_l <=> k)
      /\ \A i \in 1..Len(watt) : watt[i] = <<fn, Reported(k)[i]>>
  BY <1>4, <1>5 DEF Taken
<1>14. ASSUME NEW op \in Ops
       PROVE  /\ p >= 2 * op + 3 =>
                   /\ rows[op].from = <<fn, Alone(op, k)>> /\ rows[op].cycles = file.alone
              /\ p \in 3..(2 * op + 2) =>
                   /\ rows[op].from = <<fn, "a">> /\ rows[op].cycles = file.inAll
  <2>1. /\ p >= 2 * op + 3 => rows[op] = [from |-> <<fn, Alone(op, k)>>, cycles |-> file.alone]
        /\ p \in 3..(2 * op + 2) => rows[op] = [from |-> <<fn, "a">>, cycles |-> file.inAll]
    BY <1>4 DEF Taken
  <2> HIDE DEF p
  <2> QED BY <2>1
<1>7. \A op \in Ops : op \in 1..3 /\ Alone(op, k) = Timing(k)[op + 1] /\ op + 1 \in 1..4
  BY OpsAre DEF Alone
<1>8. \A op \in Ops : TrueCycles(op) = rows[op].cycles
  <2> SUFFICES ASSUME NEW op \in Ops PROVE TrueCycles(op) = rows[op].cycles
    OBVIOUS
  <2>1. Alone(op, g) = Alone(op, k)
    BY <1>2, Zenon
  <2>2. <<"rows", Alone(op, k)>> \in Range(lines) <=> p >= 2 * op + 3
    <3>1. <<"rows", Timing(k)[op + 1]>> \in Range(lines) <=> p >= 2 * (op + 1) + 1
      BY <1>3, <1>7, RowIsRead DEF ParseTypeOK
    <3>2. 2 * (op + 1) + 1 = 2 * op + 3
      BY <1>7
    <3> QED BY <1>7, <3>1, <3>2
  <2>3. TrueCycles(op) = IF p >= 2 * op + 3 THEN file.alone ELSE file.inAll
    <3> HIDE DEF p
    <3> QED BY <2>1, <2>2, Zenon DEF TrueCycles
  <2>4. ~(p >= 2 * op + 3) => p \in 3..(2 * op + 2)
    BY <1>5, <1>7
  <2> HIDE DEF p
  <2>5. CASE p >= 2 * op + 3
    BY <1>14, <2>3, <2>5
  <2>6. CASE ~(p >= 2 * op + 3)
    BY <1>14, <2>3, <2>4, <2>6
  <2> QED BY <2>5, <2>6
<1>9. Total \in Nat /\ Total = TrueTotal
  <2>1. 1 \in Ops /\ 2 \in Ops /\ 3 \in Ops
    BY OpsAre
  <2>2. rows[1].cycles \in Nat /\ rows[2].cycles \in Nat /\ rows[3].cycles \in Nat
    BY <2>1 DEF ParseTypeOK, Figure
  <2> QED BY <1>8, <2>1, <2>2 DEF Total, TrueTotal
<1>10. watt[1] = <<fn, "a">>
  <2>1. Timing(k)[1] = "a" /\ Reported(k)[1] = Timing(k)[1]
    BY CommandsDiffer
  <2>2. 1 \in 1..Len(watt)
    BY LenProperties DEF ParseTypeOK
  <2> QED BY <1>6, <2>1, <2>2
<1>11. ASSUME NEW op \in Ops
       PROVE  /\ watt[op + 1] = <<fn, Alone(op, k)>>
              /\ rows[op].from \in {<<fn, Alone(op, k)>>, <<fn, "a">>}
              /\ op < 3 => rows[op].from[2] # "a"
  <2>1. op + 1 \in 1..Len(watt) /\ Reported(k)[op + 1] = Timing(k)[op + 1]
    BY <1>7, CommandsDiffer, LenProperties DEF ParseTypeOK
  <2>2. watt[op + 1] = <<fn, Alone(op, k)>>
    BY <1>6, <1>7, <2>1
  <2>3. p >= 2 * op + 3 \/ p \in 3..(2 * op + 2)
    BY <1>5, <1>7
  <2>4. op < 3 => p >= 2 * op + 3
    BY <1>5, <1>7
  <2>5. Alone(op, k) # "a"
    <3>1. \A i, j \in 1..4 : Timing(k)[i] = Timing(k)[j] => i = j
      BY CommandsDiffer
    <3>2. Timing(k)[1] = "a"
      BY CommandsDiffer
    <3> QED BY <1>7, <3>1, <3>2
  <2>6. /\ p >= 2 * op + 3 => rows[op].from = <<fn, Alone(op, k)>>
        /\ p \in 3..(2 * op + 2) => rows[op].from = <<fn, "a">>
    BY <1>14
  <2> HIDE DEF p
  <2>7. rows[op].from \in {<<fn, Alone(op, k)>>, <<fn, "a">>}
    BY <2>3, <2>6
  <2>8. op < 3 => rows[op].from[2] # "a"
    BY <2>4, <2>5, <2>6
  <2> QED BY <2>2, <2>7, <2>8
<1>12. \A total : Together([total |-> total, rows |-> rows, watt |-> watt], k, fn)
  BY <1>10, <1>11 DEF Together
<1>13. fn \in 1..fn
  BY DEF FileInv, ParseTypeOK
<1> QED BY <1>6, <1>9, <1>12, <1>13

\* What Best does to a table: the algorithm of this file gets an entry, with
\* the smaller of the totals, and the others keep theirs.
LEMMA BestEntry ==
  ASSUME NEW table
  PROVE  /\ DOMAIN Best(table) = DOMAIN table \cup {algn}
         /\ \A a \in DOMAIN table : a # algn => Best(table)[a] = table[a]
         /\ algn \in DOMAIN table /\ table[algn].total < Total =>
              Best(table)[algn] = table[algn]
         /\ ~(algn \in DOMAIN table /\ table[algn].total < Total) =>
              Best(table)[algn] = [total |-> Total, rows |-> rows, watt |-> watt]
<1>1. CASE algn \in DOMAIN table /\ table[algn].total < Total
  <2>1. Best(table) = table
    BY <1>1 DEF Best
  <2> QED BY <1>1, <2>1
<1>2. CASE ~(algn \in DOMAIN table /\ table[algn].total < Total)
  <2>1. Best(table) =
          [a \in DOMAIN table \cup {algn} |->
             IF a = algn THEN [total |-> Total, rows |-> rows, watt |-> watt] ELSE table[a]]
    BY <1>2 DEF Best
  <2> QED BY <1>2, <2>1
<1> QED BY <1>1, <1>2

\* A log that is better or the first replaces one entry of the table.
LEMMA BestKeepsTable ==
  ASSUME NEW k \in BOOLEAN, NEW table, TableInv(table, k),
         algn \in IF k THEN Kems ELSE Signatures, Total \in Nat, fn \in 1..fn,
         \A total : Together([total |-> total, rows |-> rows, watt |-> watt], k, fn)
  PROVE  TableInv(Best(table), k)
<1>1. DOMAIN Best(table) \subseteq IF k THEN Kems ELSE Signatures
  BY BestEntry DEF TableInv
<1>2. ASSUME NEW a \in DOMAIN Best(table)
      PROVE  /\ Best(table)[a].total \in Nat
             /\ \E f \in 1..fn : Together(Best(table)[a], k, f)
  <2> DEFINE new == [total |-> Total, rows |-> rows, watt |-> watt]
  <2>1. \/ a \in DOMAIN table /\ Best(table)[a] = table[a]
        \/ Best(table)[a] = new
    BY <1>2, BestEntry, Zenon
  <2>2. new.total = Total /\ Together(new, k, fn)
    OBVIOUS
  <2> HIDE DEF new
  <2> QED BY <2>1, <2>2 DEF TableInv
<1> QED BY <1>1, <1>2 DEF TableInv

\* The table that an algorithm with enough data goes into keeps the least of
\* its totals.
LEMMA BestKeepsLeast ==
  ASSUME totals \subseteq (Kems \cup Signatures) \X Nat, Total \in Nat,
         NEW k \in BOOLEAN, NEW table, TableInv(table, k),
         NEW others, algn \notin others, Least(totals, table, others)
  PROVE  Least(totals \cup {<<algn, Total>>}, Best(table), others)
<1> DEFINE more == totals \cup {<<algn, Total>>}
           b == Best(table)
           x == <<algn, Total>>
           entry == [total |-> Total, rows |-> rows, watt |-> watt]
           Less == algn \in DOMAIN table /\ table[algn].total < Total
<1>1. /\ DOMAIN b = DOMAIN table \cup {algn}
      /\ \A a \in DOMAIN table : a # algn => b[a] = table[a]
      /\ Less => b[algn] = table[algn]
      /\ ~Less => b[algn] = entry
  BY BestEntry
<1>2. x[1] = algn /\ x[2] = Total /\ entry.total = Total
  OBVIOUS
<1>3. /\ \A t \in totals : t = <<t[1], t[2]>> /\ t[2] \in Nat
      /\ \A t \in totals : t[1] \in DOMAIN table \cup others
      /\ \A a \in DOMAIN table \cup others : \E t \in totals : t[1] = a
      /\ \A t \in totals : t[1] \in DOMAIN table =>
           <<t[1], table[t[1]].total>> \in totals /\ table[t[1]].total <= t[2]
      /\ \A a \in DOMAIN table : table[a].total \in Nat
  BY DEF Least, TableInv
<1> HIDE DEF b, x, entry, more
<1>4. more = totals \cup {x}
  BY DEF x, more
<1>5. \A t \in more : t[1] \in DOMAIN b \cup others
  BY <1>1, <1>2, <1>3, <1>4
<1>6. \A a \in DOMAIN b \cup others : \E t \in more : t[1] = a
  BY <1>1, <1>2, <1>3, <1>4
<1>7. ASSUME NEW t \in more, t[1] \in DOMAIN b, t[1] # algn
      PROVE  <<t[1], b[t[1]].total>> \in more /\ b[t[1]].total <= t[2]
  <2>1. t \in totals /\ t[1] \in DOMAIN table /\ b[t[1]] = table[t[1]]
    BY <1>1, <1>2, <1>3, <1>4, <1>7
  <2> QED BY <1>3, <1>4, <2>1
<1>8. ASSUME NEW t \in more, t[1] = algn
      PROVE  <<algn, b[algn].total>> \in more /\ b[algn].total <= t[2]
  <2>1. t = x \/ (t \in totals /\ algn \in DOMAIN table /\ table[algn].total <= t[2] /\ t[2] \in Nat)
    BY <1>3, <1>4, <1>8
  <2>2. CASE Less
    <3>1. PICK u \in totals : u[1] = algn
      BY <1>3, <2>2
    <3>2. <<algn, table[algn].total>> \in totals
      BY <1>3, <2>2, <3>1
    <3>3. table[algn].total <= t[2]
      <4>1. table[algn].total \in Nat
        BY <1>3, <2>2
      <4> QED BY <1>2, <2>1, <2>2, <4>1
    <3> QED BY <1>1, <1>4, <2>2, <3>2, <3>3
  <2>3. CASE ~Less
    <3>1. b[algn].total = Total
      BY <1>1, <1>2, <2>3
    <3>2. Total <= t[2]
      <4>1. CASE t = x
        BY <1>2, <4>1
      <4>2. CASE t # x
        <5>1. algn \in DOMAIN table /\ table[algn].total <= t[2] /\ t[2] \in Nat
              /\ table[algn].total \in Nat
          BY <1>3, <2>1, <4>2
        <5> QED BY <2>3, <5>1
      <4> QED BY <4>1, <4>2
    <3>3. <<algn, Total>> \in more
      BY <1>4 DEF x
    <3> QED BY <3>1, <3>2, <3>3
  <2> QED BY <2>2, <2>3
<1>9. \A t \in more : t[1] \in DOMAIN b => <<t[1], b[t[1]].total>> \in more /\ b[t[1]].total <= t[2]
  BY <1>7, <1>8
<1> QED BY <1>5, <1>6, <1>9 DEF Least, b, more

\* Another table is none the worse for it.
LEMMA BestKeepsOthers ==
  ASSUME NEW table, NEW others, Least(totals, table, others), algn \notin DOMAIN table
  PROVE  Least(totals \cup {<<algn, Total>>}, table, others \cup {algn})
<1> DEFINE x == <<algn, Total>>
           more == totals \cup {x}
<1>1. x[1] = algn
  OBVIOUS
<1> HIDE DEF x
<1>2. \A t \in more : t[1] \in DOMAIN table \cup (others \cup {algn})
  BY <1>1 DEF Least
<1>3. \A a \in DOMAIN table \cup (others \cup {algn}) : \E t \in more : t[1] = a
  BY <1>1 DEF Least
<1>4. \A t \in more : t[1] \in DOMAIN table =>
        <<t[1], table[t[1]].total>> \in more /\ table[t[1]].total <= t[2]
  BY <1>1 DEF Least
<1> QED BY <1>2, <1>3, <1>4 DEF Least, x

\* The end of a file.
LEMMA CloseStep ==
  ASSUME ParseInv, Close
  PROVE  ParseInv'
<1>1. /\ open /\ open' = FALSE
      /\ fn' = fn /\ file' = file /\ lines' = lines /\ watt' = watt /\ rows' = rows
      /\ algn' = algn /\ ct_l' = ct_l /\ cclk' = cclk /\ clocks' = clocks
  BY DEF Close
<1>2. FileInv' /\ ClocksInv'
  BY <1>1 DEF ParseInv, FileInv, ClocksInv
<1>3. ASSUME NEW table, NEW k \in BOOLEAN, TableInv(table, k) PROVE TableInv(table, k)'
  BY <1>1, <1>3 DEF TableInv
<1>4. CASE Len(watt) < 4
  <2>1. kems' = kems /\ sgns' = sgns /\ totals' = totals
    BY <1>4 DEF Close
  <2>2. ParseTypeOK'
    BY <1>1, <2>1 DEF ParseInv, ParseTypeOK
  <2>3. TablesInv'
    BY <1>1, <2>1 DEF ParseInv, TablesInv, TableInv, Least
  <2> QED BY <1>2, <2>2, <2>3 DEF ParseInv
<1>5. CASE ~(Len(watt) < 4)
  <2>1. /\ kems' = IF ct_l THEN Best(kems) ELSE kems
        /\ sgns' = IF ct_l THEN sgns ELSE Best(sgns)
        /\ totals' = totals \cup {<<file.alg, TrueTotal>>}
    BY <1>5 DEF Close
  <2>2. Len(watt) >= 4
    BY <1>5, LenProperties DEF ParseInv, ParseTypeOK
  <2>3. ASSUME NEW k \in BOOLEAN, k <=> IsKem(file)
        PROVE  /\ fn \in 1..fn /\ algn = file.alg /\ (ct_l <=> k)
               /\ Total \in Nat /\ Total = TrueTotal
               /\ \A total : Together([total |-> total, rows |-> rows, watt |-> watt], k, fn)
    BY <1>1, <2>2, <2>3, EnoughData DEF ParseInv
  <2>4. PICK k \in BOOLEAN : k <=> IsKem(file)
    BY Zenon
  <2>5. /\ fn \in 1..fn /\ algn = file.alg /\ (ct_l <=> k)
        /\ Total \in Nat /\ Total = TrueTotal
        /\ \A total : Together([total |-> total, rows |-> rows, watt |-> watt], k, fn)
    BY <2>3, <2>4
  <2>6. algn \in Kems \cup Signatures /\ (algn \in Kems <=> k)
    BY <2>4, <2>5 DEF IsKem, ParseInv, ParseTypeOK, Files
  <2>7. totals' = totals \cup {<<algn, Total>>}
    BY <2>1, <2>5
  <2>8. ParseTypeOK'
    <3>1. totals' \subseteq (Kems \cup Signatures) \X Nat
      <4>1. <<algn, Total>> \in (Kems \cup Signatures) \X Nat
        BY <2>5, <2>6
      <4> QED BY <2>7, <4>1, Zenon DEF ParseInv, ParseTypeOK
    <3> QED BY <1>1, <3>1, Zenon DEF ParseInv, ParseTypeOK
  <2>9. /\ TableInv(kems, TRUE) /\ TableInv(sgns, FALSE)
        /\ Least(totals, kems, DOMAIN sgns) /\ Least(totals, sgns, DOMAIN kems)
        /\ DOMAIN kems \subseteq Kems /\ DOMAIN sgns \subseteq Signatures
        /\ totals \subseteq (Kems \cup Signatures) \X Nat
    BY DEF ParseInv, TablesInv, TableInv, ParseTypeOK
  <2>10. CASE k
    <3>1. kems' = Best(kems) /\ sgns' = sgns
      BY <2>1, <2>5, <2>10
    <3>2. TableInv(Best(kems), TRUE)
      <4>1. algn \in IF TRUE THEN Kems ELSE Signatures
        BY <2>6, <2>10
      <4>2. \A total : Together([total |-> total, rows |-> rows, watt |-> watt], TRUE, fn)
        <5>1. k = TRUE
          BY <2>10
        <5> QED BY <2>5, <5>1, Zenon
      <4> QED BY <2>5, <2>9, <4>1, <4>2, BestKeepsTable
    <3>3. TableInv(kems, TRUE)' /\ TableInv(sgns, FALSE)'
      BY <1>1, <2>9, <3>1, <3>2 DEF TableInv
    <3>4. algn \notin DOMAIN sgns
      BY <2>6, <2>9, <2>10, ParseAssumption
    <3>5. Least(totals \cup {<<algn, Total>>}, Best(kems), DOMAIN sgns)
      BY <2>5, <2>9, <3>4, BestKeepsLeast
    <3>6. Least(totals \cup {<<algn, Total>>}, sgns, DOMAIN Best(kems))
      <4>1. DOMAIN Best(kems) = DOMAIN kems \cup {algn}
        BY BestEntry
      <4> QED BY <2>9, <3>4, <4>1, BestKeepsOthers
    <3>7. Least(totals, kems, DOMAIN sgns)' /\ Least(totals, sgns, DOMAIN kems)'
      BY <2>7, <3>1, <3>5, <3>6, Zenon DEF Least
    <3> QED BY <1>2, <2>8, <3>3, <3>7 DEF ParseInv, TablesInv
  <2>11. CASE ~k
    <3>1. kems' = kems /\ sgns' = Best(sgns)
      BY <2>1, <2>5, <2>11
    <3>2. TableInv(Best(sgns), FALSE)
      <4>1. algn \in IF FALSE THEN Kems ELSE Signatures
        BY <2>6, <2>11
      <4>2. \A total : Together([total |-> total, rows |-> rows, watt |-> watt], FALSE, fn)
        <5>1. k = FALSE
          BY <2>11
        <5> QED BY <2>5, <5>1, Zenon
      <4> QED BY <2>5, <2>9, <4>1, <4>2, BestKeepsTable
    <3>3. TableInv(kems, TRUE)' /\ TableInv(sgns, FALSE)'
      BY <1>1, <2>9, <3>1, <3>2 DEF TableInv
    <3>4. algn \notin DOMAIN kems
      BY <2>6, <2>9, <2>11
    <3>5. Least(totals \cup {<<algn, Total>>}, Best(sgns), DOMAIN kems)
      BY <2>5, <2>9, <3>4, BestKeepsLeast
    <3>6. Least(totals \cup {<<algn, Total>>}, kems, DOMAIN Best(sgns))
      <4>1. DOMAIN Best(sgns) = DOMAIN sgns \cup {algn}
        BY BestEntry
      <4> QED BY <2>9, <3>4, <4>1, BestKeepsOthers
    <3>7. Least(totals, kems, DOMAIN sgns)' /\ Least(totals, sgns, DOMAIN kems)'
      BY <2>7, <3>1, <3>5, <3>6, Zenon DEF Least
    <3> QED BY <1>2, <2>8, <3>3, <3>7 DEF ParseInv, TablesInv
  <2> QED BY <2>10, <2>11
<1> QED BY <1>4, <1>5

\* The next file.
LEMMA OpenStep ==
  ASSUME ParseInv, Open
  PROVE  ParseInv'
<1>1. /\ open' = TRUE /\ fn' = fn + 1 /\ file' \in Files /\ lines' = <<>> /\ watt' = <<>>
      /\ rows' = [op \in Ops |-> NoFigure]
      /\ algn' = None /\ ct_l' = FALSE /\ cclk' = DefaultClock
      /\ clocks' = clocks \cup {file'.clock}
      /\ kems' = kems /\ sgns' = sgns /\ totals' = totals
  BY DEF Open, Blank
<1>2. fn \in Nat /\ fn' \in Nat /\ fn' >= 1
  BY <1>1 DEF ParseInv, ParseTypeOK
<1>3. ParseTypeOK'
  <2>1. NoFigure \in Figure
    BY DEF NoFigure, Figure, LogCmds
  <2>2. totals' \subseteq (Kems \cup Signatures) \X Nat
    BY <1>1 DEF ParseInv, ParseTypeOK
  <2> QED BY <1>1, <1>2, <2>1, <2>2, EmptySeq DEF ParseTypeOK
<1>4. FileInv'
  <2>1. ASSUME NEW k \in BOOLEAN, NEW e \in Early(k) PROVE Taken(e, k)'
    <3>1. Len(lines') = 0 /\ Len(watt') = 0 /\ Len(e) \in 0..1
      BY <1>1, <2>1, WholeLogAt
    <3>2. Len(lines') - Len(e) < 1
      BY <3>1
    <3>3. \A op \in Ops : ~(Len(lines') - Len(e) >= 2 * op + 3) /\ ~(Len(lines') - Len(e) \in 3..(2 * op + 2))
      BY <3>1, OpsAre
    <3> QED BY <3>1, <3>2, <3>3 DEF Taken
  <2>2. ASSUME NEW k \in BOOLEAN PROVE IsLog(<<>>, k)
    <3>1. <<>> \in Early(k)
      BY DEF Early
    <3>2. <<>> \o WholeLog(k) \in Seq(LogLines) /\ Len(<<>> \o WholeLog(k)) = Len(<<>>) + 10
      BY <3>1, WholeLogAt
    <3>3. IsPrefix(<<>>, <<>> \o WholeLog(k))
      <4> DEFINE t == <<>> \o WholeLog(k)
      <4>1. t \in Seq(LogLines) /\ Len(<<>>) <= Len(t)
        BY <3>2
      <4> HIDE DEF t
      <4>2. Len(<<>>) <= Len(t) /\ \A i \in 1..Len(<<>>) : <<>>[i] = t[i]
        BY <4>1
      <4>3. IsPrefix(<<>>, t)
        BY <4>1, <4>2, EmptySeq, PrefixAt
      <4> QED BY <4>3 DEF t
    <3> QED BY <3>1, <3>3, Zenon DEF IsLog
  <2>3. IsLog(lines', IsKem(file'))
    <3>1. IsKem(file') \in BOOLEAN
      BY SMT DEF IsKem
    <3> QED BY <1>1, <2>2, <3>1, Zenon
  <2> QED BY <1>2, <2>1, <2>3 DEF FileInv
<1>5. TablesInv'
  <2>1. \A f \in 1..fn : f \in 1..fn'
    BY <1>1, <1>2
  <2>2. TableInv(kems, TRUE)' /\ TableInv(sgns, FALSE)'
    BY <1>1, <2>1 DEF ParseInv, TablesInv, TableInv
  <2>3. Least(totals, kems, DOMAIN sgns)' /\ Least(totals, sgns, DOMAIN kems)'
    BY <1>1 DEF ParseInv, TablesInv, Least
  <2> QED BY <2>2, <2>3 DEF TablesInv
<1>6. ClocksInv'
  <2>1. IsFiniteSet(clocks')
    BY <1>1, FS_AddElement DEF ParseInv, ClocksInv
  <2> QED BY <1>1, <1>2, <2>1 DEF ClocksInv
<1> QED BY <1>3, <1>4, <1>5, <1>6 DEF ParseInv

\* A line that is read changes no table.
LEMMA LineKeepsTables ==
  ASSUME ParseInv, NEW l \in LogLines, Line(l)
  PROVE  TablesInv'
<1>1. fn' = fn /\ kems' = kems /\ sgns' = sgns /\ totals' = totals
  BY LineStep DEF ParseInv
<1> QED BY <1>1 DEF ParseInv, TablesInv, TableInv, Least

\* ParseInv is inductive.
THEOREM ParseInvariance == ParseSpec => []ParseInv
<1>1. ParseInit => ParseInv
  <2> SUFFICES ASSUME ParseInit PROVE ParseInv
    OBVIOUS
  <2>1. ParseTypeOK
    <3>1. NoFigure \in Figure
      BY DEF NoFigure, Figure, LogCmds
    <3> QED BY <3>1, EmptySeq DEF ParseInit, ParseTypeOK
  <2>2. FileInv
    BY DEF ParseInit, FileInv
  <2>3. TablesInv
    <3>1. DOMAIN kems = {} /\ DOMAIN sgns = {} /\ totals = {}
      BY DEF ParseInit, NoLogs
    <3> QED BY <3>1 DEF TablesInv, TableInv, Least
  <2>4. ClocksInv
    BY FS_EmptySet DEF ParseInit, ClocksInv
  <2> QED BY <2>1, <2>2, <2>3, <2>4 DEF ParseInv
<1>2. ParseInv /\ [ParseNext]_parsevars => ParseInv'
  <2> SUFFICES ASSUME ParseInv, [ParseNext]_parsevars PROVE ParseInv'
    OBVIOUS
  <2>1. CASE Open
    BY <2>1, OpenStep
  <2>2. CASE Close
    BY <2>2, CloseStep
  <2>3. CASE Banner
    <3>1. PICK l \in LogLines : Line(l)
      <4>1. Line(<<"banner", IsKem(file)>>)
        BY <2>3, Zenon DEF Banner
      <4>2. IsKem(file) \in BOOLEAN
        BY SMT DEF IsKem
      <4> DEFINE g == IsKem(file)
      <4> HIDE DEF g
      <4>3. <<"banner", g>> \in LogLines
        BY <4>2 DEF LogLines, g
      <4> QED BY <4>1, <4>3, Zenon DEF g
    <3>2. clocks' = clocks /\ fn' = fn /\ file' = file
      BY <3>1, LineStep DEF ParseInv
    <3>3. ClocksInv'
      BY <2>3, <3>2 DEF Banner, ParseInv, ClocksInv
    <3> QED BY <2>3, <3>1, <3>3, BannerStep, LineKeepsTables DEF ParseInv
  <2>4. ASSUME NEW c \in Range(Timing(IsKem(file))) \cup {"z", None},
               AcquisitionTime(c) \/ Rows(c)
        PROVE  ParseInv'
    <3>1. c \in LogCmds
      <4>1. ASSUME NEW k \in BOOLEAN PROVE Range(Timing(k)) \subseteq LogCmds
        BY DEF Range, Timing, LogCmds
      <4>2. IsKem(file) \in BOOLEAN
        BY SMT DEF IsKem
      <4>3. Range(Timing(IsKem(file))) \subseteq LogCmds
        BY <4>1, <4>2, Zenon
      <4> QED BY <2>4, <4>3 DEF LogCmds
    <3>2. PICK l \in LogLines : Line(l)
      BY <2>4, <3>1 DEF LogLines, AcquisitionTime, Rows
    <3>3. clocks' = clocks /\ fn' = fn /\ file' = file
      BY <3>2, LineStep DEF ParseInv
    <3>4. ClocksInv'
      BY <2>4, <3>3 DEF AcquisitionTime, Rows, ParseInv, ClocksInv
    <3> QED BY <2>4, <3>1, <3>2, <3>4, ReportStep, RowsStep, LineKeepsTables DEF ParseInv
  <2>5. CASE UNCHANGED parsevars
    <3>1. /\ open' = open /\ fn' = fn /\ file' = file /\ lines' = lines /\ watt' = watt
          /\ rows' = rows /\ algn' = algn /\ ct_l' = ct_l /\ cclk' = cclk
          /\ kems' = kems /\ sgns' = sgns /\ totals' = totals /\ clocks' = clocks
      BY <2>5 DEF parsevars
    <3>2. ParseTypeOK'
      BY <3>1 DEF ParseInv, ParseTypeOK
    <3>3. FileInv'
      BY <3>1 DEF ParseInv, FileInv, Taken
    <3>4. TablesInv'
      BY <3>1 DEF ParseInv, TablesInv, TableInv, Least
    <3>5. ClocksInv'
      BY <3>1 DEF ParseInv, ClocksInv
    <3> QED BY <3>2, <3>3, <3>4, <3>5 DEF ParseInv
  <2> QED BY <2>1, <2>2, <2>3, <2>4, <2>5 DEF ParseNext
<1> QED BY <1>1, <1>2, PTL DEF ParseSpec

\* The tables have every algorithm with enough data, and no other, each with
\* the fewest cycles of its logs.
THEOREM BestIsTaken == ParseSpec => []BestTaken
<1>1. ParseInv => BestTaken
  <2> SUFFICES ASSUME ParseInv PROVE BestTaken
    OBVIOUS
  <2>1. /\ DOMAIN kems \subseteq Kems /\ DOMAIN sgns \subseteq Signatures
        /\ Least(totals, kems, DOMAIN sgns) /\ Least(totals, sgns, DOMAIN kems)
    BY DEF ParseInv, TablesInv, TableInv
  <2>2. DOMAIN kems \cup DOMAIN sgns = {t[1] : t \in totals}
    BY <2>1 DEF Least
  <2>3. \A t \in totals : /\ t[1] \in Kems => t[1] \in DOMAIN kems
                          /\ t[1] \notin Kems => t[1] \in DOMAIN sgns
    BY <2>1, ParseAssumption DEF Least
  <2>4. \A t \in totals :
          LET table == IF t[1] \in Kems THEN kems ELSE sgns
          IN  <<t[1], table[t[1]].total>> \in totals /\ table[t[1]].total <= t[2]
    BY <2>1, <2>3 DEF Least
  <2> QED BY <2>1, <2>2, <2>4, Zenon DEF BestTaken
<1> QED BY <1>1, ParseInvariance, PTL

\* Powers and cycles that are printed in one line are of one log and of one
\* operation.
THEOREM PowersAndCyclesMatch == ParseSpec => []PowersMatchCycles
<1>1. ParseInv => PowersMatchCycles
  <2> SUFFICES ASSUME ParseInv PROVE PowersMatchCycles
    OBVIOUS
  <2>1. \A a \in DOMAIN kems : \E f \in 1..fn : Together(kems[a], TRUE, f)
    BY DEF ParseInv, TablesInv, TableInv
  <2>2. \A a \in DOMAIN sgns : \E f \in 1..fn : Together(sgns[a], FALSE, f)
    BY DEF ParseInv, TablesInv, TableInv
  <2> QED BY <2>1, <2>2, Zenon DEF PowersMatchCycles, Together
<1> QED BY <1>1, ParseInvariance, PTL

\* The clock used for the conversions is that of the boards, if they all have
\* the same and it is the default or was read from the last log.
THEOREM ClockIsRight == ParseSpec => []ClockRight
<1>1. ParseInv => ClockRight
  <2> SUFFICES ASSUME ParseInv, Cardinality(clocks) = 1, DefaultClock \in clocks \/ algn # None
               PROVE  clocks = {cclk}
    BY DEF ClockRight
  <2>1. PICK c : clocks = {c}
    BY FS_Singleton DEF ParseInv, ClocksInv
  <2>2. file.clock = c
    BY <2>1 DEF ParseInv, ClocksInv
  <2> QED BY <2>1, <2>2 DEF ParseInv, ClocksInv
<1> QED BY <1>1, ParseInvariance, PTL

(***************************************************************************)
(* Lists, and the log that is read off a serial line                       *)
(***************************************************************************)

\* Tuples and ranges of lists that grow at the end and are read at the front.
LEMMA QueueAppend ==
  ASSUME NEW S, NEW s \in Seq(S), NEW x \in S
  PROVE  /\ Append(s, x) \in Seq(S) /\ Append(s, x) # <<>>
         /\ Len(Append(s, x)) = Len(s) + 1
         /\ \A i \in 1..Len(s) : Append(s, x)[i] = s[i]
         /\ Append(s, x)[Len(s) + 1] = x
         /\ Range(Append(s, x)) = Range(s) \cup {x}
<1>1. /\ Append(s, x) \in Seq(S) /\ Append(s, x) # <<>>
      /\ Len(Append(s, x)) = Len(s) + 1
      /\ \A i \in 1..Len(s) : Append(s, x)[i] = s[i]
      /\ Append(s, x)[Len(s) + 1] = x
  BY AppendProperties
<1>2. DOMAIN Append(s, x) = 1..(Len(s) + 1) /\ DOMAIN s = 1..Len(s) /\ Len(s) \in Nat
  BY <1>1, LenProperties
<1>3. Range(Append(s, x)) = Range(s) \cup {x}
  BY <1>1, <1>2 DEF Range
<1> QED BY <1>1, <1>3

\* The front of such a list is taken.
LEMMA QueueTail ==
  ASSUME NEW S, NEW s \in Seq(S), s # <<>>
  PROVE  /\ Head(s) \in S /\ Tail(s) \in Seq(S)
         /\ Len(s) \in Nat \ {0} /\ Len(Tail(s)) = Len(s) - 1
         /\ Head(s) = s[1]
         /\ \A i \in 1..(Len(s) - 1) : Tail(s)[i] = s[i + 1]
         /\ Range(s) = {Head(s)} \cup Range(Tail(s))
<1>1. /\ Head(s) \in S /\ Tail(s) \in Seq(S) /\ Head(s) = s[1]
      /\ Len(Tail(s)) = Len(s) - 1
      /\ \A i \in 1..Len(Tail(s)) : Tail(s)[i] = s[i + 1]
      /\ Len(s) \in Nat \ {0}
  BY HeadTailProperties, EmptySeq, LenProperties
<1>2. DOMAIN s = 1..Len(s) /\ DOMAIN Tail(s) = 1..(Len(s) - 1)
  BY <1>1, LenProperties
<1>3. Range(s) = {Head(s)} \cup Range(Tail(s))
  <2>1. \A y \in Range(s) : y \in {Head(s)} \cup Range(Tail(s))
    <3> SUFFICES ASSUME NEW i \in 1..Len(s) PROVE s[i] \in {Head(s)} \cup Range(Tail(s))
      BY <1>2 DEF Range
    <3>1. CASE i = 1
      BY <1>1, <3>1
    <3>2. CASE i # 1
      <4>1. i - 1 \in 1..(Len(s) - 1) /\ (i - 1) + 1 = i
        BY <1>1, <3>2
      <4>2. Tail(s)[i - 1] = s[i]
        BY <1>1, <4>1
      <4> QED BY <1>2, <4>1, <4>2 DEF Range
    <3> QED BY <3>1, <3>2
  <2>2. \A y \in Range(Tail(s)) : y \in Range(s)
    <3> SUFFICES ASSUME NEW i \in 1..(Len(s) - 1) PROVE Tail(s)[i] \in Range(s)
      BY <1>2 DEF Range
    <3>1. i + 1 \in 1..Len(s) /\ Tail(s)[i] = s[i + 1]
      BY <1>1
    <3> QED BY <1>2, <3>1 DEF Range
  <2>3. Head(s) \in Range(s)
    BY <1>1, <1>2 DEF Range
  <2> QED BY <2>1, <2>2, <2>3
<1> QED BY <1>1, <1>3

\* Nothing is in the empty list.
LEMMA EmptyRange == Range(<<>>) = {}
<1>1. DOMAIN <<>> = {}
  BY EmptySeq, LenProperties
<1> QED BY <1>1 DEF Range

\* What kind of lines a list has.
Kinds(s) == {line[1] : line \in Range(s)}

\* A line adds nothing to the log but a banner or rows.
LEMMA LoggedIs ==
  ASSUME NEW l \in Seq(LogLines), NEW line \in Lines
  PROVE  /\ line[1] \in Words
         /\ \/ line[1] \notin {"RESET", "ROWS"} /\ Logged(l, line) = l
            \/ \E b \in BOOLEAN : line = <<"RESET", b>> /\ Logged(l, line) = Append(l, <<"banner", b>>)
            \/ \E c \in LogCmds : line = <<"ROWS", c>> /\ Logged(l, line) = Append(l, <<"rows", c>>)
<1>1. CASE line \in {<<w>> : w \in Words \ {"RESET", "ROWS"}}
  <2>1. PICK w \in Words \ {"RESET", "ROWS"} : line = <<w>>
    BY <1>1
  <2>2. line[1] = w
    BY <2>1
  <2> QED BY <2>1, <2>2, Zenon DEF Logged
<1>2. CASE line \in {"RESET"} \X BOOLEAN
  <2>1. PICK b \in BOOLEAN : line = <<"RESET", b>>
    BY <1>2
  <2>2. line[1] = "RESET" /\ line[2] = b /\ "RESET" # "ROWS"
    BY <2>1
  <2>3. Logged(l, line) = Append(l, <<"banner", b>>)
    BY <2>2, Zenon DEF Logged
  <2> QED BY <2>1, <2>2, <2>3 DEF Words
<1>3. CASE line \in {"ROWS"} \X (Letters \cup {None})
  <2>1. PICK c \in Letters \cup {None} : line = <<"ROWS", c>>
    BY <1>3
  <2>2. line[1] = "ROWS" /\ line[2] = c /\ "ROWS" # "RESET"
    BY <2>1
  <2>3. Logged(l, line) = Append(l, <<"rows", c>>)
    BY <2>2, Zenon DEF Logged
  <2>4. c \in LogCmds
    BY DEF Letters, LogCmds
  <2> QED BY <2>1, <2>2, <2>3, <2>4 DEF Words
<1> QED BY <1>1, <1>2, <1>3 DEF Lines

\* The log of kind k that began with e, after n of its own lines.
LogAt(e, k, n) == SubSeq(e \o WholeLog(k), 1, Len(e) + n)

\* Its first ten lines come one by one, and each beginning is a log.
LEMMA LogAtIs ==
  ASSUME NEW k \in BOOLEAN, NEW e \in Early(k)
  PROVE  /\ LogAt(e, k, 0) = e
         /\ \A n \in 0..10 : LogAt(e, k, n) \in Seq(LogLines) /\ IsLog(LogAt(e, k, n), k)
         /\ \A n \in 0..9 : LogAt(e, k, n + 1) = Append(LogAt(e, k, n), WholeLog(k)[n + 1])
<1> DEFINE t == e \o WholeLog(k)
           u(n) == SubSeq(t, 1, Len(e) + n)
<1>1. /\ t \in Seq(LogLines) /\ Len(e) \in 0..1 /\ Len(t) = Len(e) + 10
      /\ \A p \in 1..10 : t[Len(e) + p] = WholeLog(k)[p]
  BY WholeLogAt
<1>2. e \in Seq(LogLines) /\ \A i \in 1..Len(e) : t[i] = e[i]
  <2>1. e \in Seq(LogLines)
    <3>1. <<"banner", k>> \in LogLines /\ <<"rows", None>> \in LogLines
      BY DEF LogLines, LogCmds
    <3>2. \A y \in LogLines : <<y>> \in Seq(LogLines)
      OBVIOUS
    <3> DEFINE b == <<"banner", k>>
               r == <<"rows", None>>
    <3>3. e = <<>> \/ e = <<b>> \/ e = <<r>>
      BY DEF Early
    <3> HIDE DEF b, r
    <3> QED BY <3>1, <3>2, <3>3, EmptySeq DEF b, r
  <2>2. \A i \in 1..(Len(e) + Len(WholeLog(k))) :
          t[i] = IF i <= Len(e) THEN e[i] ELSE WholeLog(k)[i - Len(e)]
    BY <2>1, WholeLogType, ConcatProperties, Zenon
  <2>3. Len(WholeLog(k)) = 10
    BY WholeLogType
  <2> HIDE DEF t
  <2> QED BY <1>1, <2>1, <2>2, <2>3
<1> HIDE DEF t
<1>3. ASSUME NEW n \in 0..10
      PROVE  /\ u(n) \in Seq(LogLines) /\ Len(u(n)) = Len(e) + n
             /\ \A i \in 1..(Len(e) + n) : u(n)[i] = t[i]
  <2>1. Len(e) + n \in Nat /\ Len(e) + n <= Len(t)
    BY <1>1
  <2>2. \A i \in 1..(Len(e) + n) : t[i] \in LogLines
    BY <1>1, <2>1, ElementOfSeq
  <2> QED BY <1>1, <2>1, <2>2, SubSeqProperties
<1>4. ASSUME NEW n \in 0..10 PROVE IsPrefix(u(n), t)
  <2>1. u(n) \in Seq(LogLines) /\ Len(u(n)) <= Len(t) /\ \A i \in 1..Len(u(n)) : u(n)[i] = t[i]
    BY <1>1, <1>3
  <2> QED BY <1>1, <2>1, PrefixAt
<1>5. u(0) = e
  <2>1. Len(u(0)) = Len(e) /\ \A i \in 1..Len(e) : u(0)[i] = e[i]
    BY <1>1, <1>2, <1>3
  <2>2. u(0) \in Seq(LogLines)
    BY <1>3
  <2> QED BY <1>2, <2>1, <2>2, SeqEqual
<1>6. ASSUME NEW n \in 0..9 PROVE u(n + 1) = Append(u(n), WholeLog(k)[n + 1])
  <2> DEFINE a == Append(u(n), WholeLog(k)[n + 1])
  <2>1. n + 1 \in 0..10 /\ n \in 0..10 /\ n + 1 \in 1..10 /\ Len(e) + (n + 1) = (Len(e) + n) + 1
    BY <1>1
  <2>2. WholeLog(k)[n + 1] = t[(Len(e) + n) + 1]
    BY <1>1, <2>1
  <2>3. WholeLog(k)[n + 1] \in LogLines
    <3>1. (Len(e) + n) + 1 \in 1..Len(t)
      BY <1>1, <2>1
    <3> QED BY <1>1, <2>2, <3>1, ElementOfSeq
  <2>4. u(n) \in Seq(LogLines) /\ Len(u(n)) = Len(e) + n
        /\ \A i \in 1..(Len(e) + n) : u(n)[i] = t[i]
    BY <1>3, <2>1
  <2>5. u(n + 1) \in Seq(LogLines) /\ Len(u(n + 1)) = (Len(e) + n) + 1
        /\ \A i \in 1..((Len(e) + n) + 1) : u(n + 1)[i] = t[i]
    BY <1>3, <2>1
  <2> HIDE DEF u
  <2>6. a \in Seq(LogLines) /\ Len(a) = Len(u(n)) + 1
        /\ (\A i \in 1..Len(u(n)) : a[i] = u(n)[i]) /\ a[Len(u(n)) + 1] = WholeLog(k)[n + 1]
    BY <2>3, <2>4, QueueAppend
  <2> HIDE DEF a
  <2>7. \A i \in 1..((Len(e) + n) + 1) : u(n + 1)[i] = a[i]
    <3> SUFFICES ASSUME NEW i \in 1..((Len(e) + n) + 1) PROVE u(n + 1)[i] = a[i]
      OBVIOUS
    <3>1. u(n + 1)[i] = t[i]
      BY <2>5
    <3>2. i \in 1..(Len(e) + n) \/ i = (Len(e) + n) + 1
      BY <1>1
    <3>3. CASE i \in 1..(Len(e) + n)
      BY <2>4, <2>6, <3>1, <3>3
    <3>4. CASE i = (Len(e) + n) + 1
      BY <2>2, <2>4, <2>6, <3>1, <3>4
    <3> QED BY <3>2, <3>3, <3>4
  <2>8. u(n + 1) = a
    BY <2>4, <2>5, <2>6, <2>7, SeqEqual
  <2> QED BY <2>8 DEF a
<1> QED BY <1>3, <1>4, <1>5, <1>6, Zenon DEF LogAt, IsLog, t

\* What is read off a log's beginning is one too.
LEMMA PrefixOfLog ==
  ASSUME NEW k \in BOOLEAN, NEW x \in Seq(LogLines), NEW l \in Seq(LogLines),
         IsPrefix(x, l), IsLog(l, k)
  PROVE  IsLog(x, k)
<1>1. PICK e \in Early(k) : IsPrefix(l, e \o WholeLog(k))
  BY DEF IsLog
<1> DEFINE t == e \o WholeLog(k)
<1>2. t \in Seq(LogLines)
  BY WholeLogAt
<1> HIDE DEF t
<1>3. Len(x) <= Len(l) /\ \A i \in 1..Len(x) : x[i] = l[i]
  BY PrefixAt
<1>4. Len(l) <= Len(t) /\ \A i \in 1..Len(l) : l[i] = t[i]
  <2>1. IsPrefix(l, t)
    BY <1>1 DEF t
  <2> QED BY <1>2, <2>1, PrefixAt
<1>5. Len(x) <= Len(t) /\ \A i \in 1..Len(x) : x[i] = t[i]
  <2>1. Len(x) \in Nat /\ Len(l) \in Nat /\ Len(t) \in Nat
    BY <1>2, LenProperties
  <2> QED BY <1>3, <1>4, <2>1
<1>6. IsPrefix(x, t)
  BY <1>2, <1>5, PrefixAt
<1> QED BY <1>6, Zenon DEF IsLog, t

\* Once the lines of s have been read, a log that is x now will be l; lg has
\* the logs in between.
Reading(s, x, l) ==
  \E lg \in Seq(Seq(LogLines)) :
    /\ Len(lg) = Len(s) + 1 /\ lg[1] = x /\ lg[Len(s) + 1] = l
    /\ \A i \in 1..Len(s) : lg[i + 1] = Logged(lg[i], s[i])
    /\ \A i \in 1..(Len(s) + 1) : IsPrefix(lg[i], l)

\* A prefix is one of whatever grows from there.
LEMMA PrefixGrows ==
  ASSUME NEW x \in Seq(LogLines), NEW l \in Seq(LogLines), NEW z \in LogLines, IsPrefix(x, l)
  PROVE  IsPrefix(x, Append(l, z))
<1>1. Len(x) <= Len(l) /\ \A i \in 1..Len(x) : x[i] = l[i]
  BY PrefixAt
<1>2. /\ Append(l, z) \in Seq(LogLines) /\ Len(Append(l, z)) = Len(l) + 1
      /\ \A i \in 1..Len(l) : Append(l, z)[i] = l[i]
  BY QueueAppend
<1> DEFINE a == Append(l, z)
<1> HIDE DEF a
<1>3. Len(x) <= Len(a) /\ \A i \in 1..Len(x) : x[i] = a[i]
  <2>1. Len(x) \in Nat /\ Len(l) \in Nat
    BY LenProperties
  <2> QED BY <1>1, <1>2, <2>1 DEF a
<1>4. IsPrefix(x, a)
  BY <1>2, <1>3, PrefixAt DEF a
<1> QED BY <1>4 DEF a

\* A log is a prefix of itself.
LEMMA PrefixItself ==
  ASSUME NEW x \in Seq(LogLines)
  PROVE  IsPrefix(x, x)
BY PrefixAt, LenProperties

\* There is nothing to read.
LEMMA ReadingNothing ==
  ASSUME NEW x \in Seq(LogLines)
  PROVE  /\ Reading(<<>>, x, x)
         /\ \A l : Reading(<<>>, x, l) => l = x
<1>1. Len(<<>>) = 0 /\ Len(<<x>>) = 1 /\ <<x>> \in Seq(Seq(LogLines)) /\ <<x>>[1] = x
  OBVIOUS
<1>2. IsPrefix(x, x)
  BY PrefixItself
<1>3. \A i \in 1..(0 + 1) : i = 1
  OBVIOUS
<1>4. 1..0 = {}
  OBVIOUS
<1>5. Reading(<<>>, x, x)
  <2> DEFINE lg == <<x>>
             s == <<>>
  <2>1. lg \in Seq(Seq(LogLines)) /\ lg[1] = x /\ Len(lg) = 1 /\ Len(s) = 0
    BY <1>1
  <2> HIDE DEF lg, s
  <2>2. Len(lg) = Len(s) + 1 /\ lg[1] = x /\ lg[Len(s) + 1] = x
    BY <2>1
  <2>3. \A i \in 1..Len(s) : lg[i + 1] = Logged(lg[i], s[i])
    BY <2>1
  <2>4. \A i \in 1..(Len(s) + 1) : IsPrefix(lg[i], x)
    BY <1>2, <1>3, <2>1
  <2>5. Reading(s, x, x)
    BY <2>1, <2>2, <2>3, <2>4, Zenon DEF Reading
  <2> QED BY <2>5 DEF s
<1>6. ASSUME NEW l, Reading(<<>>, x, l) PROVE l = x
  <2> DEFINE s == <<>>
  <2>1. Len(s) = 0
    BY <1>1
  <2> HIDE DEF s
  <2>2. Reading(s, x, l)
    BY <1>6 DEF s
  <2>3. PICK lg : lg[1] = x /\ lg[Len(s) + 1] = l
    BY <2>2, Zenon DEF Reading
  <2> QED BY <2>1, <2>3
<1> QED BY <1>5, <1>6

\* The log as it is, and as it will be.
LEMMA ReadingLogs ==
  ASSUME NEW s \in Seq(Lines), NEW x, NEW l, Reading(s, x, l)
  PROVE  x \in Seq(LogLines) /\ l \in Seq(LogLines) /\ IsPrefix(x, l)
<1>1. PICK lg \in Seq(Seq(LogLines)) :
        /\ Len(lg) = Len(s) + 1 /\ lg[1] = x /\ lg[Len(s) + 1] = l
        /\ \A i \in 1..(Len(s) + 1) : IsPrefix(lg[i], l)
  BY Zenon DEF Reading
<1>2. 1 \in 1..Len(lg) /\ Len(s) + 1 \in 1..Len(lg)
  BY <1>1, LenProperties
<1> QED BY <1>1, <1>2, ElementOfSeq

\* A line that is printed is logged last.
LEMMA ReadingPrinted ==
  ASSUME NEW s \in Seq(Lines), NEW line \in Lines, NEW x, NEW l, Reading(s, x, l)
  PROVE  Reading(Append(s, line), x, Logged(l, line))
<1>1. PICK lg \in Seq(Seq(LogLines)) :
        /\ Len(lg) = Len(s) + 1 /\ lg[1] = x /\ lg[Len(s) + 1] = l
        /\ \A i \in 1..Len(s) : lg[i + 1] = Logged(lg[i], s[i])
        /\ \A i \in 1..(Len(s) + 1) : IsPrefix(lg[i], l)
  BY Zenon DEF Reading
<1>2. x \in Seq(LogLines) /\ l \in Seq(LogLines) /\ Len(s) \in Nat
  BY ReadingLogs, LenProperties
<1> DEFINE m == Logged(l, line)
           u == Append(s, line)
           lh == Append(lg, m)
<1>3. m \in Seq(LogLines) /\ IsPrefix(m, m)
      /\ \A y \in Seq(LogLines) : IsPrefix(y, l) => IsPrefix(y, m)
  <2>1. m = l \/ \E z \in LogLines : m = Append(l, z)
    <3>1. \A b \in BOOLEAN : <<"banner", b>> \in LogLines
      BY DEF LogLines
    <3>2. \A c \in LogCmds : <<"rows", c>> \in LogLines
      BY DEF LogLines
    <3> QED BY <1>2, <3>1, <3>2, LoggedIs
  <2>2. m \in Seq(LogLines)
    <3> HIDE DEF m
    <3>1. ASSUME NEW z \in LogLines PROVE Append(l, z) \in Seq(LogLines)
      BY <1>2, QueueAppend
    <3> QED BY <1>2, <2>1, <3>1
  <2>3. ASSUME NEW y \in Seq(LogLines), IsPrefix(y, l) PROVE IsPrefix(y, m)
    BY <1>2, <2>1, <2>3, PrefixGrows
  <2> QED BY <2>2, <2>3, PrefixItself
<1>4. /\ Len(u) = Len(s) + 1
      /\ \A i \in 1..Len(s) : u[i] = s[i]
      /\ u[Len(s) + 1] = line
  BY QueueAppend
<1> HIDE DEF m, u
<1>5. /\ lh \in Seq(Seq(LogLines)) /\ Len(lh) = Len(s) + 2
      /\ \A i \in 1..(Len(s) + 1) : lh[i] = lg[i] /\ lg[i] \in Seq(LogLines)
      /\ lh[Len(s) + 2] = m
  <2>1. /\ lh \in Seq(Seq(LogLines)) /\ Len(lh) = Len(lg) + 1
        /\ \A i \in 1..Len(lg) : lh[i] = lg[i]
        /\ lh[Len(lg) + 1] = m
    BY <1>3, QueueAppend
  <2>2. \A i \in 1..Len(lg) : lg[i] \in Seq(LogLines)
    BY ElementOfSeq
  <2>3. Len(lg) = Len(s) + 1 /\ Len(lg) + 1 = Len(s) + 2
    BY <1>1, <1>2
  <2> QED BY <2>1, <2>2, <2>3, Zenon
<1> HIDE DEF lh
<1>6. Len(lh) = Len(u) + 1 /\ lh[1] = x /\ lh[Len(u) + 1] = m
  BY <1>1, <1>2, <1>4, <1>5
<1>7. \A i \in 1..Len(u) : lh[i + 1] = Logged(lh[i], u[i])
  <2> SUFFICES ASSUME NEW i \in 1..Len(u) PROVE lh[i + 1] = Logged(lh[i], u[i])
    OBVIOUS
  <2>1. CASE i \in 1..Len(s)
    <3>1. i \in 1..(Len(s) + 1) /\ i + 1 \in 1..(Len(s) + 1)
      BY <1>2, <2>1
    <3> QED BY <1>1, <1>4, <1>5, <2>1, <3>1, Zenon
  <2>2. CASE i = Len(s) + 1
    <3>1. i \in 1..(Len(s) + 1) /\ i + 1 = Len(s) + 2
      BY <1>2, <2>2
    <3>2. lh[i] = l /\ lh[i + 1] = m /\ u[i] = line
      BY <1>1, <1>4, <1>5, <2>2, <3>1
    <3> QED BY <3>2, Zenon DEF m
  <2> QED BY <1>2, <1>4, <2>1, <2>2
<1>8. \A i \in 1..(Len(u) + 1) : IsPrefix(lh[i], m)
  <2> SUFFICES ASSUME NEW i \in 1..(Len(u) + 1) PROVE IsPrefix(lh[i], m)
    OBVIOUS
  <2>1. i \in 1..(Len(s) + 1) \/ i = Len(s) + 2
    BY <1>2, <1>4
  <2>2. CASE i \in 1..(Len(s) + 1)
    BY <1>1, <1>3, <1>5, <2>2, Zenon
  <2>3. CASE i = Len(s) + 2
    BY <1>3, <1>5, <2>3, Zenon
  <2> QED BY <2>1, <2>2, <2>3
<1>9. Reading(u, x, m)
  BY <1>5, <1>6, <1>7, <1>8, Zenon DEF Reading
<1> QED BY <1>9 DEF m, u

\* The first line is read.
LEMMA ReadingRead ==
  ASSUME NEW s \in Seq(Lines), s # <<>>, NEW x, NEW l, Reading(s, x, l)
  PROVE  Reading(Tail(s), Logged(x, Head(s)), l)
<1>1. PICK lg \in Seq(Seq(LogLines)) :
        /\ Len(lg) = Len(s) + 1 /\ lg[1] = x /\ lg[Len(s) + 1] = l
        /\ \A i \in 1..Len(s) : lg[i + 1] = Logged(lg[i], s[i])
        /\ \A i \in 1..(Len(s) + 1) : IsPrefix(lg[i], l)
  BY Zenon DEF Reading
<1> DEFINE u == Tail(s)
           lh == Tail(lg)
<1>2. /\ Len(s) \in Nat \ {0} /\ Len(u) = Len(s) - 1 /\ Head(s) = s[1]
      /\ \A i \in 1..(Len(s) - 1) : u[i] = s[i + 1]
  BY QueueTail
<1>3. /\ lh \in Seq(Seq(LogLines)) /\ Len(lh) = Len(s)
      /\ \A i \in 1..Len(s) : lh[i] = lg[i + 1]
  <2>1. lg # <<>>
    BY <1>1, <1>2
  <2>2. /\ lh \in Seq(Seq(LogLines)) /\ Len(lh) = Len(lg) - 1
        /\ \A i \in 1..(Len(lg) - 1) : lh[i] = lg[i + 1]
    BY <2>1, QueueTail
  <2>3. Len(lg) - 1 = Len(s)
    BY <1>1, <1>2
  <2> QED BY <2>2, <2>3
<1> HIDE DEF u, lh
<1>4. Len(lh) = Len(u) + 1 /\ lh[Len(u) + 1] = l
  <2>1. Len(u) + 1 = Len(s) /\ Len(s) \in 1..Len(s)
    BY <1>2
  <2>2. lh[Len(s)] = lg[Len(s) + 1] /\ Len(lh) = Len(s)
    BY <1>3, <2>1
  <2>3. lh[Len(s)] = l
    BY <1>1, <2>2
  <2> QED BY <2>1, <2>2, <2>3
<1>5. lh[1] = Logged(x, Head(s))
  <2>1. 1 \in 1..Len(s) /\ lh[1] = lg[1 + 1]
    BY <1>2, <1>3
  <2> QED BY <1>1, <1>2, <2>1, Zenon
<1>6. \A i \in 1..Len(u) : lh[i + 1] = Logged(lh[i], u[i])
  <2> SUFFICES ASSUME NEW i \in 1..Len(u) PROVE lh[i + 1] = Logged(lh[i], u[i])
    OBVIOUS
  <2>1. i \in 1..(Len(s) - 1) /\ i \in 1..Len(s) /\ i + 1 \in 1..Len(s)
    BY <1>2
  <2> QED BY <1>1, <1>2, <1>3, <2>1, Zenon
<1>7. \A i \in 1..(Len(u) + 1) : IsPrefix(lh[i], l)
  <2> SUFFICES ASSUME NEW i \in 1..(Len(u) + 1) PROVE IsPrefix(lh[i], l)
    OBVIOUS
  <2>1. i \in 1..Len(s) /\ i + 1 \in 1..(Len(s) + 1)
    BY <1>2
  <2> QED BY <1>1, <1>3, <2>1, Zenon
<1>8. Reading(u, Logged(x, Head(s)), l)
  BY <1>3, <1>4, <1>5, <1>6, <1>7, Zenon DEF Reading
<1> QED BY <1>8 DEF u

(***************************************************************************)
(* The script                                                              *)
(***************************************************************************)

Parts == <<"all", "keygen", "encaps", "decaps", "baseline">>
Asking == {"all", "keygen", "encaps", "decaps", "baseline", "test"}
Statements ==
  {Resp, GetOk, TrigD7, PwshGetStr("completed"), TargGetStr("INPUT"), TargGetStr("END")}
    \cup {Pwsh(cmd) : cmd \in {"stop", "trigsrc_sw", "targrst_1", "start"}}
    \cup {Targ(c) : c \in Asking}

\* What a part adds to a script.
LEMMA PartAt ==
  ASSUME NEW s \in Seq(Statements), NEW t \in Seq(Statements)
  PROVE  /\ s \o t \in Seq(Statements) /\ Len(s \o t) = Len(s) + Len(t)
         /\ \A i \in 1..Len(s) : (s \o t)[i] = s[i]
         /\ \A i \in 1..Len(t) : (s \o t)[Len(s) + i] = t[i]
<1>1. /\ s \o t \in Seq(Statements) /\ Len(s \o t) = Len(s) + Len(t)
      /\ \A i \in 1..(Len(s) + Len(t)) :
           (s \o t)[i] = IF i <= Len(s) THEN s[i] ELSE t[i - Len(s)]
  BY ConcatProperties
<1>2. Len(t) \in Nat /\ Len(s) \in Nat
  BY LenProperties
<1> DEFINE u == s \o t
<1> HIDE DEF u
<1>3. \A i \in 1..Len(s) : u[i] = s[i]
  <2>1. \A i \in 1..Len(s) : i \in 1..(Len(s) + Len(t)) /\ i <= Len(s)
    BY <1>2
  <2> QED BY <1>1, <2>1 DEF u
<1>4. \A i \in 1..Len(t) : u[Len(s) + i] = t[i]
  <2>1. \A i \in 1..Len(t) :
          Len(s) + i \in 1..(Len(s) + Len(t)) /\ ~(Len(s) + i <= Len(s)) /\ (Len(s) + i) - Len(s) = i
    BY <1>2
  <2> QED BY <1>1, <2>1 DEF u
<1> QED BY <1>1, <1>3, <1>4 DEF u

\* What a section adds.
LEMMA SectionAt ==
  ASSUME NEW s \in Seq(Statements), NEW c \in Asking
  PROVE  /\ s \o Section(c) \in Seq(Statements) /\ Len(s \o Section(c)) = Len(s) + 3
         /\ \A i \in 1..Len(s) : (s \o Section(c))[i] = s[i]
         /\ (s \o Section(c))[Len(s) + 1] = Targ(c)
         /\ (s \o Section(c))[Len(s) + 2] = PwshGetStr("completed")
         /\ (s \o Section(c))[Len(s) + 3] = TargGetStr("END")
<1>1. Targ(c) \in Statements /\ PwshGetStr("completed") \in Statements /\ TargGetStr("END") \in Statements
  BY Zenon DEF Statements
<1>2. \A x, y, z \in Statements :
        LET v == <<x, y, z>>
        IN  v \in Seq(Statements) /\ Len(v) = 3 /\ v[1] = x /\ v[2] = y /\ v[3] = z
  OBVIOUS
<1> DEFINE v == Section(c)
<1>3. /\ v \in Seq(Statements) /\ Len(v) = 3
      /\ v[1] = Targ(c) /\ v[2] = PwshGetStr("completed") /\ v[3] = TargGetStr("END")
  BY <1>1, <1>2, Zenon DEF Section
<1> HIDE DEF v
<1>4. /\ s \o v \in Seq(Statements) /\ Len(s \o v) = Len(s) + Len(v)
      /\ \A i \in 1..Len(s) : (s \o v)[i] = s[i]
      /\ \A i \in 1..Len(v) : (s \o v)[Len(s) + i] = v[i]
  BY <1>3, PartAt
<1>5. 1 \in 1..Len(v) /\ 2 \in 1..Len(v) /\ 3 \in 1..Len(v)
  BY <1>3
<1>6. (s \o v)[Len(s) + 1] = v[1] /\ (s \o v)[Len(s) + 2] = v[2] /\ (s \o v)[Len(s) + 3] = v[3]
  BY <1>4, <1>5, Zenon
<1> QED BY <1>3, <1>4, <1>6, Zenon DEF v

\* The statements of the set-up.
LEMMA SetupIs ==
  /\ Setup \in Seq(Statements) /\ Len(Setup) = 10
  /\ Setup[1] = Resp /\ Setup[2] = GetOk /\ Setup[3] = Pwsh("stop")
  /\ Setup[4] = Pwsh("trigsrc_sw") /\ Setup[5] = Pwsh("targrst_1")
  /\ Setup[6] = GetOk /\ Setup[7] = TrigD7 /\ Setup[8] = Pwsh("start")
  /\ Setup[9] = GetOk /\ Setup[10] = TargGetStr("INPUT")
<1>1. \A a, b, c, d, e, f, g, i \in Statements :
        LET v == <<a, b, c, d, e, b, f, g, b, i>>
        IN  /\ v \in Seq(Statements) /\ Len(v) = 10
            /\ v[1] = a /\ v[2] = b /\ v[3] = c /\ v[4] = d /\ v[5] = e
            /\ v[6] = b /\ v[7] = f /\ v[8] = g /\ v[9] = b /\ v[10] = i
  OBVIOUS
<1>2. \A cmd \in {"stop", "trigsrc_sw", "targrst_1", "start"} : Pwsh(cmd) \in Statements
  BY Zenon DEF Statements
<1>3. /\ Resp \in Statements /\ GetOk \in Statements /\ TrigD7 \in Statements
      /\ TargGetStr("INPUT") \in Statements
  BY Zenon DEF Statements
<1>4. /\ Pwsh("stop") \in Statements /\ Pwsh("trigsrc_sw") \in Statements
      /\ Pwsh("targrst_1") \in Statements /\ Pwsh("start") \in Statements
  BY <1>2
<1> QED BY <1>1, <1>3, <1>4, Zenon DEF Setup

\* The statements of the script.
LEMMA ScriptIs ==
  /\ Len(Script) = 29
  /\ \A i \in 1..10 : Script[i] = Setup[i]
  /\ \A j \in 1..5 : /\ Script[3 * j + 8] = Targ(Parts[j])
                     /\ Script[3 * j + 9] = PwshGetStr("completed")
                     /\ Script[3 * j + 10] = TargGetStr("END")
  /\ Script[26] = Targ("test") /\ Script[27] = TargGetStr("END")
  /\ Script[28] = Pwsh("trigsrc_sw") /\ Script[29] = GetOk
<1> DEFINE s1 == Setup \o Section("all")
           s2 == s1 \o Section("keygen")
           s3 == s2 \o Section("encaps")
           s4 == s3 \o Section("decaps")
           s5 == s4 \o Section("baseline")
           r == <<Targ("test"), TargGetStr("END"), Pwsh("trigsrc_sw"), GetOk>>
<1>1. \A a, b, c, d \in Statements :
        LET v == <<a, b, c, d>>
        IN  v \in Seq(Statements) /\ Len(v) = 4 /\ v[1] = a /\ v[2] = b /\ v[3] = c /\ v[4] = d
  OBVIOUS
<1>2. Script = s5 \o r
  BY Zenon DEF Script
<1>3. /\ r \in Seq(Statements) /\ Len(r) = 4
      /\ r[1] = Targ("test") /\ r[2] = TargGetStr("END") /\ r[3] = Pwsh("trigsrc_sw") /\ r[4] = GetOk
  <2>1. \A cmd \in {"stop", "trigsrc_sw", "targrst_1", "start"} : Pwsh(cmd) \in Statements
    BY Zenon DEF Statements
  <2>2. \A c \in Asking : Targ(c) \in Statements
    BY Zenon DEF Statements
  <2>3. "test" \in Asking
    BY DEF Asking
  <2>4. TargGetStr("END") \in Statements /\ GetOk \in Statements
    BY Zenon DEF Statements
  <2>5. Pwsh("trigsrc_sw") \in Statements /\ Targ("test") \in Statements
    BY <2>1, <2>2, <2>3
  <2> QED BY <1>1, <2>4, <2>5, Zenon
<1>4. /\ "all" \in Asking /\ "keygen" \in Asking /\ "encaps" \in Asking
      /\ "decaps" \in Asking /\ "baseline" \in Asking
  BY DEF Asking
<1> HIDE DEF r, s1, s2, s3, s4, s5
<1>5. /\ s1 \in Seq(Statements) /\ Len(s1) = 13
      /\ \A i \in 1..10 : s1[i] = Setup[i]
      /\ s1[11] = Targ("all") /\ s1[12] = PwshGetStr("completed") /\ s1[13] = TargGetStr("END")
  <2>1. /\ s1 \in Seq(Statements) /\ Len(s1) = Len(Setup) + 3
        /\ \A i \in 1..Len(Setup) : s1[i] = Setup[i]
        /\ s1[Len(Setup) + 1] = Targ("all")
        /\ s1[Len(Setup) + 2] = PwshGetStr("completed")
        /\ s1[Len(Setup) + 3] = TargGetStr("END")
    BY <1>4, SetupIs, SectionAt, Zenon DEF s1
  <2>2. Len(Setup) = 10 /\ Len(Setup) + 1 = 11 /\ Len(Setup) + 2 = 12 /\ Len(Setup) + 3 = 13
    <3>1. Len(Setup) = 10
      BY SetupIs, Zenon
    <3> QED BY <3>1
  <2> QED BY <2>1, <2>2, Zenon
<1>6. /\ s2 \in Seq(Statements) /\ Len(s2) = 16
      /\ \A i \in 1..13 : s2[i] = s1[i]
      /\ s2[14] = Targ("keygen") /\ s2[15] = PwshGetStr("completed") /\ s2[16] = TargGetStr("END")
  <2>1. /\ s2 \in Seq(Statements) /\ Len(s2) = Len(s1) + 3
        /\ \A i \in 1..Len(s1) : s2[i] = s1[i]
        /\ s2[Len(s1) + 1] = Targ("keygen")
        /\ s2[Len(s1) + 2] = PwshGetStr("completed")
        /\ s2[Len(s1) + 3] = TargGetStr("END")
    BY <1>4, <1>5, SectionAt, Zenon DEF s2
  <2>2. Len(s1) = 13 /\ Len(s1) + 1 = 14 /\ Len(s1) + 2 = 15 /\ Len(s1) + 3 = 16
    BY <1>5
  <2> QED BY <2>1, <2>2, Zenon
<1>7. /\ s3 \in Seq(Statements) /\ Len(s3) = 19
      /\ \A i \in 1..16 : s3[i] = s2[i]
      /\ s3[17] = Targ("encaps") /\ s3[18] = PwshGetStr("completed") /\ s3[19] = TargGetStr("END")
  <2>1. /\ s3 \in Seq(Statements) /\ Len(s3) = Len(s2) + 3
        /\ \A i \in 1..Len(s2) : s3[i] = s2[i]
        /\ s3[Len(s2) + 1] = Targ("encaps")
        /\ s3[Len(s2) + 2] = PwshGetStr("completed")
        /\ s3[Len(s2) + 3] = TargGetStr("END")
    BY <1>4, <1>6, SectionAt, Zenon DEF s3
  <2>2. Len(s2) = 16 /\ Len(s2) + 1 = 17 /\ Len(s2) + 2 = 18 /\ Len(s2) + 3 = 19
    BY <1>6
  <2> QED BY <2>1, <2>2, Zenon
<1>8. /\ s4 \in Seq(Statements) /\ Len(s4) = 22
      /\ \A i \in 1..19 : s4[i] = s3[i]
      /\ s4[20] = Targ("decaps") /\ s4[21] = PwshGetStr("completed") /\ s4[22] = TargGetStr("END")
  <2>1. /\ s4 \in Seq(Statements) /\ Len(s4) = Len(s3) + 3
        /\ \A i \in 1..Len(s3) : s4[i] = s3[i]
        /\ s4[Len(s3) + 1] = Targ("decaps")
        /\ s4[Len(s3) + 2] = PwshGetStr("completed")
        /\ s4[Len(s3) + 3] = TargGetStr("END")
    BY <1>4, <1>7, SectionAt, Zenon DEF s4
  <2>2. Len(s3) = 19 /\ Len(s3) + 1 = 20 /\ Len(s3) + 2 = 21 /\ Len(s3) + 3 = 22
    BY <1>7
  <2> QED BY <2>1, <2>2, Zenon
<1>9. /\ s5 \in Seq(Statements) /\ Len(s5) = 25
      /\ \A i \in 1..22 : s5[i] = s4[i]
      /\ s5[23] = Targ("baseline") /\ s5[24] = PwshGetStr("completed") /\ s5[25] = TargGetStr("END")
  <2>1. /\ s5 \in Seq(Statements) /\ Len(s5) = Len(s4) + 3
        /\ \A i \in 1..Len(s4) : s5[i] = s4[i]
        /\ s5[Len(s4) + 1] = Targ("baseline")
        /\ s5[Len(s4) + 2] = PwshGetStr("completed")
        /\ s5[Len(s4) + 3] = TargGetStr("END")
    BY <1>4, <1>8, SectionAt, Zenon DEF s5
  <2>2. Len(s4) = 22 /\ Len(s4) + 1 = 23 /\ Len(s4) + 2 = 24 /\ Len(s4) + 3 = 25
    BY <1>8
  <2> QED BY <2>1, <2>2, Zenon
<1>10. /\ Len(Script) = 29
       /\ \A i \in 1..25 : Script[i] = s5[i]
       /\ \A i \in 1..4 : Script[25 + i] = r[i]
  <2>1. /\ Len(Script) = Len(s5) + Len(r)
        /\ \A i \in 1..Len(s5) : Script[i] = s5[i]
        /\ \A i \in 1..Len(r) : Script[Len(s5) + i] = r[i]
    BY <1>2, <1>3, <1>9, PartAt, Zenon
  <2>2. Len(s5) = 25 /\ Len(r) = 4
    BY <1>3, <1>9
  <2> QED BY <2>1, <2>2
<1>11. \A i \in 1..10 : Script[i] = Setup[i]
  <2>1. \A i \in 1..10 : i \in 1..13 /\ i \in 1..16 /\ i \in 1..19 /\ i \in 1..22 /\ i \in 1..25
    OBVIOUS
  <2> SUFFICES ASSUME NEW i \in 1..10 PROVE Script[i] = Setup[i]
    OBVIOUS
  <2>2. s2[i] = Setup[i]
    BY <1>5, <1>6, <2>1, Zenon
  <2>3. s4[i] = Setup[i]
    BY <1>7, <1>8, <2>1, <2>2, Zenon
  <2> QED BY <1>9, <1>10, <2>1, <2>3, Zenon
<1>12. Script[26] = Targ("test") /\ Script[27] = TargGetStr("END")
       /\ Script[28] = Pwsh("trigsrc_sw") /\ Script[29] = GetOk
  <2>1. Script[26] = r[1] /\ Script[27] = r[2] /\ Script[28] = r[3] /\ Script[29] = r[4]
    BY <1>10
  <2> QED BY <1>3, <2>1, Zenon
<1>13. \A j \in 1..5 : /\ Script[3 * j + 8] = Targ(Parts[j])
                      /\ Script[3 * j + 9] = PwshGetStr("completed")
                      /\ Script[3 * j + 10] = TargGetStr("END")
  <2>1. Parts[1] = "all" /\ Parts[2] = "keygen" /\ Parts[3] = "encaps"
        /\ Parts[4] = "decaps" /\ Parts[5] = "baseline"
    BY DEF Parts
  <2>2. Script[11] = Targ(Parts[1]) /\ Script[12] = PwshGetStr("completed") /\ Script[13] = TargGetStr("END")
    BY <1>5, <1>6, <1>7, <1>8, <1>9, <1>10, <2>1
  <2>3. Script[14] = Targ(Parts[2]) /\ Script[15] = PwshGetStr("completed") /\ Script[16] = TargGetStr("END")
    BY <1>6, <1>7, <1>8, <1>9, <1>10, <2>1
  <2>4. Script[17] = Targ(Parts[3]) /\ Script[18] = PwshGetStr("completed") /\ Script[19] = TargGetStr("END")
    BY <1>7, <1>8, <1>9, <1>10, <2>1
  <2>5. Script[20] = Targ(Parts[4]) /\ Script[21] = PwshGetStr("completed") /\ Script[22] = TargGetStr("END")
    BY <1>8, <1>9, <1>10, <2>1
  <2>6. Script[23] = Targ(Parts[5]) /\ Script[24] = PwshGetStr("completed") /\ Script[25] = TargGetStr("END")
    BY <1>9, <1>10, <2>1
  <2>7. \A j \in 1..5 : j = 1 \/ j = 2 \/ j = 3 \/ j = 4 \/ j = 5
    OBVIOUS
  <2> QED BY <2>2, <2>3, <2>4, <2>5, <2>6, <2>7
<1> QED BY <1>10, <1>11, <1>12, <1>13

\* What a statement of the script does, by its number.
LEMMA StatementsAre ==
  /\ Len(Script) = 29
  /\ \A i \in {1} : Script[i].do = "resp"
  /\ \A i \in {2, 6, 9, 29} : Script[i].do = "ok"
  /\ \A i \in {3, 4, 5, 8, 28} : Script[i].do = "pwsh"
  /\ Script[3].arg = "stop" /\ Script[4].arg = "trigsrc_sw" /\ Script[5].arg = "targrst_1"
  /\ Script[8].arg = "start" /\ Script[28].arg = "trigsrc_sw"
  /\ Script[7].do = "trig"
  /\ Script[10].do = "targ_get_str" /\ Script[10].arg = "INPUT"
  /\ \A j \in 1..5 :
       /\ Script[3 * j + 8].do = "targ" /\ Script[3 * j + 8].arg = Parts[j]
       /\ Script[3 * j + 9].do = "pwsh_get_str" /\ Script[3 * j + 9].arg = "completed"
       /\ Script[3 * j + 10].do = "targ_get_str" /\ Script[3 * j + 10].arg = "END"
  /\ Script[26].do = "targ" /\ Script[26].arg = "test"
  /\ Script[27].do = "targ_get_str" /\ Script[27].arg = "END"
<1>2. /\ 1 \in 1..10 /\ 2 \in 1..10 /\ 3 \in 1..10 /\ 4 \in 1..10 /\ 5 \in 1..10
      /\ 6 \in 1..10 /\ 7 \in 1..10 /\ 8 \in 1..10 /\ 9 \in 1..10 /\ 10 \in 1..10
  OBVIOUS
<1>3. /\ Script[1] = Resp /\ Script[2] = GetOk /\ Script[3] = Pwsh("stop")
      /\ Script[4] = Pwsh("trigsrc_sw") /\ Script[5] = Pwsh("targrst_1")
      /\ Script[6] = GetOk /\ Script[7] = TrigD7 /\ Script[8] = Pwsh("start")
      /\ Script[9] = GetOk /\ Script[10] = TargGetStr("INPUT")
  BY <1>2, SetupIs, ScriptIs, Zenon
<1>4. /\ Script[1].do = "resp" /\ Script[2].do = "ok" /\ Script[6].do = "ok" /\ Script[9].do = "ok"
      /\ Script[29].do = "ok" /\ Script[7].do = "trig"
  <2>1. Script[29] = GetOk
    BY ScriptIs, Zenon
  <2> QED BY <1>3, <2>1
          DEF Resp, GetOk, TrigD7, Pwsh, Targ, TargGetStr, PwshGetStr
<1>5. /\ Script[3].do = "pwsh" /\ Script[3].arg = "stop"
      /\ Script[4].do = "pwsh" /\ Script[4].arg = "trigsrc_sw"
      /\ Script[5].do = "pwsh" /\ Script[5].arg = "targrst_1"
      /\ Script[8].do = "pwsh" /\ Script[8].arg = "start"
      /\ Script[28].do = "pwsh" /\ Script[28].arg = "trigsrc_sw"
  <2>1. Script[28] = Pwsh("trigsrc_sw")
    BY ScriptIs, Zenon
  <2> QED BY <1>3, <2>1
          DEF Resp, GetOk, TrigD7, Pwsh, Targ, TargGetStr, PwshGetStr
<1>6. /\ Script[10].do = "targ_get_str" /\ Script[10].arg = "INPUT"
      /\ Script[26].do = "targ" /\ Script[26].arg = "test"
      /\ Script[27].do = "targ_get_str" /\ Script[27].arg = "END"
  <2>1. Script[26] = Targ("test") /\ Script[27] = TargGetStr("END")
    BY ScriptIs, Zenon
  <2> QED BY <1>3, <2>1
          DEF Resp, GetOk, TrigD7, Pwsh, Targ, TargGetStr, PwshGetStr
<1>7. \A j \in 1..5 :
        /\ Script[3 * j + 8].do = "targ" /\ Script[3 * j + 8].arg = Parts[j]
        /\ Script[3 * j + 9].do = "pwsh_get_str" /\ Script[3 * j + 9].arg = "completed"
        /\ Script[3 * j + 10].do = "targ_get_str" /\ Script[3 * j + 10].arg = "END"
  <2>1. ASSUME NEW j \in 1..5
        PROVE  /\ Script[3 * j + 8] = Targ(Parts[j])
               /\ Script[3 * j + 9] = PwshGetStr("completed")
               /\ Script[3 * j + 10] = TargGetStr("END")
    BY ScriptIs, Zenon
  <2> QED BY <2>1 DEF Targ, PwshGetStr, TargGetStr
<1>8. Len(Script) = 29
  BY ScriptIs, Zenon
<1> QED BY <1>4, <1>5, <1>6, <1>7, <1>8

(***************************************************************************)
(* The invariant of a batch                                                *)
(***************************************************************************)

Events == Words \cup {"D7", "GETC", "SLEEP", "VERDICT", "FAIL"}

\* The firmware always has something to do, and a command is only sent to an
\* empty receive register.
ConsoleInv ==
  /\ todo \in Seq(Events) /\ todo # <<>> /\ todo[Len(todo)] \in {"GETC", "SLEEP"}
  /\ rx \in Letters \cup {"\n", NoByte}
  /\ toTarg \in {<<>>, <<"\n">>} \cup {<<c, "\n">> : c \in Letters}
  /\ toTarg \in {<<>>, <<"\n">>} \/ rx = NoByte
  /\ lost \subseteq {"\n"}

\* The image on the board is that of the target of this turn.
LoopInv ==
  /\ left \in 0..Targets /\ target \in BOOLEAN /\ hex \subseteq {target}
  /\ Running => build = target
  /\ h = 0 => log = <<>>
  /\ IsLog(log, target)

\* Until the measurements begin the shield answers commands, and the one for
\* the reset comes once, and before any question for the status.
ResetDue == "targrst_1" \in Range(toPwsh)

ResetFirst(s) ==
  \A i, j \in 1..Len(s) : i < j /\ s[j] = "targrst_1" => s[i] \notin {"status", "targrst_1"}

ShieldInv ==
  /\ acq = None /\ Range(fromPwsh) \subseteq {<<x>> : x \in Replies}
  /\ h = 1 => toPwsh = <<>> /\ fromPwsh = <<>>
  /\ h = 2 => Range(toPwsh) \subseteq {"status"}
  /\ h \in 3..5 => /\ Range(toPwsh) \subseteq {"stop", "trigsrc_sw"}
                   /\ Range(fromPwsh) \subseteq {<<"ack">>} /\ seen = {}
  /\ h = 6 => /\ Range(toPwsh) \subseteq {"stop", "trigsrc_sw", "targrst_1", "status"}
              /\ ResetFirst(toPwsh)
              /\ ResetDue => "status_ok" \notin seen \cup Kinds(fromPwsh)
  /\ h = 7 => /\ Range(toPwsh) \subseteq {"trigsrc_d7"}
              /\ "ack_trigsrc_d7" \in seen \cup Kinds(fromPwsh) => trig = "d7"
  /\ h \in 8..10 => trig = "d7"
  /\ h \in {8, 10} => toPwsh = <<>> /\ fromPwsh = <<>>
  /\ h = 9 => Range(toPwsh) \subseteq {"start", "status"} /\ (armed \/ "start" \in Range(toPwsh))
  /\ h = 10 => armed

\* The firmware prints its banner after the reset, and the script reads it
\* when it waits for the prompt.  What it printed before, at most a banner or
\* the rows of an interrupted measurement, stays in front.
Idle == {<<"INPUT", "GETC">>, <<"GETC">>}
Interrupted == {<<"END", "ROWS", "INPUT", "GETC">>, <<"ROWS", "INPUT", "GETC">>, <<"SLEEP">>}

BeforeReset(l) ==
  \/ todo \in {Start} \cup Interrupted /\ l = <<>>
  \/ todo \in Idle /\ l \in Early(build)

AfterReset(l) ==
  \/ todo = Start /\ l \in Early(build)
  \/ /\ todo \in Idle /\ \E e \in Early(build) : l = LogAt(e, build, 1)
     /\ "RESET" \in Kinds(fromTarg) \/ (h = 10 /\ "RESET" \in seen)

ResetAhead == h < 6 \/ (h = 6 /\ ResetDue)

BootInv ==
  /\ toTarg = <<>> /\ rx = NoByte /\ cur = None
  /\ \E l : /\ Reading(fromTarg, log, l)
            /\ IF ResetAhead THEN BeforeReset(l) ELSE AfterReset(l)

\* What a command still has to do, up to its pulse, its end and its rows.
Ahead(c) ==
  IF c = "z" THEN {<<"ZZZ", "D7", "END", "INPUT", "GETC">>, <<"D7", "END", "INPUT", "GETC">>}
             ELSE {<<"START", "D7", "END", "ROWS", "INPUT", "GETC">>, <<"D7", "END", "ROWS", "INPUT", "GETC">>}
Ending(c) == IF c = "z" THEN {<<"END", "INPUT", "GETC">>} ELSE {<<"END", "ROWS", "INPUT", "GETC">>}
RowsDue(c) == IF c = "z" THEN {} ELSE {<<"ROWS", "INPUT", "GETC">>}

\* Before command number j is sent nothing is under way.
Quiet(j, e) ==
  /\ todo = <<"GETC">> /\ rx = NoByte /\ toTarg = <<>> /\ fromTarg = <<>>
  /\ fromPwsh = <<>> /\ acq = None /\ log = LogAt(e, build, 2 * j - 1) /\ (j > 1 => ready)

\* It is on its way.
Asked(c, j, e) ==
  /\ todo = <<"GETC">>
  /\ (toTarg = <<c, "\n">> /\ rx = NoByte) \/ (toTarg \in {<<>>, <<"\n">>} /\ rx = c)
  /\ fromTarg = <<>> /\ fromPwsh = <<>> /\ acq = None /\ seen = {}
  /\ log = LogAt(e, build, 2 * j - 1) /\ (j > 1 => ready)

\* After its pulse there is one report on it: to come, on the line, or read.
Report(c, j, s, e) ==
  \/ /\ s = 1 /\ acq = c /\ fromPwsh = <<>>
     /\ "completed" \notin seen /\ log = LogAt(e, build, 2 * j - 1)
  \/ /\ s = 1 /\ acq = None /\ fromPwsh = <<<<"completed", c>>>>
     /\ "completed" \notin seen /\ log = LogAt(e, build, 2 * j - 1)
  \/ /\ s = 1 /\ acq = None /\ fromPwsh = <<>>
     /\ "completed" \in seen /\ log = LogAt(e, build, 2 * j)
  \/ s = 2 /\ acq = None /\ fromPwsh = <<>>

\* The firmware works on it, or is done: its rows come after the report.
Begun(c, j, s, e) ==
  /\ toTarg \in {<<>>, <<"\n">>} /\ rx \in {"\n", NoByte} /\ cur = c /\ ready
  /\ \/ /\ todo \in Ahead(c) /\ s = 1 /\ acq = None /\ fromPwsh = <<>>
        /\ "completed" \notin seen /\ log = LogAt(e, build, 2 * j - 1)
     \/ todo \in Ending(c) \cup RowsDue(c) \cup Idle /\ Report(c, j, s, e)
  /\ todo \in Ahead(c) \cup Ending(c) => "END" \notin seen \cup Kinds(fromTarg)
  /\ Reading(fromTarg, IF s = 1 THEN LogAt(e, build, 2 * j) ELSE log,
             LogAt(e, build, IF todo \in Idle /\ c # "z" THEN 2 * j + 1 ELSE 2 * j))

Ready == kem = build /\ trig = "d7" /\ armed /\ toPwsh = <<>>

\* Statement s of the section of command number j is next.
SectionInv(j, s) ==
  /\ Ready
  /\ \E e \in Early(build) :
       \/ s = 0 /\ Quiet(j, e)
       \/ s = 1 /\ Asked(Reported(build)[j], j, e)
       \/ s \in {1, 2} /\ Begun(Reported(build)[j], j, s, e)

\* The diagnostic test is not in the log.
Testing == {<<"TEST", "VERDICT", "INPUT", "GETC">>, <<"VERDICT", "INPUT", "GETC">>,
            <<"FAIL", "INPUT", "GETC">>}

RestInv ==
  /\ kem = build /\ acq = None
  /\ Range(toPwsh) \subseteq {"status", "trigsrc_sw"}
  /\ Range(fromPwsh) \subseteq {<<x>> : x \in Replies}
  /\ todo \in Idle \cup Testing
  /\ rx \in {"t", "\n", NoByte} /\ toTarg \in {<<>>, <<"\n">>, <<"t", "\n">>}
  /\ h = 26 => toTarg = <<>> /\ rx = NoByte
  /\ \E e \in Early(build) : Reading(fromTarg, log, LogAt(e, build, 10))

Basics == TypeOK /\ ConsoleInv /\ LoopInv

Stages ==
  /\ h \in 1..10 => ShieldInv /\ BootInv
  /\ \A j \in 1..5, s \in 0..2 : h = 3 * j + 8 + s => SectionInv(j, s)
  /\ h \in 26..29 => RestInv

BatchInv == Basics /\ Stages

\* Every place in the script is of one of the stages.
LEMMA Places ==
  ASSUME TypeOK
  PROVE  /\ h \in 0..30
         /\ h \in {0, 30} \/ h \in 1..10 \/ h \in 26..29
              \/ \E j \in 1..5, s \in 0..2 : h = 3 * j + 8 + s
         /\ Running <=> h \in 1..29
<1>1. h \in 0..30 /\ (Running <=> h \in 1..29)
  BY StatementsAre DEF TypeOK, Running
<1>2. ASSUME h \in 11..25 PROVE \E j \in 1..5, s \in 0..2 : h = 3 * j + 8 + s
  <2> DEFINE j == (h - 8) \div 3
             s == (h - 8) % 3
  <2>1. j \in 1..5 /\ s \in 0..2 /\ h = 3 * j + 8 + s
    BY <1>2
  <2> QED BY <2>1
<1> QED BY <1>1, <1>2

\* Where in the script there is what.
LEMMA AtIs ==
  ASSUME TypeOK
  PROVE  /\ At("resp") <=> h = 1
         /\ At("ok") <=> h \in {2, 6, 9, 29}
         /\ At("pwsh") <=> h \in {3, 4, 5, 8, 28}
         /\ At("trig") <=> h = 7
         /\ At("targ") <=> h = 26 \/ \E j \in 1..5 : h = 3 * j + 8
         /\ At("pwsh_get_str") <=> \E j \in 1..5 : h = 3 * j + 9
         /\ At("targ_get_str") <=> h \in {10, 27} \/ \E j \in 1..5 : h = 3 * j + 10
<1>1. h \in 0..30 /\ (Running <=> h \in 1..29)
  BY Places
<1>2. \/ h \in {0, 30} \/ h = 1 \/ h \in {2, 6, 9, 29} \/ h \in {3, 4, 5, 8, 28} \/ h = 7
      \/ h = 10 \/ h = 26 \/ h = 27
      \/ \E j \in 1..5 : h = 3 * j + 8 \/ h = 3 * j + 9 \/ h = 3 * j + 10
  <2>1. h \in {0, 30} \/ h \in 1..10 \/ h \in 26..29 \/ \E j \in 1..5, s \in 0..2 : h = 3 * j + 8 + s
    BY Places
  <2> QED BY <2>1
<1>3. h \in {0, 30} => ~Running
  BY <1>1
<1>4. ASSUME NEW d, Script[h].do = d, h \in 1..29
      PROVE  \A x : At(x) <=> x = d
  BY <1>1, <1>4, Zenon DEF At, Stmt
<1> DEFINE R == h = 1
           O == h \in {2, 6, 9, 29}
           P == h \in {3, 4, 5, 8, 28}
           T == h = 7
           C == h = 26 \/ \E j \in 1..5 : h = 3 * j + 8
           W == \E j \in 1..5 : h = 3 * j + 9
           G == h \in {10, 27} \/ \E j \in 1..5 : h = 3 * j + 10
<1>5. /\ R => h \in 1..29 /\ Script[h].do = "resp" /\ ~(O \/ P \/ T \/ C \/ W \/ G)
      /\ O => h \in 1..29 /\ Script[h].do = "ok" /\ ~(R \/ P \/ T \/ C \/ W \/ G)
      /\ P => h \in 1..29 /\ Script[h].do = "pwsh" /\ ~(R \/ O \/ T \/ C \/ W \/ G)
      /\ T => h \in 1..29 /\ Script[h].do = "trig" /\ ~(R \/ O \/ P \/ C \/ W \/ G)
  BY StatementsAre
<1>6. /\ C => h \in 1..29 /\ Script[h].do = "targ" /\ ~(R \/ O \/ P \/ T \/ W \/ G)
      /\ W => h \in 1..29 /\ Script[h].do = "pwsh_get_str" /\ ~(R \/ O \/ P \/ T \/ C \/ G)
      /\ G => h \in 1..29 /\ Script[h].do = "targ_get_str" /\ ~(R \/ O \/ P \/ T \/ C \/ W)
  BY StatementsAre
<1>7. R \/ O \/ P \/ T \/ C \/ W \/ G \/ ~Running
  BY <1>2, <1>3
<1>8. ~Running => \A x : ~At(x)
  BY Zenon DEF At
<1>9. ~Running => ~(R \/ O \/ P \/ T \/ C \/ W \/ G)
  BY <1>1
<1> HIDE DEF R, O, P, T, C, W, G
<1>10. /\ At("resp") <=> R
       /\ At("ok") <=> O
       /\ At("pwsh") <=> P
       /\ At("trig") <=> T
       /\ At("targ") <=> C
       /\ At("pwsh_get_str") <=> W
       /\ At("targ_get_str") <=> G
  BY <1>4, <1>5, <1>6, <1>7, <1>8, <1>9
<1> QED BY <1>10 DEF R, O, P, T, C, W, G

\* A line that the firmware prints, and what it adds to the log.
LEMMA PrintedIs ==
  ASSUME TypeOK, NEW w \in Words, NEW l \in Seq(LogLines)
  PROVE  /\ Printed(w) \in Lines /\ Printed(w)[1] = w
         /\ w \notin {"RESET", "ROWS"} => Logged(l, Printed(w)) = l
         /\ w = "RESET" => Logged(l, Printed(w)) = Append(l, <<"banner", build>>)
         /\ w = "ROWS" => Logged(l, Printed(w)) = Append(l, <<"rows", cur>>)
<1>1. build \in BOOLEAN /\ cur \in Letters \cup {None}
  BY DEF TypeOK
<1>2. CASE w \notin {"RESET", "ROWS"}
  <2>1. Printed(w) = <<w>>
    BY <1>2, Zenon DEF Printed
  <2>2. Printed(w) \in Lines
    BY <1>2, <2>1, Zenon DEF Lines
  <2>3. Printed(w)[1] = w
    BY <2>1
  <2>4. Logged(l, Printed(w)) = l
    BY <1>2, <2>3, Zenon DEF Logged
  <2> QED BY <1>2, <2>2, <2>3, <2>4
<1>3. CASE w = "RESET"
  <2>1. Printed(w) = <<"RESET", build>>
    <3>1. "RESET" # "ROWS"
      OBVIOUS
    <3> QED BY <1>3, <3>1, Zenon DEF Printed
  <2>2. Printed(w) \in Lines
    <3>1. \A b \in BOOLEAN : <<"RESET", b>> \in {"RESET"} \X BOOLEAN
      OBVIOUS
    <3> QED BY <1>1, <2>1, <3>1, Zenon DEF Lines
  <2>3. Printed(w)[1] = "RESET" /\ Printed(w)[2] = build /\ "RESET" # "ROWS"
    BY <2>1
  <2>4. Logged(l, Printed(w)) = Append(l, <<"banner", build>>)
    BY <2>3, Zenon DEF Logged
  <2> QED BY <1>3, <2>2, <2>3, <2>4
<1>4. CASE w = "ROWS"
  <2>1. Printed(w) = <<"ROWS", cur>>
    BY <1>4, Zenon DEF Printed
  <2>2. Printed(w) \in Lines
    <3>1. \A c \in Letters \cup {None} : <<"ROWS", c>> \in {"ROWS"} \X (Letters \cup {None})
      OBVIOUS
    <3> QED BY <1>1, <2>1, <3>1, Zenon DEF Lines
  <2>3. Printed(w)[1] = "ROWS" /\ Printed(w)[2] = cur /\ "RESET" # "ROWS"
    BY <2>1
  <2>4. Logged(l, Printed(w)) = Append(l, <<"rows", cur>>)
    BY <2>3, Zenon DEF Logged
  <2> QED BY <1>4, <2>2, <2>3, <2>4
<1> QED BY <1>2, <1>3, <1>4

\* What is read and what is printed next differ in the lists' ends only.
LEMMA KindsGrow ==
  ASSUME NEW s \in Seq(Lines), NEW line \in Lines
  PROVE  Kinds(Append(s, line)) = Kinds(s) \cup {line[1]}
<1>1. Range(Append(s, line)) = Range(s) \cup {line}
  BY QueueAppend
<1> QED BY <1>1, Zenon DEF Kinds

\* Lists of what the firmware does next.
LEMMA TodoIs ==
  ASSUME NEW t \in {Start} \cup Interrupted \cup Idle \cup Testing
  PROVE  /\ Head(t) \in {"RESET", "INPUT", "GETC", "END", "ROWS", "SLEEP", "TEST", "VERDICT", "FAIL"}
         /\ Head(t) = "RESET" <=> t = Start
         /\ Head(t) = "GETC" <=> t = <<"GETC">>
         /\ Head(t) \in {"TEST", "VERDICT", "FAIL"} <=> t \in Testing
         /\ Head(t) \in {"END", "ROWS", "SLEEP"} <=> t \in Interrupted
         /\ Head(t) \in {"INPUT", "GETC"} <=> t \in Idle
         /\ Head(t) \in {"RESET", "ROWS", "FAIL", "INPUT"} => Tail(t) \in Idle
         /\ Head(t) = "END" => Tail(t) = <<"ROWS", "INPUT", "GETC">>
         /\ Head(t) = "TEST" => Tail(t) = <<"VERDICT", "INPUT", "GETC">>
         /\ Head(t) = "VERDICT" => Tail(t) \in Idle /\ [t EXCEPT ![1] = "FAIL"] = <<"FAIL", "INPUT", "GETC">>
<1> DEFINE e == <<"END", "ROWS", "INPUT", "GETC">>
           r == <<"ROWS", "INPUT", "GETC">>
           z == <<"SLEEP">>
           i == <<"INPUT", "GETC">>
           g == <<"GETC">>
           x == <<"TEST", "VERDICT", "INPUT", "GETC">>
           v == <<"VERDICT", "INPUT", "GETC">>
           f == <<"FAIL", "INPUT", "GETC">>
           Failed(u) == [u EXCEPT ![1] = "FAIL"]
<1>1. Head(Start) = "RESET" /\ Tail(Start) = i
  BY DEF Start
<1>2. Head(e) = "END" /\ Tail(e) = r /\ Head(r) = "ROWS" /\ Tail(r) = i /\ Head(z) = "SLEEP"
  OBVIOUS
<1>3. Head(i) = "INPUT" /\ Tail(i) = g /\ Head(g) = "GETC"
  OBVIOUS
<1>4. /\ Head(x) = "TEST" /\ Tail(x) = v /\ Head(v) = "VERDICT" /\ Tail(v) = i
      /\ Head(f) = "FAIL" /\ Tail(f) = i /\ Failed(v) = f
  OBVIOUS
<1>5. Interrupted = {e, r, z} /\ Idle = {i, g} /\ Testing = {x, v, f}
  BY DEF Interrupted, Idle, Testing
<1> HIDE DEF e, r, z, i, g, x, v, f, Failed
<1>6. t \in {Start, e, r, z, i, g, x, v, f}
  BY <1>5
<1>7. /\ Head(t) \in {"RESET", "INPUT", "GETC", "END", "ROWS", "SLEEP", "TEST", "VERDICT", "FAIL"}
      /\ Head(t) = "RESET" <=> t = Start
      /\ Head(t) = "GETC" <=> t = g
      /\ Head(t) \in {"TEST", "VERDICT", "FAIL"} <=> t \in Testing
      /\ Head(t) \in {"END", "ROWS", "SLEEP"} <=> t \in Interrupted
      /\ Head(t) \in {"INPUT", "GETC"} <=> t \in Idle
  BY <1>1, <1>2, <1>3, <1>4, <1>5, <1>6
<1>8. /\ Head(t) \in {"RESET", "ROWS", "FAIL", "INPUT"} => Tail(t) \in Idle
      /\ Head(t) = "END" => Tail(t) = r
      /\ Head(t) = "TEST" => Tail(t) = v
      /\ Head(t) = "VERDICT" => Tail(t) \in Idle /\ Failed(t) = f
  BY <1>1, <1>2, <1>3, <1>4, <1>5, <1>6
<1> QED BY <1>7, <1>8 DEF e, r, z, i, g, x, v, f, Failed

\* What is left of a command, event by event.
LEMMA WorkIs ==
  ASSUME NEW c \in {"a", "k", "e", "s", "d", "v", "z"}, NEW t
  PROVE  /\ t \in Ahead(c) => /\ Head(t) \in {"START", "ZZZ"} => Tail(t) \in Ahead(c)
                              /\ Head(t) = "D7" => Tail(t) \in Ending(c)
                              /\ Head(t) \in {"START", "ZZZ", "D7"}
         /\ t \in Ending(c) => /\ Head(t) = "END"
                               /\ c # "z" => Tail(t) \in RowsDue(c)
                               /\ c = "z" => Tail(t) \in Idle
         /\ t \in RowsDue(c) => Head(t) = "ROWS" /\ Tail(t) \in Idle /\ c # "z"
         /\ t \in Idle => t = <<"GETC">> \/ (Head(t) = "INPUT" /\ Tail(t) = <<"GETC">>)
         /\ t \in Idle => t \notin Ahead(c) \cup Ending(c) \cup RowsDue(c)
         /\ t \in RowsDue(c) => t \notin Ahead(c) \cup Ending(c)
         /\ t \in Ending(c) => t \notin Ahead(c)
<1> DEFINE a1 == <<"ZZZ", "D7", "END", "INPUT", "GETC">>
           a2 == <<"D7", "END", "INPUT", "GETC">>
           a3 == <<"END", "INPUT", "GETC">>
           b1 == <<"START", "D7", "END", "ROWS", "INPUT", "GETC">>
           b2 == <<"D7", "END", "ROWS", "INPUT", "GETC">>
           b3 == <<"END", "ROWS", "INPUT", "GETC">>
           b4 == <<"ROWS", "INPUT", "GETC">>
           i == <<"INPUT", "GETC">>
           g == <<"GETC">>
<1>1. /\ Head(a1) = "ZZZ" /\ Tail(a1) = a2 /\ Head(a2) = "D7" /\ Tail(a2) = a3
      /\ Head(a3) = "END" /\ Tail(a3) = i
  OBVIOUS
<1>2. /\ Head(b1) = "START" /\ Tail(b1) = b2 /\ Head(b2) = "D7" /\ Tail(b2) = b3
      /\ Head(b3) = "END" /\ Tail(b3) = b4 /\ Head(b4) = "ROWS" /\ Tail(b4) = i
  OBVIOUS
<1>3. Head(i) = "INPUT" /\ Tail(i) = g /\ Head(g) = "GETC"
  OBVIOUS
<1>4. /\ Ahead(c) = IF c = "z" THEN {a1, a2} ELSE {b1, b2}
      /\ Ending(c) = IF c = "z" THEN {a3} ELSE {b3}
      /\ RowsDue(c) = IF c = "z" THEN {} ELSE {b4}
      /\ Idle = {i, g}
  BY Zenon DEF Ahead, Ending, RowsDue, Idle
<1> HIDE DEF a1, a2, a3, b1, b2, b3, b4, i, g
<1>5. /\ t \in Ahead(c) => /\ Head(t) \in {"START", "ZZZ"} => Tail(t) \in Ahead(c)
                           /\ Head(t) = "D7" => Tail(t) \in Ending(c)
                           /\ Head(t) \in {"START", "ZZZ", "D7"}
      /\ t \in Ending(c) => /\ Head(t) = "END"
                            /\ c # "z" => Tail(t) \in RowsDue(c)
                            /\ c = "z" => Tail(t) \in Idle
      /\ t \in RowsDue(c) => Head(t) = "ROWS" /\ Tail(t) \in Idle /\ c # "z"
  BY <1>1, <1>2, <1>3, <1>4
<1>6. t \in Idle => t = g \/ (Head(t) = "INPUT" /\ Tail(t) = g)
  BY <1>3, <1>4
<1>7. /\ t \in Idle => Head(t) \in {"INPUT", "GETC"}
      /\ t \in RowsDue(c) => Head(t) = "ROWS"
      /\ t \in Ending(c) => Head(t) = "END"
      /\ t \in Ahead(c) => Head(t) \in {"START", "ZZZ", "D7"}
  BY <1>1, <1>2, <1>3, <1>4
<1> QED BY <1>5, <1>6, <1>7 DEF g

(***************************************************************************)
(* Types                                                                   *)
(***************************************************************************)

\* TypeOK with its sets named.
Answers == {<<x>> : x \in Replies} \cup {<<"completed", c>> : c \in Letters}
Stamps == Words \cup Replies \cup {"completed"}

Typed ==
  /\ h \in 0..30 /\ seen \subseteq Stamps
  /\ asked \in BOOLEAN /\ kem \in BOOLEAN /\ armed \in BOOLEAN /\ build \in BOOLEAN /\ ready \in BOOLEAN
  /\ toTarg \in Seq(Bytes) /\ fromTarg \in Seq(Lines)
  /\ toPwsh \in Seq(PwshCmds) /\ fromPwsh \in Seq(Answers)
  /\ trig \in {"sw", "d7"} /\ acq \in Letters \cup {None} /\ refusals \in 0..MaxRefusals
  /\ rx \in Bytes \cup {NoByte} /\ cur \in Letters \cup {None} /\ lost \subseteq Bytes
  /\ log \in Seq(LogLines)

\* It is the same, for the script as it is.
LEMMA TypeIs == TypeOK <=> Typed
<1>1. Len(Script) + 1 = 30
  BY StatementsAre
<1>2. ({"banner"} \X BOOLEAN) \cup ({"watt", "rows"} \X (Letters \cup {None})) = LogLines
  <2>1. Letters \cup {None} = LogCmds
    BY DEF Letters, LogCmds
  <2> QED BY <2>1, Zenon DEF LogLines
<1>3. {asked, kem, armed, build, ready} \subseteq BOOLEAN
        <=> asked \in BOOLEAN /\ kem \in BOOLEAN /\ armed \in BOOLEAN /\ build \in BOOLEAN /\ ready \in BOOLEAN
  BY Zenon
<1> QED BY <1>1, <1>2, <1>3, Zenon DEF TypeOK, Typed, Answers, Stamps

\* The same of the next state.
LEMMA TypeIsNext == TypeOK' <=> Typed'
BY TypeIs, PTL


\* What the firmware is to do next, and after that.
LEMMA TodoAhead ==
  ASSUME ConsoleInv
  PROVE  /\ Head(todo) \in Events
         /\ Head(todo) \notin {"GETC", "SLEEP"} =>
              Tail(todo) \in Seq(Events) /\ Tail(todo) # <<>> /\ Tail(todo)[Len(Tail(todo))] \in {"GETC", "SLEEP"}
         /\ LET t == [todo EXCEPT ![1] = "FAIL"]
            IN  Head(todo) = "VERDICT" => t \in Seq(Events) /\ t # <<>> /\ t[Len(t)] \in {"GETC", "SLEEP"}
<1>1. todo \in Seq(Events) /\ todo # <<>> /\ todo[Len(todo)] \in {"GETC", "SLEEP"}
  BY DEF ConsoleInv
<1> DEFINE u == Tail(todo)
           t == [todo EXCEPT ![1] = "FAIL"]
<1>2. /\ Head(todo) \in Events /\ u \in Seq(Events) /\ Len(todo) \in Nat \ {0} /\ Len(u) = Len(todo) - 1
      /\ Head(todo) = todo[1] /\ \A i \in 1..(Len(todo) - 1) : u[i] = todo[i + 1]
  BY <1>1, QueueTail
<1>3. ASSUME Head(todo) \notin {"GETC", "SLEEP"}
      PROVE  u # <<>> /\ u[Len(u)] \in {"GETC", "SLEEP"}
  <2>1. Len(todo) # 1
    BY <1>1, <1>2, <1>3
  <2>2. Len(u) \in 1..(Len(todo) - 1) /\ Len(u) + 1 = Len(todo)
    BY <1>2, <2>1
  <2>3. u[Len(u)] = todo[Len(todo)]
    BY <1>2, <2>2
  <2>4. u # <<>>
    BY <1>2, <2>2, EmptySeq
  <2> QED BY <1>1, <2>3, <2>4
<1>4. ASSUME Head(todo) = "VERDICT"
      PROVE  t \in Seq(Events) /\ t # <<>> /\ t[Len(t)] \in {"GETC", "SLEEP"}
  <2>1. Len(todo) # 1 /\ "FAIL" \in Events
    BY <1>1, <1>2, <1>4 DEF Events
  <2>2. todo \in [1..Len(todo) -> Events]
    BY <1>1, LenProperties
  <2>3. t \in [1..Len(todo) -> Events] /\ \A i \in 1..Len(todo) : i # 1 => t[i] = todo[i]
    BY <2>1, <2>2
  <2> HIDE DEF t
  <2>4. t \in Seq(Events) /\ Len(t) = Len(todo)
    BY <1>2, <2>3, LenProperties
  <2>5. Len(todo) \in 1..Len(todo)
    BY <1>2
  <2>6. t # <<>>
    BY <1>2, <2>4, EmptySeq
  <2> QED BY <1>1, <2>1, <2>3, <2>4, <2>5, <2>6
<1> HIDE DEF u
<1> QED BY <1>2, <1>3, <1>4 DEF u

\* What a command byte makes the firmware do.
LEMMA WorkType ==
  ASSUME NEW b \in Letters \cup {"\n"}, NEW init \in BOOLEAN
  PROVE  LET t == Work(b, init)
         IN  t \in Seq(Events) /\ t # <<>> /\ t[Len(t)] = "GETC"
<1> DEFINE t1 == <<"TEST", "VERDICT", "START", "D7", "END", "ROWS", "INPUT", "GETC">>
           t2 == <<"START", "D7", "END", "ROWS", "INPUT", "GETC">>
           t3 == <<"TEST", "VERDICT", "INPUT", "GETC">>
           t4 == <<"ZZZ", "D7", "END", "INPUT", "GETC">>
           t5 == <<"RANDOM", "INPUT", "GETC">>
           t6 == <<"INPUT", "GETC">>
           P(t) == t \in Seq(Events) /\ t # <<>> /\ t[Len(t)] = "GETC"
<1>1. P(t1)
  BY DEF Events, Words
<1>2. P(t2)
  BY DEF Events, Words
<1>3. P(t3)
  BY DEF Events, Words
<1>4. P(t4)
  BY DEF Events, Words
<1>5. P(t5)
  BY DEF Events, Words
<1>6. P(t6)
  BY DEF Events, Words
<1>7. Work(b, init) \in {t1, t2, t3, t4, t5, t6}
  <2>1. b # "x"
    BY DEF Letters
  <2> HIDE DEF t1, t2, t3, t4, t5, t6
  <2> QED BY <2>1, Zenon DEF Work, t1, t2, t3, t4, t5, t6
<1> DEFINE w == Work(b, init)
<1> HIDE DEF w, t1, t2, t3, t4, t5, t6, P
<1>8. P(w)
  <2>1. w \in {t1, t2, t3, t4, t5, t6}
    BY <1>7 DEF w
  <2> QED BY <1>1, <1>2, <1>3, <1>4, <1>5, <1>6, <2>1
<1> QED BY <1>8 DEF P, w

\* The image on the board is of the kind the script then measures.
LEMMA ByteIs ==
  ASSUME NEW c \in Asking
  PROVE  Byte(c) \in Letters
<1>1. /\ Byte("all") = "a" /\ Byte("keygen") = "k" /\ Byte("baseline") = "z" /\ Byte("test") = "t"
      /\ Byte("encaps") = IF kem THEN "e" ELSE "s"
      /\ Byte("decaps") = IF kem THEN "d" ELSE "v"
  BY DEF Byte
<1>2. \A x \in {"a", "k", "e", "d", "s", "v", "z", "t"} : x \in Letters
  BY DEF Letters
<1>3. Byte("encaps") \in {"e", "s"} /\ Byte("decaps") \in {"d", "v"}
  BY <1>1, Zenon
<1>4. c \in {"all", "keygen", "encaps", "decaps", "baseline", "test"}
  BY DEF Asking
<1> QED BY <1>1, <1>2, <1>3, <1>4, Zenon

\* The types that the steps of the target and of the wire touch.
LEMMA TargetTypes ==
  ASSUME Typed, ConsoleInv, Target \/ WireByte
  PROVE  Typed'
<1> USE DEF Typed
<1>1. \A w \in Words : Printed(w) \in Lines /\ Printed(w)[1] = w
  BY TypeIs, PrintedIs, EmptySeq, Zenon
<1>8. ASSUME NEW w \in Words PROVE Append(fromTarg, Printed(w)) \in Seq(Lines)
  <2>1. Printed(w) \in Lines
    BY <1>1
  <2> QED BY <2>1, QueueAppend
<1>2. Letters \cup {"\n"} \subseteq Bytes /\ NoByte \notin Bytes
  BY BytesAssumption, ConsoleAssumption
<1>3. CASE TargPrint
  <2>1. Head(todo) \in Events /\ Head(todo) \notin Silent
    BY <1>3, TodoAhead DEF TargPrint, SendLine
  <2> DEFINE w == IF Head(todo) = "FAIL" THEN "END" ELSE Head(todo)
  <2>2. w \in Words
    BY <2>1 DEF Events, Silent, Words
  <2>3. fromTarg' = Append(fromTarg, Printed(w))
    BY <1>3 DEF TargPrint, Emit
  <2> HIDE DEF w
  <2>4. fromTarg' \in Seq(Lines)
    BY <1>8, <2>2, <2>3
  <2> QED BY <1>3, <2>4 DEF TargPrint, SendLine, script, shield
<1>4. CASE TargVerdict
  <2>1. "END" \in Words /\ "NOTE" \in Words
    BY DEF Words
  <2>2. fromTarg' = Append(fromTarg, Printed("END")) \/ fromTarg' = Append(fromTarg, Printed("NOTE"))
    BY <1>4 DEF TargVerdict, Emit
  <2>3. fromTarg' \in Seq(Lines)
    BY <1>8, <2>1, <2>2
  <2> QED BY <1>4, <2>3 DEF TargVerdict, Pass, Note, script, shield
<1>5. CASE TargPulse
  BY <1>5 DEF TargPulse, Pulse, script, wires
<1>6. CASE TargGetc
  <2>1. rx \in Letters \cup {"\n"}
    BY <1>6 DEF TargGetc, Getc, ConsoleInv
  <2>2. cur' \in Letters \cup {None} /\ rx' = NoByte /\ ready' \in BOOLEAN
    <3>1. ready' = (ready \/ IsMeasure(rx) \/ IsTest(rx))
      BY <1>6 DEF TargGetc, Getc
    <3>2. ready' \in BOOLEAN
      BY <3>1, Zenon
    <3> QED BY <1>6, <2>1, <3>2 DEF TargGetc, Getc
  <2> QED BY <1>6, <2>2 DEF TargGetc, Getc, script, wires, shield
<1>7. CASE WireByte
  <2>1. Head(toTarg) \in Bytes /\ toTarg' \in Seq(Bytes)
    BY <1>7, QueueTail DEF WireByte
  <2> QED BY <1>7, <2>1 DEF WireByte, Receive, script, shield
<1> QED BY <1>3, <1>4, <1>5, <1>6, <1>7 DEF Target

\* The types that the steps of the shield touch.
LEMMA ShieldTypes ==
  ASSUME Typed, Shield
  PROVE  Typed'
<1> USE DEF Typed
<1>1. /\ \A x \in Replies : <<x>> \in Answers
      /\ \A c \in Letters : <<"completed", c>> \in Answers
  BY Zenon DEF Answers
<1>2. ASSUME NEW x \in Replies, toPwsh # <<>>, Answer(x)
      PROVE  toPwsh' \in Seq(PwshCmds) /\ fromPwsh' \in Seq(Answers)
  BY <1>1, <1>2, QueueAppend, QueueTail DEF Answer
<1>3. CASE ShieldRefuses
  <2>1. "error" \in Replies
    BY DEF Replies
  <2>2. toPwsh' \in Seq(PwshCmds) /\ fromPwsh' \in Seq(Answers)
    BY <1>2, <1>3, <2>1 DEF ShieldRefuses
  <2>3. refusals' \in 0..MaxRefusals
    BY <1>3, RefusalAssumption DEF ShieldRefuses
  <2> QED BY <1>3, <2>2, <2>3 DEF ShieldRefuses, script, console
<1>4. ASSUME NEW cmd \in PwshCmds, ShieldTakes(cmd)
      PROVE  Typed'
  <2>1. Reply(cmd) \in Replies
    <3>1. Reply(cmd) \in {"status_ok", "ack_trigsrc_d7", "ack"}
      BY Zenon DEF Reply
    <3> QED BY <3>1 DEF Replies
  <2>2. toPwsh' \in Seq(PwshCmds) /\ fromPwsh' \in Seq(Answers)
    BY <1>2, <1>4, <2>1 DEF ShieldTakes
  <2>3. /\ trig' \in {"sw", "d7"} /\ armed' \in BOOLEAN /\ acq' \in Letters \cup {None}
        /\ rx' \in Bytes \cup {NoByte} /\ ready' \in BOOLEAN /\ cur' = cur /\ lost' = lost
    BY <1>4 DEF ShieldTakes, console
  <2> QED BY <1>4, <2>2, <2>3 DEF ShieldTakes, script
<1>5. CASE ShieldReport
  <2>1. acq \in Letters
    BY <1>5 DEF ShieldReport
  <2>2. fromPwsh' \in Seq(Answers)
    BY <1>1, <1>5, <2>1, QueueAppend DEF ShieldReport
  <2> QED BY <1>5, <2>2 DEF ShieldReport, script, console
<1> QED BY <1>3, <1>4, <1>5 DEF Shield

\* A command is sent for one of the parts, or for the test.
LEMMA AsksFor ==
  ASSUME TypeOK, At("targ")
  PROVE  Stmt.arg \in Asking
<1>1. h = 26 \/ \E j \in 1..5 : h = 3 * j + 8
  BY AtIs
<1>2. CASE h = 26
  BY <1>2, StatementsAre DEF Stmt, Asking
<1>3. ASSUME NEW j \in 1..5, h = 3 * j + 8 PROVE Stmt.arg \in Asking
  <2>1. Script[h].arg = Parts[j]
    BY <1>3, StatementsAre
  <2>2. Parts[j] \in Asking
    BY DEF Parts, Asking
  <2> QED BY <2>1, <2>2 DEF Stmt
<1> QED BY <1>1, <1>2, <1>3

\* A target that has run for a while when the script opens its line.
LEMMA LateStart ==
  ASSUME NEW n \in 0..2
  PROVE  SubSeq(Start, n + 1, 3) \in {Start, <<"INPUT", "GETC">>, <<"GETC">>}
<1>1. n = 0 \/ n = 1 \/ n = 2
  OBVIOUS
<1>2. Start[1] = "RESET" /\ Start[2] = "INPUT" /\ Start[3] = "GETC"
  BY DEF Start
<1>3. \A i \in 1..3 : i = 1 \/ i = 2 \/ i = 3
  OBVIOUS
<1>4. \A i \in 1..3 : Start[i] \in {"RESET", "INPUT", "GETC"}
  BY <1>2, <1>3
<1>6. ASSUME NEW m \in 1..3
      PROVE  /\ SubSeq(Start, m, 3) \in Seq({"RESET", "INPUT", "GETC"})
             /\ Len(SubSeq(Start, m, 3)) = 4 - m
             /\ \A i \in 1..(4 - m) : SubSeq(Start, m, 3)[i] = Start[m + i - 1]
  <2>1. \A i \in m..3 : Start[i] \in {"RESET", "INPUT", "GETC"}
    BY <1>4
  <2>2. m <= 3 /\ 3 - m + 1 = 4 - m
    OBVIOUS
  <2> QED BY <2>1, <2>2, SubSeqProperties
<1> DEFINE S == {"RESET", "INPUT", "GETC"}
           i3 == Start
           i2 == <<"INPUT", "GETC">>
           i1 == <<"GETC">>
<1>7. /\ i3 \in Seq(S) /\ Len(i3) = 3 /\ i3[1] = "RESET" /\ i3[2] = "INPUT" /\ i3[3] = "GETC"
      /\ i2 \in Seq(S) /\ Len(i2) = 2 /\ i2[1] = "INPUT" /\ i2[2] = "GETC"
      /\ i1 \in Seq(S) /\ Len(i1) = 1 /\ i1[1] = "GETC"
  BY DEF Start
<1>8. /\ 4 - 1 = 3 /\ 4 - 2 = 2 /\ 4 - 3 = 1
      /\ \A i \in 1..2 : i = 1 \/ i = 2
      /\ \A i \in 1..1 : i = 1
  OBVIOUS
<1> DEFINE s1 == SubSeq(Start, 1, 3)
           s2 == SubSeq(Start, 2, 3)
           s3 == SubSeq(Start, 3, 3)
<1>9. /\ s1 \in Seq(S) /\ Len(s1) = 3 /\ s1[1] = "RESET" /\ s1[2] = "INPUT" /\ s1[3] = "GETC"
  BY <1>2, <1>6, <1>8
<1>10. s2 \in Seq(S) /\ Len(s2) = 2 /\ s2[1] = "INPUT" /\ s2[2] = "GETC"
  BY <1>2, <1>6, <1>8
<1>11. s3 \in Seq(S) /\ Len(s3) = 1 /\ s3[1] = "GETC"
  BY <1>2, <1>6, <1>8
<1> HIDE DEF S, i1, i2, i3, s1, s2, s3
<1>12. s1 = i3
  <2>1. \A i \in 1..3 : s1[i] = i3[i]
    BY <1>3, <1>7, <1>9
  <2> QED BY <1>7, <1>9, <2>1, SeqEqual
<1>13. s2 = i2
  <2>1. \A i \in 1..2 : s2[i] = i2[i]
    BY <1>7, <1>8, <1>10
  <2> QED BY <1>7, <1>10, <2>1, SeqEqual
<1>14. s3 = i1
  <2>1. \A i \in 1..1 : s3[i] = i1[i]
    BY <1>7, <1>8, <1>11
  <2> QED BY <1>7, <1>11, <2>1, SeqEqual
<1>5. 0 + 1 = 1 /\ 1 + 1 = 2 /\ 2 + 1 = 3
  OBVIOUS
<1> QED BY <1>1, <1>5, <1>12, <1>13, <1>14 DEF i1, i2, i3, s1, s2, s3

\* The types that the steps of the script touch.
LEMMA HostTypes ==
  ASSUME Typed, Host
  PROVE  Typed'
<1> USE DEF Typed
<1>1. TypeOK
  BY TypeIs
<1>2. ASSUME NEW x \in PwshCmds PROVE Append(toPwsh, x) \in Seq(PwshCmds)
  BY QueueAppend
<1>3. Running => h + 1 \in 0..30
  BY <1>1, Places
<1>4. \A do : At(do) => Running
  BY DEF At
<1>5. CASE PwshCmd
  <2>1. Stmt.arg \in PwshCmds
    <3>1. h \in {3, 4, 5, 8, 28}
      BY <1>1, <1>5, AtIs DEF PwshCmd
    <3>2. Script[h].arg \in {"stop", "trigsrc_sw", "targrst_1", "start"}
      BY <3>1, StatementsAre
    <3> QED BY <3>2 DEF Stmt, PwshCmds
  <2>2. toPwsh' \in Seq(PwshCmds)
    BY <1>2, <1>5, <2>1 DEF PwshCmd
  <2> QED BY <1>3, <1>4, <1>5, <2>2 DEF PwshCmd, Goto, shield, console
<1>6. CASE TargCmd
  <2>1. Stmt.arg \in Asking
    BY <1>1, <1>6, AsksFor DEF TargCmd
  <2>2. Byte(Stmt.arg) \in Bytes /\ "\n" \in Bytes
    BY <2>1, ByteIs, BytesAssumption
  <2> DEFINE b == Byte(Stmt.arg)
  <2> HIDE DEF b
  <2>3. toTarg' \in Seq(Bytes)
    <3>1. <<b, "\n">> \in Seq(Bytes)
      BY <2>2 DEF b
    <3>2. toTarg' = toTarg \o <<b, "\n">>
      BY <1>6 DEF TargCmd, b
    <3> QED BY <3>1, <3>2, ConcatProperties
  <2> QED BY <1>3, <1>4, <1>6, <2>3 DEF TargCmd, Goto, shield, console
<1>7. CASE AskStatus
  <2>1. toPwsh' \in Seq(PwshCmds)
    BY <1>2, <1>7 DEF AskStatus, PwshCmds
  <2> QED BY <1>7, <2>1 DEF AskStatus, shield, console
<1>8. CASE ReadTarg
  <2>1. Head(fromTarg) \in Lines /\ fromTarg' \in Seq(Lines)
    BY <1>8, QueueTail DEF ReadTarg
  <2> DEFINE line == Head(fromTarg)
  <2>2. line[1] \in Words /\ Logged(log, line) \in Seq(LogLines)
    <3> HIDE DEF line
    <3>1. line \in Lines
      BY <2>1 DEF line
    <3>2. \A b \in BOOLEAN : <<"banner", b>> \in LogLines
      BY DEF LogLines
    <3>3. \A c \in LogCmds : <<"rows", c>> \in LogLines
      BY DEF LogLines
    <3>4. \A z \in LogLines : Append(log, z) \in Seq(LogLines)
      BY QueueAppend
    <3>5. line[1] \in Words
      BY <3>1, LoggedIs
    <3>6. \/ Logged(log, line) = log
          \/ \E b \in BOOLEAN : Logged(log, line) = Append(log, <<"banner", b>>)
          \/ \E c \in LogCmds : Logged(log, line) = Append(log, <<"rows", c>>)
      BY <3>1, LoggedIs, Zenon
    <3> QED BY <3>2, <3>3, <3>4, <3>5, <3>6
  <2>3. log' \in Seq(LogLines) /\ seen' \subseteq Stamps
    BY <1>8, <2>2 DEF ReadTarg, Stamps
  <2> QED BY <1>8, <2>1, <2>3 DEF ReadTarg, shield, console
<1>9. CASE ReadPwsh
  <2>1. Head(fromPwsh) \in Answers /\ fromPwsh' \in Seq(Answers)
    BY <1>9, QueueTail DEF ReadPwsh
  <2> DEFINE reply == Head(fromPwsh)
  <2>2. /\ reply[1] \in Replies \cup {"completed"}
        /\ reply[1] = "completed" => <<"watt", reply[2]>> \in LogLines
    <3>1. CASE \E x \in Replies : reply = <<x>>
      BY <3>1 DEF Replies
    <3>2. CASE \E c \in Letters : reply = <<"completed", c>>
      BY <3>2 DEF LogLines, LogCmds, Letters
    <3> QED BY <2>1, <3>1, <3>2, Zenon DEF Answers
  <2>3. log' \in Seq(LogLines)
    <3>1. \A z \in LogLines : Append(log, z) \in Seq(LogLines)
      BY QueueAppend
    <3> DEFINE z == <<"watt", reply[2]>>
    <3>2. log' = IF reply[1] = "completed" /\ ~At("trig") THEN Append(log, z) ELSE log
      BY <1>9 DEF ReadPwsh
    <3> HIDE DEF reply, z
    <3>3. reply[1] = "completed" => z \in LogLines
      BY <2>2 DEF z, reply
    <3> QED BY <3>1, <3>2, <3>3
  <2>4. seen' \subseteq Stamps
    BY <1>9, <2>2 DEF ReadPwsh, Stamps
  <2> QED BY <1>9, <2>1, <2>3, <2>4 DEF ReadPwsh, shield, console
<1>10. CASE Found
  <2>1. kem' \in BOOLEAN
    <3>1. kem' = IF Stmt.arg = "INPUT" THEN build /\ "RESET" \in seen ELSE kem
      BY <1>10 DEF Found
    <3> QED BY <3>1, Zenon
  <2> QED BY <1>3, <1>4, <1>10, <2>1 DEF Found, Goto, wires, shield, console
<1>11. CASE RespDone
  BY <1>3, <1>4, <1>11 DEF RespDone, Goto, wires, shield, console
<1>12. CASE OkDone
  BY <1>3, <1>4, <1>12 DEF OkDone, Goto, wires, shield, console
<1>13. CASE TrigDone
  <2>1. toPwsh' \in Seq(PwshCmds)
    BY <1>2, <1>13 DEF TrigDone, PwshCmds
  <2> QED BY <1>3, <1>4, <1>13, <2>1 DEF TrigDone, Goto, shield, console
<1> QED BY <1>5, <1>6, <1>7, <1>8, <1>9, <1>10, <1>11, <1>12, <1>13 DEF Host

\* The types that the loop touches.
LEMMA BatchTypes ==
  ASSUME Typed, LoopInv, Loop \/ Timeout
  PROVE  Typed'
<1> USE DEF Typed
<1>1. Over = 30
  BY StatementsAre DEF Over
<1>2. ASSUME NEW n \in 0..30, Goto(n)
      PROVE  h' \in 0..30 /\ seen' \subseteq Stamps /\ asked' \in BOOLEAN
  BY <1>2 DEF Goto
<1>3. h' \in 0..30 /\ seen' \subseteq Stamps /\ asked' \in BOOLEAN
  <2>1. 30 \in 0..30 /\ 0 \in 0..30 /\ 1 \in 0..30
    OBVIOUS
  <2>2. Goto(Over) \/ Goto(0) \/ Goto(1)
    BY Zenon DEF Loop, Build, Skip, FlashAndRun, Timeout
  <2> QED BY <1>1, <1>2, <2>1, <2>2, Zenon
<1>4. CASE Build
  <2>1. log' = <<>> /\ <<>> \in Seq(LogLines)
    BY <1>4 DEF Build
  <2> QED BY <1>3, <1>4, <2>1 DEF Build, wires, shield, console
<1>5. CASE Skip
  BY <1>3, <1>5 DEF Skip, wires, shield, console
<1>6. CASE FlashAndRun
  <2>1. build' \in BOOLEAN
    BY <1>6 DEF FlashAndRun, LoopInv
  <2>2. fromTarg' \in Seq(Lines) /\ fromPwsh' \in Seq(Answers)
    BY <1>6 DEF FlashAndRun
  <2> QED BY <1>3, <1>6, <2>1, <2>2 DEF FlashAndRun, shield
<1>7. CASE Timeout
  BY <1>3, <1>7 DEF Timeout, wires, shield, console
<1> QED BY <1>4, <1>5, <1>6, <1>7 DEF Loop

(***************************************************************************)
(* What holds in every stage: commands go to a target that waits, and the  *)
(* log is that of the image on the board                                   *)
(***************************************************************************)

\* The script sends its commands to a target that waits for one.
LEMMA SendsToIdle ==
  ASSUME BatchInv, At("targ")
  PROVE  toTarg = <<>> /\ rx = NoByte
<1>1. h = 26 \/ \E j \in 1..5 : h = 3 * j + 8
  BY AtIs DEF BatchInv, Basics
<1>2. CASE h = 26
  <2>1. RestInv
    BY <1>2 DEF BatchInv, Stages
  <2> QED BY <1>2, <2>1 DEF RestInv
<1>3. ASSUME NEW j \in 1..5, h = 3 * j + 8 PROVE toTarg = <<>> /\ rx = NoByte
  <2>1. SectionInv(j, 0)
    <3>1. 0 \in 0..2 /\ h = 3 * j + 8 + 0
      BY <1>3
    <3> QED BY <3>1 DEF BatchInv, Stages
  <2>2. \E e \in Early(build) : Quiet(j, e)
    <3>1. 0 # 1 /\ 0 \notin {1, 2}
      OBVIOUS
    <3> QED BY <2>1, <3>1, Zenon DEF SectionInv
  <2> QED BY <2>2 DEF Quiet
<1> QED BY <1>1, <1>2, <1>3

\* ConsoleInv is kept by every step of a batch.
LEMMA ConsoleStep ==
  ASSUME BatchInv, BatchNext
  PROVE  ConsoleInv'
<1>1. TypeOK /\ ConsoleInv /\ Typed
  BY TypeIs DEF BatchInv, Basics
<1> USE DEF ConsoleInv
<1> DEFINE Going(t) == t \in Seq(Events) /\ t # <<>> /\ t[Len(t)] \in {"GETC", "SLEEP"}
<1>2. Letters \cup {"\n"} \subseteq Bytes /\ NoByte \notin Bytes /\ "\n" \notin Letters
  BY BytesAssumption, ConsoleAssumption DEF Letters
<1>3. ASSUME Going(todo'), rx' \in {rx, NoByte}, toTarg' = toTarg, lost' = lost
      PROVE  ConsoleInv'
  BY <1>1, <1>3
<1>4. ASSUME UNCHANGED <<toTarg, console>>
      PROVE  ConsoleInv'
  BY <1>1, <1>4 DEF console
<1>5. CASE TargPrint
  <2>1. Going(todo')
    <3>1. Head(todo) \notin {"GETC", "SLEEP"} /\ todo' = Tail(todo)
      BY <1>5 DEF TargPrint, SendLine, Silent
    <3> QED BY <1>1, <3>1, TodoAhead
  <2> HIDE DEF Going
  <2> QED BY <1>3, <1>5, <2>1 DEF TargPrint, SendLine
<1>6. CASE TargVerdict
  <2>1. Going(todo')
    <3>1. Head(todo) = "VERDICT" /\ (todo' = Tail(todo) \/ todo' = [todo EXCEPT ![1] = "FAIL"])
      BY <1>6 DEF TargVerdict, Pass, Note
    <3> QED BY <1>1, <3>1, TodoAhead
  <2> HIDE DEF Going
  <2> QED BY <1>3, <1>6, <2>1 DEF TargVerdict, Pass, Note
<1>7. CASE TargPulse
  <2>1. Going(todo')
    <3>1. Head(todo) \notin {"GETC", "SLEEP"} /\ todo' = Tail(todo)
      BY <1>7 DEF TargPulse, Pulse
    <3> QED BY <1>1, <3>1, TodoAhead
  <2> HIDE DEF Going
  <2> QED BY <1>3, <1>7, <2>1 DEF TargPulse, Pulse, wires
<1>8. CASE TargGetc
  <2>1. Going(todo')
    <3>1. rx \in Letters \cup {"\n"} /\ ready \in BOOLEAN /\ todo' = Work(rx, ready)
      BY <1>1, <1>8 DEF TargGetc, Getc, Typed
    <3> DEFINE w == Work(rx, ready)
    <3>2. w \in Seq(Events) /\ w # <<>> /\ w[Len(w)] = "GETC"
      BY <3>1, WorkType, Zenon
    <3> HIDE DEF w
    <3>3. todo' = w
      BY <3>1 DEF w
    <3> QED BY <3>2, <3>3
  <2> HIDE DEF Going
  <2> QED BY <1>3, <1>8, <2>1 DEF TargGetc, Getc, wires
<1>9. CASE WireByte
  <2> DEFINE x == Head(toTarg)
             y == Tail(toTarg)
  <2>1. toTarg = <<"\n">> \/ \E c \in Letters : toTarg = <<c, "\n">> /\ rx = NoByte
    BY <1>1, <1>9 DEF WireByte
  <2>2. \/ x = "\n" /\ y = <<>>
        \/ x \in Letters /\ y = <<"\n">> /\ rx = NoByte
    <3>1. \A c : Head(<<c>>) = c /\ Tail(<<c>>) = <<>>
      OBVIOUS
    <3>2. \A c : Head(<<c, "\n">>) = c /\ Tail(<<c, "\n">>) = <<"\n">>
      OBVIOUS
    <3>3. CASE toTarg = <<"\n">>
      BY <3>1, <3>3, Zenon
    <3>4. CASE \E c \in Letters : toTarg = <<c, "\n">> /\ rx = NoByte
      BY <3>2, <3>4, Zenon
    <3> QED BY <2>1, <3>3, <3>4
  <2>3. /\ rx' = IF rx = NoByte THEN x ELSE rx
        /\ toTarg' = y /\ todo' = todo
        /\ lost' = IF rx = NoByte THEN lost ELSE lost \cup {x}
    BY <1>9 DEF WireByte, Receive
  <2> HIDE DEF x, y
  <2>4. rx' \in Letters \cup {"\n", NoByte} /\ toTarg' \in {<<>>, <<"\n">>} /\ lost' \subseteq {"\n"}
    BY <1>1, <2>2, <2>3
  <2> QED BY <1>1, <2>3, <2>4
<1>10. CASE ShieldRefuses \/ ShieldReport
  BY <1>4, <1>10 DEF ShieldRefuses, ShieldReport
<1>11. ASSUME NEW cmd \in PwshCmds, ShieldTakes(cmd)
       PROVE  ConsoleInv'
  <2>1. CASE cmd = "targrst_1"
    <3>1. Going(Start)
      BY DEF Start, Events, Words
    <3>2. todo' = Start /\ rx' = NoByte /\ toTarg' = toTarg /\ lost' = lost
      BY <1>11, <2>1 DEF ShieldTakes
    <3> HIDE DEF Going
    <3>3. Going(todo')
      BY <3>1, <3>2, Zenon
    <3> QED BY <1>3, <3>2, <3>3
  <2>2. CASE cmd # "targrst_1"
    BY <1>4, <1>11, <2>2 DEF ShieldTakes
  <2> QED BY <2>1, <2>2
<1>12. CASE TargCmd
  <2>1. At("targ")
    BY <1>12 DEF TargCmd
  <2>2. toTarg = <<>> /\ rx = NoByte
    BY <2>1, SendsToIdle
  <2>3. Stmt.arg \in Asking
    BY <1>1, <2>1, AsksFor
  <2> DEFINE b == Byte(Stmt.arg)
  <2>4. b \in Letters
    BY <2>3, ByteIs
  <2> HIDE DEF b
  <2>5. toTarg' = toTarg \o <<b, "\n">>
    BY <1>12 DEF TargCmd, b
  <2>6. toTarg' = <<b, "\n">>
    BY <2>2, <2>5
  <2>7. UNCHANGED console
    BY <1>12 DEF TargCmd
  <2> QED BY <1>1, <2>2, <2>4, <2>6, <2>7 DEF console
<1>13. CASE PwshCmd \/ AskStatus \/ ReadTarg \/ ReadPwsh \/ Found \/ RespDone \/ OkDone \/ TrigDone
  BY <1>4, <1>13 DEF PwshCmd, AskStatus, ReadTarg, ReadPwsh, Found, RespDone, OkDone, TrigDone, wires
<1>14. CASE Build \/ Skip \/ Timeout
  BY <1>4, <1>14 DEF Build, Skip, Timeout, wires
<1>15. CASE FlashAndRun
  <2>1. Going(todo')
    <3>1. PICK n \in 0..2 : todo' = SubSeq(Start, n + 1, 3)
      BY <1>15 DEF FlashAndRun
    <3>2. todo' = Start \/ todo' = <<"INPUT", "GETC">> \/ todo' = <<"GETC">>
      BY <3>1, LateStart
    <3>3. CASE todo' = Start
      BY <3>3 DEF Start, Events, Words
    <3>4. CASE todo' = <<"INPUT", "GETC">>
      BY <3>4 DEF Events, Words
    <3>5. CASE todo' = <<"GETC">>
      BY <3>5 DEF Events, Words
    <3> QED BY <3>2, <3>3, <3>4, <3>5
  <2> HIDE DEF Going
  <2> QED BY <1>3, <1>15, <2>1 DEF FlashAndRun
<1> QED BY <1>5, <1>6, <1>7, <1>8, <1>9, <1>10, <1>11, <1>12, <1>13, <1>14, <1>15
        DEF BatchNext, SysNext, Loop, Target, Shield, Host

\* The commands of the sections.
LEMMA CommandIs ==
  ASSUME NEW k \in BOOLEAN, NEW j \in 1..5
  PROVE  /\ Reported(k)[j] \in {"a", "k", "e", "s", "d", "v", "z"}
         /\ Reported(k)[j] \in Letters
         /\ Reported(k)[j] = "z" <=> j = 5
<1> DEFINE x == IF k THEN "e" ELSE "s"
           y == IF k THEN "d" ELSE "v"
           r == <<"a", "k", x, y, "z">>
<1>1. x \in {"e", "s"} /\ y \in {"d", "v"}
  BY Zenon
<1> HIDE DEF x, y
<1>2. r[1] = "a" /\ r[2] = "k" /\ r[3] = x /\ r[4] = y /\ r[5] = "z"
  OBVIOUS
<1>3. j = 1 \/ j = 2 \/ j = 3 \/ j = 4 \/ j = 5
  OBVIOUS
<1> HIDE DEF r
<1>4. /\ r[j] \in {"a", "k", "e", "s", "d", "v", "z"}
      /\ r[j] = "z" <=> j = 5
  BY <1>1, <1>2, <1>3
<1>5. \A c \in {"a", "k", "e", "s", "d", "v", "z"} : c \in Letters
  BY DEF Letters
<1>6. r = Reported(k)
  BY DEF r, x, y, Reported
<1> QED BY <1>4, <1>5, <1>6

\* The stages know the log of the target on the board.
LEMMA StageLog == TypeOK /\ Stages /\ Running => IsLog(log, build)
<1> SUFFICES ASSUME TypeOK, Stages, Running PROVE IsLog(log, build)
  OBVIOUS
<1>1. TypeOK /\ Typed /\ build \in BOOLEAN /\ log \in Seq(LogLines) /\ fromTarg \in Seq(Lines)
  BY TypeIs DEF Typed
<1>2. ASSUME NEW l, Reading(fromTarg, log, l), IsLog(l, build) PROVE IsLog(log, build)
  BY <1>1, <1>2, ReadingLogs, PrefixOfLog
<1>3. ASSUME NEW e \in Early(build) PROVE IsLog(e, build)
  <2>1. 0 \in 0..10
    OBVIOUS
  <2> QED BY <1>1, <2>1, LogAtIs, Zenon
<1>4. CASE h \in 1..10
  <2>1. PICK l : Reading(fromTarg, log, l) /\ (BeforeReset(l) \/ AfterReset(l))
    BY <1>4 DEF Stages, BootInv
  <2>2. IsLog(l, build)
    <3>1. l \in Early(build) \/ \E e \in Early(build) : l = LogAt(e, build, 1)
      BY <2>1, Zenon DEF BeforeReset, AfterReset, Early
    <3>2. 1 \in 0..10
      OBVIOUS
    <3> QED BY <1>1, <1>3, <3>1, <3>2, LogAtIs, Zenon
  <2> QED BY <1>2, <2>1, <2>2
<1>5. CASE h \in 26..29
  <2>1. PICK e \in Early(build) : Reading(fromTarg, log, LogAt(e, build, 10))
    BY <1>5 DEF Stages, RestInv
  <2>2. 10 \in 0..10
    OBVIOUS
  <2>3. IsLog(LogAt(e, build, 10), build)
    BY <1>1, <2>2, LogAtIs, Zenon
  <2> QED BY <1>2, <2>1, <2>3
<1>6. ASSUME NEW j \in 1..5, NEW s \in 0..2, h = 3 * j + 8 + s PROVE IsLog(log, build)
  <2>1. SectionInv(j, s)
    BY <1>6 DEF Stages
  <2> DEFINE c == Reported(build)[j]
  <2>2. PICK e \in Early(build) : \/ Quiet(j, e) \/ Asked(c, j, e)
                                  \/ s \in {1, 2} /\ Begun(c, j, s, e)
    BY <2>1, Zenon DEF SectionInv
  <2>3. 2 * j - 1 \in 0..10 /\ 2 * j \in 0..10 /\ (c # "z" => 2 * j + 1 \in 0..10)
    BY <1>1, CommandIs
  <2>4. \A n \in 0..10 : IsLog(LogAt(e, build, n), build)
    BY <1>1, LogAtIs, Zenon
  <2>5. CASE \E n \in {2 * j - 1, 2 * j} : log = LogAt(e, build, n)
    BY <2>3, <2>4, <2>5
  <2>6. CASE s = 2 /\ Begun(c, j, s, e)
    <3> DEFINE n == IF todo \in Idle /\ c # "z" THEN 2 * j + 1 ELSE 2 * j
    <3>1. n \in 0..10
      BY <2>3
    <3>2. Reading(fromTarg, log, LogAt(e, build, n))
      <4>1. s # 1
        BY <2>6
      <4> QED BY <2>6, <4>1, Zenon DEF Begun
    <3> HIDE DEF n
    <3> QED BY <1>2, <2>4, <3>1, <3>2
  <2>7. ASSUME s = 1, Begun(c, j, s, e) PROVE \E n \in {2 * j - 1, 2 * j} : log = LogAt(e, build, n)
    BY <2>7 DEF Begun, Report
  <2> QED BY <2>2, <2>5, <2>6, <2>7 DEF Quiet, Asked
<1> QED BY <1>1, <1>4, <1>5, <1>6, Places

\* The same of the next state.
LEMMA StageLogNext == (TypeOK /\ Stages /\ Running => IsLog(log, build))'
BY StageLog, PTL

\* The statements of the script, in the next state.
LEMMA RunningNext == (TypeOK => (Running <=> h \in 1..29))'
<1>1. TypeOK => (Running <=> h \in 1..29)
  BY Places
<1> QED BY <1>1, PTL

\* The board's image is that of the target of the turn, and the log is the
\* target's, if the stages are right after the step.
LEMMA LoopStep ==
  ASSUME BatchInv, BatchNext, TypeOK', Stages'
  PROVE  LoopInv'
<1>1. TypeOK /\ LoopInv
  BY DEF BatchInv, Basics
<1>2. Running' <=> h' \in 1..29
  BY RunningNext, Zenon
<1>3. Running' => IsLog(log', build')
  BY StageLogNext, Zenon
<1>4. Running <=> h \in 1..29
  BY <1>1, Places
<1>5. IsLog(<<>>, TRUE) /\ IsLog(<<>>, FALSE)
  <2>1. ASSUME NEW k \in BOOLEAN PROVE IsLog(<<>>, k)
    <3>1. <<>> \in Early(k) /\ 0 \in 0..10
      BY DEF Early
    <3> QED BY <3>1, LogAtIs, Zenon
  <2> QED BY <2>1
<1>6. Over = 30
  BY StatementsAre DEF Over
<1>7. CASE SysNext /\ UNCHANGED <<left, target, hex>>
  <2>1. UNCHANGED build
    BY <1>7 DEF SysNext, Target, Shield, Host, TargPrint, TargVerdict, TargPulse, TargGetc, WireByte,
                ShieldRefuses, ShieldTakes, ShieldReport, PwshCmd, TargCmd, AskStatus, ReadTarg,
                ReadPwsh, Found, RespDone, OkDone, TrigDone
  <2>2. \/ UNCHANGED <<h, log>>
        \/ Running /\ Goto(h + 1) /\ UNCHANGED log
        \/ Running /\ h' = h
    <3>1. CASE Target \/ WireByte \/ Shield
      <4>1. UNCHANGED script
        BY <3>1 DEF Target, Shield, TargPrint, TargVerdict, TargPulse, TargGetc, WireByte,
                    ShieldRefuses, ShieldTakes, ShieldReport
      <4> QED BY <4>1 DEF script
    <3>2. CASE PwshCmd \/ TargCmd \/ Found \/ RespDone
      BY <3>2, Zenon DEF PwshCmd, TargCmd, Found, RespDone, At
    <3>3. CASE AskStatus \/ ReadTarg \/ ReadPwsh
      <4>1. Running /\ h' = h
        BY <3>3, Zenon DEF AskStatus, ReadTarg, ReadPwsh, ReadsTarg, ReadsPwsh, At
      <4> QED BY <4>1
    <3>4. CASE OkDone
      <4>1. Running /\ UNCHANGED log /\ (Goto(h + 1) \/ h' = h)
        BY <3>4, Zenon DEF OkDone, At
      <4> QED BY <4>1
    <3>5. CASE TrigDone
      <4>1. Running /\ UNCHANGED log /\ (Goto(h + 1) \/ h' = h)
        BY <3>5, Zenon DEF TrigDone, At, Goto
      <4> QED BY <4>1
    <3> QED BY <1>7, <3>1, <3>2, <3>3, <3>4, <3>5 DEF SysNext, Host
  <2>3. h' # 0 \/ UNCHANGED <<h, log>>
    BY <1>4, <2>2 DEF Goto
  <2>4. Running' => Running
    BY <1>2, <1>4, <2>2
  <2>5. IsLog(log', target')
    <3>1. CASE Running'
      <4>1. build' = target'
        BY <1>1, <1>7, <2>1, <2>4, <3>1 DEF LoopInv
      <4> QED BY <1>3, <3>1, <4>1
    <3>2. CASE ~Running'
      <4>1. log' = log
        BY <1>2, <1>4, <2>2, <3>2
      <4> QED BY <1>1, <1>7, <4>1 DEF LoopInv
    <3> QED BY <3>1, <3>2
  <2> QED BY <1>1, <1>7, <2>1, <2>3, <2>4, <2>5 DEF LoopInv
<1>8. CASE Build
  <2>1. /\ left' \in 0..Targets /\ target' \in BOOLEAN /\ hex' \subseteq {target'}
        /\ h' = 0 /\ log' = <<>>
    BY <1>1, <1>8, TargetsAssumption DEF Build, Goto, LoopInv
  <2>2. ~Running'
    BY <1>2, <2>1
  <2>3. IsLog(log', target')
    BY <1>5, <2>1
  <2> QED BY <2>1, <2>2, <2>3 DEF LoopInv
<1>9. CASE Skip \/ Timeout
  <2>1. h' = 30 /\ UNCHANGED <<log, left, target, hex>>
    <3>1. Goto(Over)
      BY <1>9, Zenon DEF Skip, Timeout
    <3> QED BY <1>6, <1>9, <3>1 DEF Skip, Timeout, Goto
  <2>2. ~Running'
    BY <1>2, <2>1
  <2> QED BY <1>1, <2>1, <2>2 DEF LoopInv
<1>10. CASE FlashAndRun
  <2>1. h' = 1 /\ UNCHANGED <<log, left, target, hex>> /\ h = 0 /\ build' \in hex
    BY <1>10 DEF FlashAndRun, Goto
  <2>2. build' = target'
    BY <1>1, <2>1 DEF LoopInv
  <2> QED BY <1>1, <2>1, <2>2 DEF LoopInv
<1> QED BY <1>7, <1>8, <1>9, <1>10 DEF BatchNext, Loop

(***************************************************************************)
(* The set-up                                                              *)
(***************************************************************************)

\* A line that is read leaves the list.
LEMMA KindsShrink ==
  ASSUME NEW S, NEW s \in Seq(S), s # <<>>
  PROVE  Kinds(s) = {Head(s)[1]} \cup Kinds(Tail(s))
<1>1. Range(s) = {Head(s)} \cup Range(Tail(s))
  BY QueueTail
<1> QED BY <1>1, Zenon DEF Kinds

\* The first lines that may be on a log.
LEMMA EarlyIs ==
  /\ <<>> \in Early(build) /\ <<>> \in Seq(LogLines)
  /\ Append(<<>>, <<"banner", build>>) \in Early(build)
  /\ Append(<<>>, <<"rows", None>>) \in Early(build)
<1>1. \A x : Append(<<>>, x) = <<x>>
  OBVIOUS
<1>2. /\ <<>> \in Early(build)
      /\ <<<<"banner", build>>>> \in Early(build) /\ <<<<"rows", None>>>> \in Early(build)
  BY DEF Early
<1>3. <<>> \in Seq(LogLines)
  OBVIOUS
<1> QED BY <1>1, <1>2, <1>3, Zenon

\* What the firmware prints while the script sets up.
LEMMA BootPrints ==
  ASSUME Typed, BootInv, TargPrint
  PROVE  BootInv'
<1> DEFINE w == IF Head(todo) = "FAIL" THEN "END" ELSE Head(todo)
<1>1. /\ build \in BOOLEAN /\ log \in Seq(LogLines) /\ fromTarg \in Seq(Lines) /\ TypeOK
  BY TypeIs DEF Typed
<1>2. /\ todo' = Tail(todo) /\ rx' = rx /\ fromTarg' = Append(fromTarg, Printed(w))
      /\ UNCHANGED <<h, seen, log, toTarg, toPwsh, cur, build>>
      /\ Head(todo) \notin {"GETC", "SLEEP", "VERDICT"}
  BY DEF TargPrint, SendLine, Emit, script, Silent
<1>3. toTarg' = <<>> /\ rx' = NoByte /\ cur' = None /\ cur = None
  BY <1>2 DEF BootInv
<1>4. ResetAhead' = ResetAhead
  BY <1>2 DEF ResetAhead, ResetDue
<1>5. PICK l : Reading(fromTarg, log, l) /\ IF ResetAhead THEN BeforeReset(l) ELSE AfterReset(l)
  BY DEF BootInv
<1>6. l \in Seq(LogLines)
  BY <1>1, <1>5, ReadingLogs
<1>7. todo \in {Start} \cup Interrupted \cup Idle \cup Testing /\ todo \notin Testing
  <2>1. todo \in {Start} \cup Interrupted \cup Idle
    BY <1>5 DEF BeforeReset, AfterReset
  <2> QED BY <2>1, TodoIs
<1>8. Head(todo) \in {"RESET", "INPUT", "END", "ROWS"} /\ w = Head(todo)
  BY <1>2, <1>7, TodoIs
<1>9. w \in Words
  BY <1>8 DEF Words
<1>10. /\ Printed(w) \in Lines /\ Printed(w)[1] = w
       /\ w \notin {"RESET", "ROWS"} => Logged(l, Printed(w)) = l
       /\ w = "RESET" => Logged(l, Printed(w)) = Append(l, <<"banner", build>>)
       /\ w = "ROWS" => Logged(l, Printed(w)) = Append(l, <<"rows", cur>>)
  BY <1>1, <1>6, <1>9, PrintedIs, Zenon
<1>11. PICK m : /\ Reading(fromTarg', log', m)
                /\ w \notin {"RESET", "ROWS"} => m = l
                /\ w = "RESET" => m = Append(l, <<"banner", build>>)
                /\ w = "ROWS" => m = Append(l, <<"rows", None>>)
  <2>1. Reading(Append(fromTarg, Printed(w)), log, Logged(l, Printed(w)))
    BY <1>1, <1>5, <1>10, ReadingPrinted, Zenon
  <2> QED BY <1>2, <1>3, <1>10, <2>1, Zenon
<1>12. Kinds(fromTarg') = Kinds(fromTarg) \cup {w}
  <2>1. Kinds(Append(fromTarg, Printed(w))) = Kinds(fromTarg) \cup {Printed(w)[1]}
    BY <1>1, <1>10, KindsGrow, Zenon
  <2> QED BY <1>2, <1>10, <2>1, Zenon
<1> HIDE DEF w
<1>15. ASSUME IF ResetAhead THEN BeforeReset(m)' ELSE AfterReset(m)'
       PROVE  BootInv'
  BY <1>3, <1>4, <1>11, <1>15, Zenon DEF BootInv
<1>13. CASE ResetAhead
  <2>1. BeforeReset(l)
    BY <1>5, <1>13, Zenon
  <2>2. CASE w = "RESET"
    <3>1. todo = Start /\ l = <<>> /\ Tail(todo) \in Idle
      BY <1>7, <1>8, <2>1, <2>2, TodoIs DEF BeforeReset
    <3>2. m \in Early(build)
      BY <1>11, <2>2, <3>1, EarlyIs
    <3>3. BeforeReset(m)'
      BY <1>2, <3>1, <3>2 DEF BeforeReset
    <3> QED BY <1>13, <1>15, <3>3
  <2>3. CASE w = "ROWS"
    <3>1. l = <<>> /\ Tail(todo) \in Idle
      BY <1>7, <1>8, <2>1, <2>3, TodoIs DEF BeforeReset
    <3>2. m \in Early(build)
      BY <1>11, <2>3, <3>1, EarlyIs
    <3>3. BeforeReset(m)'
      BY <1>2, <3>1, <3>2 DEF BeforeReset
    <3> QED BY <1>13, <1>15, <3>3
  <2>4. CASE w = "END"
    <3>1. l = <<>> /\ Tail(todo) = <<"ROWS", "INPUT", "GETC">> /\ m = l
      BY <1>7, <1>8, <1>11, <2>1, <2>4, TodoIs DEF BeforeReset
    <3>2. Tail(todo) \in Interrupted
      BY <3>1 DEF Interrupted
    <3>3. BeforeReset(m)'
      BY <1>2, <3>1, <3>2 DEF BeforeReset
    <3> QED BY <1>13, <1>15, <3>3
  <2>5. CASE w = "INPUT"
    <3>1. l \in Early(build) /\ Tail(todo) \in Idle /\ m = l
      BY <1>7, <1>8, <1>11, <2>1, <2>5, TodoIs DEF BeforeReset
    <3>2. BeforeReset(m)'
      BY <1>2, <3>1 DEF BeforeReset
    <3> QED BY <1>13, <1>15, <3>2
  <2> QED BY <1>8, <2>2, <2>3, <2>4, <2>5
<1>14. CASE ~ResetAhead
  <2>1. AfterReset(l)
    BY <1>5, <1>14, Zenon
  <2>2. CASE w = "RESET"
    <3>1. l \in Early(build) /\ Tail(todo) \in Idle
      BY <1>7, <1>8, <2>1, <2>2, TodoIs DEF AfterReset
    <3>2. m = LogAt(l, build, 1)
      <4>1. 0 \in 0..9 /\ 0 + 1 = 1
        OBVIOUS
      <4>2. LogAt(l, build, 0 + 1) = Append(LogAt(l, build, 0), WholeLog(build)[0 + 1])
        BY <1>1, <3>1, <4>1, LogAtIs, Zenon
      <4>3. LogAt(l, build, 0) = l
        BY <1>1, <3>1, LogAtIs, Zenon
      <4>4. WholeLog(build)[1] = <<"banner", build>>
        BY <1>1, WholeLogLines, Zenon
      <4> QED BY <1>11, <2>2, <4>1, <4>2, <4>3, <4>4
    <3>3. "RESET" \in Kinds(fromTarg')
      BY <1>12, <2>2
    <3>4. AfterReset(m)'
      BY <1>2, <3>1, <3>2, <3>3, Zenon DEF AfterReset
    <3> QED BY <1>14, <1>15, <3>4
  <2>3. CASE w = "INPUT"
    <3>1. /\ \E e \in Early(build) : l = LogAt(e, build, 1)
          /\ "RESET" \in Kinds(fromTarg) \/ (h = 10 /\ "RESET" \in seen)
          /\ Tail(todo) \in Idle /\ m = l
      BY <1>7, <1>8, <1>11, <2>1, <2>3, TodoIs DEF AfterReset
    <3>2. "RESET" \in Kinds(fromTarg') \/ (h' = 10 /\ "RESET" \in seen')
      BY <1>2, <1>12, <3>1
    <3>3. AfterReset(m)'
      BY <1>2, <3>1, <3>2, Zenon DEF AfterReset
    <3> QED BY <1>14, <1>15, <3>3
  <2>4. w \in {"RESET", "INPUT"}
    BY <1>7, <1>8, <2>1, TodoIs DEF AfterReset
  <2> QED BY <2>2, <2>3, <2>4
<1> QED BY <1>13, <1>14

\* The replies of the shield, without its reports.
LEMMA ReplyIs ==
  ASSUME NEW s \in Seq(Answers), s # <<>>, Range(s) \subseteq {<<x>> : x \in Replies}
  PROVE  \E x \in Replies : Head(s) = <<x>> /\ Head(s)[1] = x /\ x # "completed"
<1>1. Head(s) \in Range(s)
  BY QueueTail
<1>2. PICK x \in Replies : Head(s) = <<x>>
  BY <1>1
<1>3. Head(s)[1] = x /\ x # "completed"
  BY <1>2 DEF Replies
<1> QED BY <1>2, <1>3

\* What may happen while the script sets up.
SetupNext ==
  \/ TargPrint
  \/ ShieldRefuses
  \/ \E cmd \in PwshCmds : ShieldTakes(cmd)
  \/ PwshCmd /\ h \in {3, 4, 5, 8}
  \/ AskStatus /\ h \in {2, 6, 9}
  \/ ReadTarg /\ h \in {1, 10}
  \/ ReadPwsh /\ h \in {2, 6, 7, 9}
  \/ Found /\ h = 10
  \/ RespDone /\ h = 1
  \/ OkDone /\ h \in {2, 6, 9}
  \/ TrigDone /\ h = 7

\* Nothing else does: the target measures nothing, and the shield acquires
\* nothing.
LEMMA SetupSteps ==
  ASSUME BatchInv, SysNext, h \in 1..10
  PROVE  SetupNext
<1>1. TypeOK /\ ShieldInv /\ BootInv
  BY DEF BatchInv, Basics, Stages
<1>2. rx = NoByte /\ toTarg = <<>> /\ acq = None
  BY <1>1 DEF ShieldInv, BootInv
<1>3. ~TargVerdict /\ ~TargPulse
  <2>1. todo \in {Start} \cup Interrupted \cup Idle
    BY <1>1 DEF BootInv, BeforeReset, AfterReset
  <2>2. Head(todo) \notin {"VERDICT", "D7"}
    BY <2>1, TodoIs
  <2> QED BY <2>2 DEF TargVerdict, Pass, Note, TargPulse, Pulse
<1>4. ~TargGetc /\ ~WireByte /\ ~ShieldReport
  BY <1>2 DEF TargGetc, Getc, WireByte, ShieldReport
<1>5. ~TargCmd
  BY <1>1, AtIs DEF TargCmd
<1>6. /\ At("resp") <=> h = 1
      /\ At("ok") <=> h \in {2, 6, 9}
      /\ At("pwsh") <=> h \in {3, 4, 5, 8}
      /\ At("trig") <=> h = 7
      /\ ~At("pwsh_get_str")
      /\ At("targ_get_str") <=> h = 10
  BY <1>1, AtIs
<1>7. /\ PwshCmd => h \in {3, 4, 5, 8}
      /\ AskStatus => h \in {2, 6, 9}
      /\ ReadTarg => h \in {1, 10}
      /\ ReadPwsh => h \in {2, 6, 7, 9}
      /\ Found => h = 10
      /\ RespDone => h = 1
      /\ OkDone => h \in {2, 6, 9}
      /\ TrigDone => h = 7
  BY <1>6 DEF PwshCmd, AskStatus, ReadTarg, ReadPwsh, Found, RespDone, OkDone, TrigDone, ReadsTarg, ReadsPwsh
<1> QED BY <1>3, <1>4, <1>5, <1>7, Zenon DEF SysNext, SetupNext, Target, Shield, Host

\* When all is quiet no command is on the way, the reset perhaps excepted.
LEMMA QuietLine ==
  ASSUME Silence
  PROVE  toPwsh = <<>> \/ (ResetDue /\ "status" \in Range(toPwsh))
<1> DEFINE p == <<"targrst_1", "status">>
<1>1. toPwsh = <<>> \/ toPwsh = p
  BY DEF Silence, Settled
<1>2. "targrst_1" \in Range(p) /\ "status" \in Range(p)
  <2>1. p[1] = "targrst_1" /\ p[2] = "status" /\ DOMAIN p = 1..2
    OBVIOUS
  <2>2. 1 \in 1..2 /\ 2 \in 1..2
    OBVIOUS
  <2> HIDE DEF p
  <2> QED BY <2>1, <2>2 DEF Range
<1> QED BY <1>1, <1>2 DEF ResetDue

\* Until when the reset is to come.
LEMMA ResetStep ==
  ASSUME BatchInv, SetupNext, h \in 1..10, h' \in 1..10, ~ShieldTakes("targrst_1")
  PROVE  ResetAhead' = ResetAhead
<1>1. Typed /\ ShieldInv
  BY TypeIs DEF BatchInv, Basics, Stages
<1>2. toPwsh \in Seq(PwshCmds)
  BY <1>1 DEF Typed
<1>3. ASSUME h' = h, Range(toPwsh') \cup {"targrst_1"} = Range(toPwsh) \cup {"targrst_1"},
             "targrst_1" \in Range(toPwsh') <=> "targrst_1" \in Range(toPwsh)
      PROVE  ResetAhead' = ResetAhead
  BY <1>3 DEF ResetAhead, ResetDue
<1>4. ASSUME NEW x \in PwshCmds
      PROVE  Range(Append(toPwsh, x)) = Range(toPwsh) \cup {x}
  BY <1>2, QueueAppend
<1>5. ASSUME toPwsh # <<>>
      PROVE  Range(toPwsh) = {Head(toPwsh)} \cup Range(Tail(toPwsh))
  BY <1>2, <1>5, QueueTail
<1>6. CASE UNCHANGED <<h, toPwsh>>
  BY <1>6 DEF ResetAhead, ResetDue
<1>7. CASE ShieldRefuses \/ \E cmd \in PwshCmds : ShieldTakes(cmd)
  <2>1. /\ toPwsh # <<>> /\ Head(toPwsh) # "targrst_1" /\ toPwsh' = Tail(toPwsh) /\ h' = h
    BY <1>7 DEF ShieldRefuses, ShieldTakes, Answer, script
  <2> QED BY <1>5, <2>1 DEF ResetAhead, ResetDue
<1>8. CASE PwshCmd /\ h \in {3, 4, 5, 8}
  <2>1. h' = h + 1 /\ toPwsh' = Append(toPwsh, Stmt.arg)
    BY <1>8 DEF PwshCmd, Goto
  <2>2. CASE h = 5
    <3>1. Stmt.arg = "targrst_1" /\ "targrst_1" \in PwshCmds
      BY <2>2, StatementsAre DEF Stmt, PwshCmds
    <3>2. "targrst_1" \in Range(toPwsh')
      BY <1>4, <2>1, <3>1
    <3> QED BY <2>1, <2>2, <3>2 DEF ResetAhead, ResetDue
  <2>3. CASE h # 5
    BY <1>8, <2>1, <2>3 DEF ResetAhead
  <2> QED BY <2>2, <2>3
<1>9. CASE AskStatus
  <2>1. "status" \in PwshCmds
    BY DEF PwshCmds
  <2>2. Range(toPwsh') = Range(toPwsh) \cup {"status"} /\ h' = h
    BY <1>4, <1>9, <2>1 DEF AskStatus
  <2> QED BY <2>2 DEF ResetAhead, ResetDue
<1>10. CASE RespDone /\ h = 1
  <2>1. h' = h + 1
    BY <1>10 DEF RespDone, Goto
  <2> QED BY <1>10, <2>1 DEF ResetAhead
<1>11. CASE OkDone /\ h \in {2, 6, 9}
  <2>1. CASE "status_ok" \in seen
    <3>1. h' = h + 1 /\ UNCHANGED toPwsh
      BY <1>11, <2>1 DEF OkDone, Goto, wires
    <3>2. h = 6 => ~ResetDue
      BY <1>1, <2>1 DEF ShieldInv
    <3> QED BY <1>11, <3>1, <3>2 DEF ResetAhead
  <2>2. CASE "status_ok" \notin seen
    BY <1>6, <1>11, <2>2 DEF OkDone, wires
  <2> QED BY <2>1, <2>2
<1>12. CASE TrigDone /\ h = 7
  <2>1. h' \in {7, 8}
    BY <1>12 DEF TrigDone, Goto
  <2> QED BY <1>12, <2>1 DEF ResetAhead
<1>13. CASE Found /\ h = 10
  <2>1. h' = 11
    BY <1>13 DEF Found, Goto
  <2> QED BY <2>1
<1> QED BY <1>6, <1>7, <1>8, <1>9, <1>10, <1>11, <1>12, <1>13
        DEF SetupNext, TargPrint, ReadTarg, ReadPwsh, script

\* The log stays one that the reset can follow, or has followed.
LEMMA BootStep ==
  ASSUME BatchInv, SetupNext, h \in 1..10, h' \in 1..10
  PROVE  BootInv'
<1>1. Typed /\ ShieldInv /\ BootInv
  BY TypeIs DEF BatchInv, Basics, Stages
<1>2. CASE TargPrint
  BY <1>1, <1>2, BootPrints
<1>3. PICK l : Reading(fromTarg, log, l) /\ IF ResetAhead THEN BeforeReset(l) ELSE AfterReset(l)
  BY <1>1 DEF BootInv
<1>4. CASE ShieldTakes("targrst_1")
  <2> DEFINE u == Tail(toPwsh)
  <2>1. /\ toPwsh # <<>> /\ Head(toPwsh) = "targrst_1" /\ toPwsh' = u
        /\ todo' = Start /\ rx' = NoByte /\ UNCHANGED <<script, toTarg, fromTarg, cur, build>>
    BY <1>4 DEF ShieldTakes, Answer
  <2>2. /\ Len(toPwsh) \in Nat \ {0} /\ Len(u) = Len(toPwsh) - 1 /\ Head(toPwsh) = toPwsh[1]
        /\ \A i \in 1..(Len(toPwsh) - 1) : u[i] = toPwsh[i + 1]
        /\ Range(toPwsh) = {Head(toPwsh)} \cup Range(u)
        /\ u \in Seq(PwshCmds)
    BY <1>1, <2>1, QueueTail DEF Typed
  <2>3. "targrst_1" \in Range(toPwsh)
    BY <2>1, <2>2
  <2>4. h = 6
    <3>1. toPwsh = <<>> => Range(toPwsh) = {}
      BY EmptyRange
    <3> QED BY <1>1, <2>3, <3>1 DEF ShieldInv
  <2>5. "targrst_1" \notin Range(u)
    <3> SUFFICES ASSUME NEW i \in DOMAIN u, u[i] = "targrst_1" PROVE FALSE
      BY DEF Range
    <3>1. i \in 1..(Len(toPwsh) - 1)
      BY <2>2, LenProperties
    <3>2. i + 1 \in 1..Len(toPwsh) /\ 1 \in 1..Len(toPwsh) /\ 1 < i + 1 /\ toPwsh[i + 1] = "targrst_1"
      BY <2>2, <3>1
    <3>3. ResetFirst(toPwsh)
      BY <1>1, <2>4 DEF ShieldInv
    <3> QED BY <2>1, <2>2, <3>2, <3>3 DEF ResetFirst
  <2>6. ResetAhead /\ ~ResetAhead'
    BY <2>1, <2>3, <2>4, <2>5 DEF ResetAhead, ResetDue, script
  <2>7. l \in Early(build)
    BY <1>3, <2>6, EarlyIs DEF BeforeReset
  <2>8. AfterReset(l)'
    BY <2>1, <2>7 DEF AfterReset
  <2>9. Reading(fromTarg', log', l) /\ toTarg' = <<>> /\ cur' = None
    BY <1>1, <1>3, <2>1 DEF BootInv, script
  <2> QED BY <2>1, <2>6, <2>8, <2>9, Zenon DEF BootInv
<1>5. CASE ~ShieldTakes("targrst_1") /\ ~TargPrint
  <2>1. ResetAhead' = ResetAhead
    BY <1>5, ResetStep
  <2>2. ASSUME UNCHANGED <<todo, toTarg, rx, cur, build>>, Reading(fromTarg', log', l),
               ResetAhead
                 \/ ("RESET" \in Kinds(fromTarg) \/ (h = 10 /\ "RESET" \in seen) =>
                       "RESET" \in Kinds(fromTarg)' \/ (h' = 10 /\ "RESET" \in seen'))
        PROVE  BootInv'
    <3>1. BeforeReset(l) => BeforeReset(l)'
      BY <2>2 DEF BeforeReset
    <3>2. ~ResetAhead /\ AfterReset(l) => AfterReset(l)'
      BY <2>2, Zenon DEF AfterReset
    <3>3. toTarg' = <<>> /\ rx' = NoByte /\ cur' = None
      BY <1>1, <2>2 DEF BootInv
    <3> QED BY <1>3, <2>1, <2>2, <3>1, <3>2, <3>3, Zenon DEF BootInv
  <2>3. ASSUME UNCHANGED <<fromTarg, log, toTarg, console, build>>, h # 10 \/ UNCHANGED <<h, seen>>
        PROVE  BootInv'
    <3>1. UNCHANGED <<todo, toTarg, rx, cur, build>> /\ Reading(fromTarg', log', l)
      BY <1>3, <2>3 DEF console
    <3>2. "RESET" \in Kinds(fromTarg) \/ (h = 10 /\ "RESET" \in seen) =>
            "RESET" \in Kinds(fromTarg)' \/ (h' = 10 /\ "RESET" \in seen')
      BY <2>3, Zenon
    <3> QED BY <2>2, <3>1, <3>2
  <2>4. CASE ShieldRefuses \/ \E cmd \in PwshCmds : ShieldTakes(cmd)
    BY <1>5, <2>3, <2>4 DEF ShieldRefuses, ShieldTakes, script
  <2>5. CASE ReadTarg /\ h \in {1, 10}
    <3>1. /\ fromTarg # <<>> /\ fromTarg' = Tail(fromTarg) /\ log' = Logged(log, Head(fromTarg))
          /\ seen' = seen \cup {Head(fromTarg)[1]} /\ h' = h
          /\ UNCHANGED <<toTarg, console, build>>
      BY <2>5 DEF ReadTarg
    <3>2. fromTarg \in Seq(Lines)
      BY <1>1 DEF Typed
    <3>3. Reading(fromTarg', log', l)
      BY <1>3, <3>1, <3>2, ReadingRead, Zenon
    <3>4. Kinds(fromTarg) = {Head(fromTarg)[1]} \cup Kinds(Tail(fromTarg))
      BY <3>1, <3>2, KindsShrink, Zenon
    <3>5. ResetAhead
            \/ ("RESET" \in Kinds(fromTarg) \/ (h = 10 /\ "RESET" \in seen) =>
                  "RESET" \in Kinds(fromTarg)' \/ (h' = 10 /\ "RESET" \in seen'))
      <4>1. CASE h = 10
        <5>1. Kinds(fromTarg)' = Kinds(Tail(fromTarg))
          BY <3>1, Zenon
        <5> QED BY <3>1, <3>4, <4>1, <5>1
      <4>2. CASE h = 1
        BY <4>2 DEF ResetAhead
      <4> QED BY <2>5, <4>1, <4>2
    <3> QED BY <2>2, <3>1, <3>3, <3>5 DEF console
  <2>6. CASE ReadPwsh /\ h \in {2, 6, 7, 9}
    <3>1. \E x \in Replies : Head(fromPwsh) = <<x>> /\ Head(fromPwsh)[1] = x /\ x # "completed"
      BY <1>1, <2>6, ReplyIs DEF ReadPwsh, ShieldInv, Typed
    <3>2. UNCHANGED <<fromTarg, log, toTarg, console, build>>
      BY <2>6, <3>1 DEF ReadPwsh
    <3> QED BY <2>3, <2>6, <3>2
  <2>7. CASE PwshCmd /\ h \in {3, 4, 5, 8}
    BY <2>3, <2>7 DEF PwshCmd
  <2>8. CASE AskStatus
    BY <2>3, <2>8 DEF AskStatus
  <2>9. CASE (RespDone /\ h = 1) \/ (OkDone /\ h \in {2, 6, 9}) \/ (TrigDone /\ h = 7)
    BY <2>3, <2>9 DEF RespDone, OkDone, TrigDone, wires
  <2>10. CASE Found /\ h = 10
    <3>1. h' = 11
      BY <2>10 DEF Found, Goto
    <3> QED BY <3>1
  <2> QED BY <1>5, <2>4, <2>5, <2>6, <2>7, <2>8, <2>9, <2>10 DEF SetupNext
<1> QED BY <1>2, <1>4, <1>5

\* The reset is asked for once, and nothing else matters before it.
LEMMA ResetFirstTail ==
  ASSUME NEW s \in Seq(PwshCmds), s # <<>>, ResetFirst(s)
  PROVE  /\ ResetFirst(Tail(s))
         /\ Head(s) \in {"status", "targrst_1"} => "targrst_1" \notin Range(Tail(s))
<1> DEFINE u == Tail(s)
<1>1. /\ u \in Seq(PwshCmds) /\ Len(s) \in Nat \ {0} /\ Len(u) = Len(s) - 1 /\ Head(s) = s[1]
      /\ \A i \in 1..(Len(s) - 1) : u[i] = s[i + 1]
  BY QueueTail
<1> HIDE DEF u
<1>2. \A i \in 1..Len(u) : i + 1 \in 1..Len(s) /\ 1 \in 1..Len(s) /\ 1 < i + 1 /\ u[i] = s[i + 1]
  BY <1>1
<1>3. ResetFirst(u)
  <2> SUFFICES ASSUME NEW i \in 1..Len(u), NEW j \in 1..Len(u), i < j, u[j] = "targrst_1"
               PROVE  u[i] \notin {"status", "targrst_1"}
    BY DEF ResetFirst
  <2>1. i + 1 < j + 1
    BY <1>1
  <2> QED BY <1>2, <2>1 DEF ResetFirst
<1>4. ASSUME Head(s) \in {"status", "targrst_1"}, NEW i \in DOMAIN u, u[i] = "targrst_1" PROVE FALSE
  <2>1. i \in 1..Len(u)
    BY <1>1, LenProperties
  <2>2. s[i + 1] = "targrst_1" /\ s[1] \in {"status", "targrst_1"}
    BY <1>1, <1>2, <1>4, <2>1
  <2> QED BY <1>2, <2>1, <2>2 DEF ResetFirst
<1> QED BY <1>3, <1>4 DEF Range, u

\* The reset is put behind commands that it may follow.
LEMMA ResetFirstAppend ==
  ASSUME NEW s \in Seq(PwshCmds), NEW x \in PwshCmds, ResetFirst(s),
         x = "targrst_1" => "status" \notin Range(s) /\ "targrst_1" \notin Range(s)
  PROVE  ResetFirst(Append(s, x))
<1> DEFINE u == Append(s, x)
<1>1. /\ Len(u) = Len(s) + 1 /\ \A i \in 1..Len(s) : u[i] = s[i]
      /\ u[Len(s) + 1] = x /\ Len(s) \in Nat /\ DOMAIN s = 1..Len(s)
  BY QueueAppend, LenProperties
<1> HIDE DEF u
<1>2. ResetFirst(u)
  <2> SUFFICES ASSUME NEW i \in 1..Len(u), NEW j \in 1..Len(u), i < j, u[j] = "targrst_1"
               PROVE  u[i] \notin {"status", "targrst_1"}
    BY DEF ResetFirst
  <2>1. i \in 1..Len(s) /\ u[i] = s[i] /\ s[i] \in Range(s)
    BY <1>1 DEF Range
  <2>2. CASE j \in 1..Len(s)
    BY <1>1, <2>1, <2>2 DEF ResetFirst
  <2>3. CASE j = Len(s) + 1
    BY <1>1, <2>1, <2>3
  <2> QED BY <1>1, <2>2, <2>3
<1> QED BY <1>2 DEF u

\* What an answer of the shield takes from one line and puts on the other.
LEMMA AnswerIs ==
  ASSUME Typed, NEW x \in Replies, toPwsh # <<>>, Answer(x)
  PROVE  /\ Range(toPwsh) = {Head(toPwsh)} \cup Range(toPwsh')
         /\ Range(fromPwsh') = Range(fromPwsh) \cup {<<x>>}
         /\ Kinds(fromPwsh') = Kinds(fromPwsh) \cup {x}
         /\ ResetFirst(toPwsh) => /\ ResetFirst(toPwsh')
                                  /\ Head(toPwsh) \in {"status", "targrst_1"} =>
                                       "targrst_1" \notin Range(toPwsh')
<1>1. toPwsh \in Seq(PwshCmds) /\ fromPwsh \in Seq(Answers)
  BY DEF Typed
<1>2. toPwsh' = Tail(toPwsh) /\ fromPwsh' = Append(fromPwsh, <<x>>)
  BY DEF Answer
<1>3. <<x>> \in Answers /\ <<x>>[1] = x
  BY Zenon DEF Answers
<1>4. Range(toPwsh) = {Head(toPwsh)} \cup Range(Tail(toPwsh))
  BY <1>1, QueueTail, Zenon
<1>5. Range(Append(fromPwsh, <<x>>)) = Range(fromPwsh) \cup {<<x>>}
  <2> DEFINE y == <<x>>
  <2>1. y \in Answers
    BY <1>3
  <2> HIDE DEF y
  <2>2. Range(Append(fromPwsh, y)) = Range(fromPwsh) \cup {y}
    BY <1>1, <2>1, QueueAppend
  <2> QED BY <2>2 DEF y
<1>6. Kinds(Append(fromPwsh, <<x>>)) = Kinds(fromPwsh) \cup {<<x>>[1]}
  BY <1>5, Zenon DEF Kinds
<1>7. ResetFirst(toPwsh) =>
        /\ ResetFirst(Tail(toPwsh))
        /\ Head(toPwsh) \in {"status", "targrst_1"} => "targrst_1" \notin Range(Tail(toPwsh))
  BY <1>1, ResetFirstTail, Zenon
<1> QED BY <1>2, <1>3, <1>4, <1>5, <1>6, <1>7, Zenon

\* ShieldInv is kept while the script sets up.
LEMMA ShieldStep ==
  ASSUME BatchInv, SetupNext, h \in 1..10, h' \in 1..10
  PROVE  ShieldInv'
<1>1. Typed /\ ShieldInv
  BY TypeIs DEF BatchInv, Basics, Stages
<1>2. toPwsh \in Seq(PwshCmds) /\ fromPwsh \in Seq(Answers)
  BY <1>1 DEF Typed
<1>3. Range(<<>>) = {}
  BY EmptyRange
<1>4. ASSUME NEW x \in PwshCmds
      PROVE  Range(Append(toPwsh, x)) = Range(toPwsh) \cup {x}
  BY <1>2, QueueAppend
<1>5. \A x \in Replies : <<x>> \in {<<y>> : y \in Replies}
  BY Zenon
<1>6. CASE TargPrint \/ ReadTarg
  <2>1. UNCHANGED <<h, acq, toPwsh, fromPwsh, trig, armed>> /\ seen \subseteq seen'
    BY <1>6 DEF TargPrint, ReadTarg, script, shield
  <2>2. \A x \in {"status_ok", "ack_trigsrc_d7"} : x \in seen' => x \in seen
    <3>1. CASE TargPrint
      BY <3>1 DEF TargPrint, script
    <3>2. CASE ReadTarg
      <4>1. seen' = seen \cup {Head(fromTarg)[1]} /\ Head(fromTarg)[1] \in Words
        <5>1. Head(fromTarg) \in Lines
          BY <1>1, <3>2, QueueTail DEF ReadTarg, Typed
        <5>2. Head(fromTarg)[1] \in Words
          BY <1>1, <5>1, LoggedIs, Zenon DEF Typed
        <5> QED BY <3>2, <5>2 DEF ReadTarg
      <4> QED BY <4>1 DEF Words
    <3> QED BY <1>6, <3>1, <3>2
  <2>3. h \in 3..5 => seen' = {}
    <3>1. CASE TargPrint
      BY <1>1, <3>1 DEF TargPrint, script, ShieldInv
    <3>2. CASE ReadTarg
      <4>1. h \in {1, 10}
        BY <1>1, <3>2, TypeIs, AtIs DEF ReadTarg, ReadsTarg
      <4> QED BY <4>1
    <3> QED BY <1>6, <3>1, <3>2
  <2> QED BY <1>1, <2>1, <2>2, <2>3 DEF ShieldInv, ResetDue
<1>7. CASE ShieldRefuses
  <2>1. /\ toPwsh # <<>> /\ Head(toPwsh) \in {"status", "trigsrc_d7"} /\ Answer("error")
        /\ UNCHANGED <<h, seen, acq, trig, armed>>
    BY <1>7 DEF ShieldRefuses, script
  <2>2. "error" \in Replies
    BY DEF Replies
  <2>3. /\ Range(toPwsh) = {Head(toPwsh)} \cup Range(toPwsh')
        /\ Range(fromPwsh') = Range(fromPwsh) \cup {<<"error">>}
        /\ Kinds(fromPwsh') = Kinds(fromPwsh) \cup {"error"}
        /\ ResetFirst(toPwsh) => ResetFirst(toPwsh')
    BY <1>1, <2>1, <2>2, AnswerIs
  <2>4. h \notin 3..5 /\ h \notin {1, 8, 10}
    BY <1>1, <1>3, <2>1, <2>3 DEF ShieldInv
  <2> QED BY <1>1, <1>5, <2>1, <2>2, <2>3, <2>4 DEF ShieldInv, ResetDue
<1>8. ASSUME NEW cmd \in PwshCmds, ShieldTakes(cmd) PROVE ShieldInv'
  <2>1. /\ toPwsh # <<>> /\ Head(toPwsh) = cmd /\ Answer(Reply(cmd))
        /\ UNCHANGED <<h, seen>>
    BY <1>8 DEF ShieldTakes, script
  <2>2. /\ acq' = None
        /\ trig' = CASE cmd = "trigsrc_d7" -> "d7" [] cmd = "trigsrc_sw" -> "sw" [] OTHER -> trig
        /\ armed' = CASE cmd = "start" -> TRUE [] cmd = "stop" -> FALSE [] OTHER -> armed
    BY <1>1, <1>8 DEF ShieldTakes, ShieldInv
  <2>3. /\ cmd = "status" => Reply(cmd) = "status_ok"
        /\ cmd = "trigsrc_d7" => Reply(cmd) = "ack_trigsrc_d7"
        /\ cmd \notin {"status", "trigsrc_d7"} => Reply(cmd) = "ack"
        /\ Reply(cmd) \in Replies
    <3>1. "status" # "trigsrc_d7"
      OBVIOUS
    <3>2. /\ cmd = "status" => Reply(cmd) = "status_ok"
          /\ cmd = "trigsrc_d7" => Reply(cmd) = "ack_trigsrc_d7"
          /\ cmd \notin {"status", "trigsrc_d7"} => Reply(cmd) = "ack"
      BY <3>1, Zenon DEF Reply
    <3> QED BY <3>2 DEF Replies
  <2> DEFINE x == Reply(cmd)
  <2>4. /\ Range(toPwsh) = {cmd} \cup Range(toPwsh')
        /\ Range(fromPwsh') = Range(fromPwsh) \cup {<<x>>}
        /\ Kinds(fromPwsh') = Kinds(fromPwsh) \cup {x}
        /\ ResetFirst(toPwsh) => /\ ResetFirst(toPwsh')
                                 /\ cmd \in {"status", "targrst_1"} => "targrst_1" \notin Range(toPwsh')
    BY <1>1, <2>1, <2>3, AnswerIs, Zenon
  <2>5. /\ cmd = "status" => x = "status_ok"
        /\ cmd = "trigsrc_d7" => x = "ack_trigsrc_d7"
        /\ cmd \notin {"status", "trigsrc_d7"} => x = "ack"
        /\ <<x>> \in {<<y>> : y \in Replies}
    BY <1>5, <2>3
  <2> HIDE DEF x
  <2>6. h \notin {1, 8, 10} /\ (h = 2 => cmd = "status") /\ (h \in 3..5 => cmd \in {"stop", "trigsrc_sw"})
        /\ (h = 6 => cmd \in {"stop", "trigsrc_sw", "targrst_1", "status"})
        /\ (h = 7 => cmd = "trigsrc_d7") /\ (h = 9 => cmd \in {"start", "status"})
    BY <1>1, <1>3, <2>1, <2>4 DEF ShieldInv
  <2>7. CASE h = 2
    BY <1>1, <2>1, <2>2, <2>4, <2>5, <2>6, <2>7 DEF ShieldInv
  <2>8. CASE h \in 3..5
    BY <1>1, <2>1, <2>2, <2>4, <2>5, <2>6, <2>8 DEF ShieldInv
  <2>9. CASE h = 6
    BY <1>1, <2>1, <2>2, <2>4, <2>5, <2>6, <2>9 DEF ShieldInv, ResetDue
  <2>10. CASE h = 7
    BY <1>1, <2>1, <2>2, <2>4, <2>5, <2>6, <2>10 DEF ShieldInv
  <2>11. CASE h = 9
    BY <1>1, <2>1, <2>2, <2>4, <2>5, <2>6, <2>11 DEF ShieldInv
  <2> QED BY <2>6, <2>7, <2>8, <2>9, <2>10, <2>11
<1>9. CASE PwshCmd /\ h \in {3, 4, 5, 8}
  <2>1. /\ h' = h + 1 /\ seen' = {} /\ UNCHANGED <<acq, fromPwsh, trig, armed>>
        /\ toPwsh' = Append(toPwsh, Stmt.arg)
    BY <1>9 DEF PwshCmd, Goto, shield
  <2>2. /\ h = 3 => Stmt.arg = "stop"
        /\ h = 4 => Stmt.arg = "trigsrc_sw"
        /\ h = 5 => Stmt.arg = "targrst_1"
        /\ h = 8 => Stmt.arg = "start"
    BY StatementsAre DEF Stmt
  <2> DEFINE x == Stmt.arg
  <2>3. x \in PwshCmds
    BY <1>9, <2>2 DEF PwshCmds
  <2>4. Range(toPwsh') = Range(toPwsh) \cup {x}
    BY <1>4, <2>1, <2>3
  <2> HIDE DEF x
  <2>5. CASE h \in {3, 4}
    BY <1>1, <2>1, <2>2, <2>4, <2>5 DEF ShieldInv, x
  <2>6. CASE h = 5
    <3>1. Range(toPwsh) \subseteq {"stop", "trigsrc_sw"} /\ x = "targrst_1"
      BY <1>1, <2>2, <2>6 DEF ShieldInv, x
    <3>2. ResetFirst(toPwsh')
      <4>1. ResetFirst(toPwsh)
        <5> SUFFICES ASSUME NEW j \in 1..Len(toPwsh) PROVE toPwsh[j] # "targrst_1"
          BY DEF ResetFirst
        <5>1. toPwsh[j] \in Range(toPwsh)
          BY <1>2, LenProperties DEF Range
        <5> QED BY <3>1, <5>1
      <4>2. "status" \notin Range(toPwsh) /\ "targrst_1" \notin Range(toPwsh)
        BY <3>1
      <4> QED BY <1>2, <2>1, <2>3, <4>1, <4>2, ResetFirstAppend, Zenon DEF x
    <3>3. "status_ok" \notin Kinds(fromPwsh)
      <4>1. Range(fromPwsh) \subseteq {<<"ack">>}
        BY <1>1, <2>6 DEF ShieldInv
      <4>2. <<"ack">>[1] # "status_ok"
        OBVIOUS
      <4> QED BY <4>1, <4>2 DEF Kinds
    <3> QED BY <1>1, <2>1, <2>4, <2>6, <3>1, <3>2, <3>3 DEF ShieldInv
  <2>7. CASE h = 8
    BY <1>1, <1>3, <2>1, <2>2, <2>4, <2>7 DEF ShieldInv, x
  <2> QED BY <1>9, <2>5, <2>6, <2>7
<1>10. CASE AskStatus /\ h \in {2, 6, 9}
  <2>1. "status" \in PwshCmds
    BY DEF PwshCmds
  <2>2. /\ Range(toPwsh') = Range(toPwsh) \cup {"status"} /\ toPwsh' = Append(toPwsh, "status")
        /\ UNCHANGED <<h, seen, acq, fromPwsh, trig, armed>>
    BY <1>4, <1>10, <2>1 DEF AskStatus, shield
  <2>3. ResetFirst(toPwsh) => ResetFirst(toPwsh')
    <3>1. "status" # "targrst_1"
      OBVIOUS
    <3> QED BY <1>2, <2>1, <2>2, <3>1, ResetFirstAppend, Zenon
  <2> QED BY <1>1, <1>10, <2>2, <2>3 DEF ShieldInv, ResetDue
<1>11. CASE ReadPwsh /\ h \in {2, 6, 7, 9}
  <2>1. /\ fromPwsh # <<>> /\ fromPwsh' = Tail(fromPwsh) /\ seen' = seen \cup {Head(fromPwsh)[1]}
        /\ UNCHANGED <<h, acq, toPwsh, trig, armed>>
    BY <1>11 DEF ReadPwsh, shield
  <2>2. /\ Kinds(fromPwsh) = {Head(fromPwsh)[1]} \cup Kinds(Tail(fromPwsh))
        /\ Range(fromPwsh) = {Head(fromPwsh)} \cup Range(Tail(fromPwsh))
    BY <1>2, <2>1, KindsShrink, QueueTail, Zenon
  <2>3. seen' \cup Kinds(fromPwsh') = seen \cup Kinds(fromPwsh) /\ Range(fromPwsh') \subseteq Range(fromPwsh)
    BY <2>1, <2>2
  <2> QED BY <1>1, <1>11, <2>1, <2>3 DEF ShieldInv, ResetDue
<1>12. CASE RespDone /\ h = 1
  BY <1>1, <1>3, <1>12 DEF RespDone, Goto, ShieldInv, wires, shield
<1>13. CASE OkDone /\ h \in {2, 6, 9}
  <2>1. CASE "status_ok" \notin seen
    BY <1>1, <1>13, <2>1 DEF OkDone, ShieldInv, ResetDue, wires, shield
  <2>2. CASE "status_ok" \in seen
    <3>1. h' = h + 1 /\ seen' = {} /\ UNCHANGED <<acq, toPwsh, fromPwsh, trig, armed>>
      BY <1>13, <2>2 DEF OkDone, Goto, wires, shield
    <3>2. fromPwsh = <<>>
      BY <1>13 DEF OkDone, Silence, ReadsPwsh
    <3>3. toPwsh = <<>>
      <4>1. ~ResetDue
        BY <1>1, <1>13, <2>2 DEF ShieldInv, ResetDue
      <4> QED BY <1>13, <4>1, QuietLine DEF OkDone
    <3> QED BY <1>1, <1>3, <1>13, <3>1, <3>2, <3>3 DEF ShieldInv, Kinds
  <2> QED BY <2>1, <2>2
<1>14. CASE TrigDone /\ h = 7
  <2>1. fromPwsh = <<>> /\ toPwsh = <<>>
    <3>1. fromPwsh = <<>>
      BY <1>14 DEF TrigDone, Silence, ReadsPwsh
    <3>2. ~ResetDue
      BY <1>1, <1>14 DEF ShieldInv, ResetDue
    <3> QED BY <1>14, <3>1, <3>2, QuietLine DEF TrigDone
  <2>2. CASE "ack_trigsrc_d7" \in seen
    BY <1>1, <1>3, <1>14, <2>1, <2>2 DEF TrigDone, Goto, ShieldInv, shield
  <2>3. CASE "ack_trigsrc_d7" \notin seen
    <3>1. "trigsrc_d7" \in PwshCmds
      BY DEF PwshCmds
    <3>2. Range(toPwsh') = {"trigsrc_d7"} /\ h' = 7 /\ seen' = {} /\ UNCHANGED <<acq, fromPwsh, trig, armed>>
      BY <1>3, <1>4, <1>14, <2>1, <2>3, <3>1 DEF TrigDone, Goto, shield
    <3> QED BY <1>1, <1>3, <2>1, <3>2 DEF ShieldInv, Kinds
  <2> QED BY <2>2, <2>3
<1>15. CASE Found /\ h = 10
  <2>1. h' = 11
    BY <1>15 DEF Found, Goto
  <2> QED BY <2>1
<1> QED BY <1>6, <1>7, <1>8, <1>9, <1>10, <1>11, <1>12, <1>13, <1>14, <1>15 DEF SetupNext

\* What the commands of the script make the firmware do.
LEMMA WorkOf ==
  ASSUME NEW init \in BOOLEAN
  PROVE  /\ \A c \in {"a", "k", "e", "s", "d", "v"} :
              /\ IsMeasure(c)
              /\ c = "a" \/ init => Work(c, init) = <<"START", "D7", "END", "ROWS", "INPUT", "GETC">>
         /\ Work("z", init) = <<"ZZZ", "D7", "END", "INPUT", "GETC">>
         /\ Work("t", init) = <<"TEST", "VERDICT", "INPUT", "GETC">>
         /\ Work("\n", init) = <<"INPUT", "GETC">>
<1> DEFINE t1 == <<"START", "D7", "END", "ROWS", "INPUT", "GETC">>
           t2 == <<"ZZZ", "D7", "END", "INPUT", "GETC">>
           t3 == <<"TEST", "VERDICT", "INPUT", "GETC">>
           t4 == <<"INPUT", "GETC">>
           t5 == <<"TEST", "VERDICT", "START", "D7", "END", "ROWS", "INPUT", "GETC">>
           t6 == <<"RANDOM", "INPUT", "GETC">>
           t7 == <<"DONE", "SLEEP">>
           M == {"a", "k", "e", "s", "d", "v"}
<1>1. /\ Kg \in Ops /\ Enc \in Ops /\ Dec \in Ops
  BY DEF Ops
<1>2. ASSUME NEW c \in M PROVE IsMeasure(c)
  <2>1. Kg \in Flags(c) \/ Enc \in Flags(c) \/ Dec \in Flags(c)
    BY <1>1 DEF Flags
  <2> QED BY <2>1 DEF IsMeasure
<1>3. Kg \in Flags("a")
  BY <1>1 DEF Flags
<1>4. \A c \in {"z", "t", "\n"} : ~IsMeasure(c)
  BY DEF IsMeasure, Flags
<1>5. IsTest("t") /\ ~IsTest("z") /\ ~IsTest("\n") /\ "\n" # "z" /\ "\n" # "x" /\ ~IsDigit("\n")
  <2>1. \A d \in 1..10 : DigitSeq[d] \in {"0", "1", "2", "3", "4", "5", "6", "7", "8", "9"}
    <3>1. \A d \in 1..10 : d = 1 \/ d = 2 \/ d = 3 \/ d = 4 \/ d = 5 \/ d = 6 \/ d = 7 \/ d = 8 \/ d = 9 \/ d = 10
      OBVIOUS
    <3> QED BY <3>1 DEF DigitSeq
  <2> QED BY <2>1 DEF IsTest, IsDigit
<1> HIDE DEF t1, t2, t3, t4, t5, t6, t7
<1>6. ASSUME NEW c
      PROVE  Work(c, init) =
               IF IsMeasure(c) THEN IF NeedsTest(c, init) THEN t5 ELSE t1
               ELSE IF IsTest(c) THEN t3
               ELSE IF c = "z" THEN t2
               ELSE IF IsDigit(c) THEN t6
               ELSE IF c = "x" THEN t7 ELSE t4
  BY Zenon DEF Work, t1, t2, t3, t4, t5, t6, t7
<1>7. ASSUME NEW c \in M, c = "a" \/ init PROVE Work(c, init) = t1
  <2>1. ~NeedsTest(c, init)
    BY <1>3, <1>7, Zenon DEF NeedsTest
  <2> QED BY <1>2, <1>6, <2>1, Zenon
<1>8. Work("z", init) = t2
  <2>1. ~IsMeasure("z") /\ ~IsTest("z")
    BY <1>4, <1>5
  <2> QED BY <1>6, <2>1, Zenon
<1>9. Work("t", init) = t3
  <2>1. ~IsMeasure("t")
    BY <1>4
  <2> QED BY <1>5, <1>6, <2>1, Zenon
<1>10. Work("\n", init) = t4
  <2>1. ~IsMeasure("\n")
    BY <1>4
  <2> QED BY <1>5, <1>6, <2>1, Zenon
<1> QED BY <1>2, <1>7, <1>8, <1>9, <1>10, Zenon DEF t1, t2, t3, t4

\* The byte for part j of a target of known kind.
LEMMA ByteOf ==
  ASSUME Typed, NEW j \in 1..5
  PROVE  Byte(Parts[j]) = Reported(kem)[j]
<1> DEFINE x == IF kem THEN "e" ELSE "s"
           y == IF kem THEN "d" ELSE "v"
           r == <<"a", "k", x, y, "z">>
<1>1. /\ Byte("all") = "a" /\ Byte("keygen") = "k" /\ Byte("baseline") = "z"
      /\ Byte("encaps") = x /\ Byte("decaps") = y
  BY DEF Byte
<1> HIDE DEF x, y
<1>2. r[1] = "a" /\ r[2] = "k" /\ r[3] = x /\ r[4] = y /\ r[5] = "z"
  OBVIOUS
<1>3. j = 1 \/ j = 2 \/ j = 3 \/ j = 4 \/ j = 5
  OBVIOUS
<1>4. Parts[1] = "all" /\ Parts[2] = "keygen" /\ Parts[3] = "encaps"
      /\ Parts[4] = "decaps" /\ Parts[5] = "baseline"
  BY DEF Parts
<1> HIDE DEF r
<1>5. Byte(Parts[j]) = r[j]
  BY <1>1, <1>2, <1>3, <1>4, Zenon
<1>6. r = Reported(kem)
  BY DEF r, x, y, Reported
<1> QED BY <1>5, <1>6

\* The log by command.
LEMMA LogGrows ==
  ASSUME NEW k \in BOOLEAN, NEW e \in Early(k), NEW j \in 1..5
  PROVE  /\ \A n \in {2 * j - 1, 2 * j} : LogAt(e, k, n) \in Seq(LogLines)
         /\ Append(LogAt(e, k, 2 * j - 1), <<"watt", Reported(k)[j]>>) = LogAt(e, k, 2 * j)
         /\ j # 5 => /\ Append(LogAt(e, k, 2 * j), <<"rows", Reported(k)[j]>>) = LogAt(e, k, 2 * j + 1)
                     /\ LogAt(e, k, 2 * j + 1) \in Seq(LogLines)
<1> DEFINE u(n) == LogAt(e, k, n)
<1>1. /\ \A n \in 0..10 : u(n) \in Seq(LogLines)
      /\ \A n \in 0..9 : u(n + 1) = Append(u(n), WholeLog(k)[n + 1])
  BY LogAtIs, Zenon
<1>2. 2 * j - 1 \in 0..9 /\ 2 * j - 1 \in 0..10 /\ 2 * j \in 0..10 /\ (2 * j - 1) + 1 = 2 * j
  OBVIOUS
<1>3. WholeLog(k)[2 * j] = <<"watt", Reported(k)[j]>>
  BY WholeLogLines, Zenon
<1>4. Append(u(2 * j - 1), <<"watt", Reported(k)[j]>>) = u(2 * j)
  <2>1. u((2 * j - 1) + 1) = Append(u(2 * j - 1), WholeLog(k)[(2 * j - 1) + 1])
    BY <1>1, <1>2, Zenon
  <2> QED BY <1>2, <1>3, <2>1, Zenon
<1>5. ASSUME j # 5
      PROVE  /\ Append(u(2 * j), <<"rows", Reported(k)[j]>>) = u(2 * j + 1)
             /\ u(2 * j + 1) \in Seq(LogLines)
  <2>1. j \in 1..4 /\ 2 * j \in 0..9 /\ 2 * j + 1 \in 0..10
    BY <1>5
  <2>2. WholeLog(k)[2 * j + 1] = <<"rows", Reported(k)[j]>>
    <3>1. WholeLog(k)[2 * j + 1] = <<"rows", Timing(k)[j]>>
      BY <2>1, WholeLogLines, Zenon
    <3>2. Timing(k)[j] = Reported(k)[j]
      BY <2>1, CommandsDiffer, Zenon
    <3> QED BY <3>1, <3>2
  <2> QED BY <1>1, <2>1, <2>2, Zenon
<1> HIDE DEF u
<1>6. \A n \in {2 * j - 1, 2 * j} : u(n) \in Seq(LogLines)
  BY <1>1, <1>2
<1> QED BY <1>4, <1>5, <1>6 DEF u

\* The script has seen the banner of the target it has reset.
LEMMA SetupEnds ==
  ASSUME BatchInv, Found, h = 10
  PROVE  h' = 3 * 1 + 8 + 0 /\ SectionInv(1, 0)'
<1>1. Typed /\ ShieldInv /\ BootInv
  BY TypeIs DEF BatchInv, Basics, Stages
<1>2. /\ Silence /\ h' = 11 /\ UNCHANGED <<log, wires, shield, console, build>>
      /\ kem' = IF Stmt.arg = "INPUT" THEN build /\ "RESET" \in seen ELSE kem
  BY DEF Found, Goto
<1>3. toPwsh = <<>> /\ fromPwsh = <<>> /\ acq = None /\ trig = "d7" /\ armed
  BY <1>1 DEF ShieldInv
<1>4. PICK l : Reading(fromTarg, log, l) /\ AfterReset(l)
  <2>1. ~ResetAhead
    BY DEF ResetAhead
  <2> QED BY <1>1, <2>1, Zenon DEF BootInv
<1>5. fromTarg = <<>>
  <2>1. At("targ_get_str")
    BY TypeIs, AtIs DEF BatchInv, Basics
  <2> QED BY <1>2, <2>1 DEF Silence, ReadsTarg
<1>6. todo = <<"GETC">> /\ rx = NoByte /\ toTarg = <<>> /\ todo \in Idle
  <2>1. todo \in {Start} \cup Idle
    BY <1>4, Zenon DEF AfterReset
  <2>2. Head(todo) \in {"VERDICT", "END", "SLEEP", "GETC"}
    BY <1>2 DEF Silence, Settled, Slow
  <2> QED BY <1>1, <2>1, <2>2, TodoIs DEF BootInv
<1>7. todo # Start
  BY <1>6, TodoIs
<1>8. /\ \E e \in Early(build) : l = LogAt(e, build, 1)
      /\ "RESET" \in Kinds(fromTarg) \/ "RESET" \in seen
  BY <1>4, <1>7, Zenon DEF AfterReset
<1>9. "RESET" \in seen
  <2>1. Kinds(<<>>) = {}
    BY EmptyRange DEF Kinds
  <2> QED BY <1>5, <1>8, <2>1
<1>10. kem' = build'
  <2>1. Stmt.arg = "INPUT"
    BY StatementsAre DEF Stmt
  <2>2. kem' = (build /\ "RESET" \in seen) /\ build \in BOOLEAN /\ build' = build
    BY <1>1, <1>2, <2>1, Zenon DEF Typed
  <2> QED BY <1>9, <2>2, Zenon
<1>11. l = log
  BY <1>1, <1>4, <1>5, ReadingNothing DEF Typed
<1>12. PICK e \in Early(build) : log = LogAt(e, build, 1)
  BY <1>8, <1>11
<1>13. Quiet(1, e)'
  <2>1. 2 * 1 - 1 = 1 /\ ~(1 > 1)
    OBVIOUS
  <2>2. UNCHANGED <<todo, rx, toTarg, fromTarg, fromPwsh, acq, log, build>>
    BY <1>2 DEF wires, shield, console
  <2> QED BY <1>3, <1>5, <1>6, <1>12, <2>1, <2>2 DEF Quiet
<1>14. Ready'
  BY <1>2, <1>3, <1>10 DEF Ready, wires, shield
<1>15. e \in Early(build')
  BY <1>2
<1> QED BY <1>2, <1>13, <1>14, <1>15 DEF SectionInv

(***************************************************************************)
(* The sections                                                            *)
(***************************************************************************)

\* What may happen in a section: the shield is not sent anything.
SectionNext(s) ==
  \/ TargPrint \/ TargVerdict \/ TargPulse \/ TargGetc \/ WireByte \/ ShieldReport
  \/ s = 0 /\ TargCmd
  \/ s = 1 /\ ReadPwsh
  \/ s = 2 /\ ReadTarg
  \/ s \in {1, 2} /\ Found

\* Nothing else does: the shield has nothing to answer.
LEMMA SectionSteps ==
  ASSUME BatchInv, SysNext, NEW j \in 1..5, NEW s \in 0..2, h = 3 * j + 8 + s
  PROVE  /\ SectionNext(s)
         /\ ReadPwsh => ~At("trig")
         /\ s = 0 => Stmt.arg = Parts[j]
         /\ s = 1 => Stmt.arg = "completed" /\ ReadsPwsh /\ ~ReadsTarg
         /\ s = 2 => Stmt.arg = "END" /\ ReadsTarg /\ ~ReadsPwsh
<1>1. TypeOK /\ SectionInv(j, s)
  BY DEF BatchInv, Basics, Stages
<1>2. toPwsh = <<>>
  BY <1>1 DEF SectionInv, Ready
<1>3. ~ShieldRefuses /\ \A cmd \in PwshCmds : ~ShieldTakes(cmd)
  BY <1>2 DEF ShieldRefuses, ShieldTakes
<1>4. /\ ~At("resp") /\ ~At("ok") /\ ~At("pwsh") /\ ~At("trig")
      /\ At("targ") <=> s = 0
      /\ At("pwsh_get_str") <=> s = 1
      /\ At("targ_get_str") <=> s = 2
  <2>1. \A i \in 1..5 : /\ h = 3 * i + 8 <=> i = j /\ s = 0
                        /\ h = 3 * i + 9 <=> i = j /\ s = 1
                        /\ h = 3 * i + 10 <=> i = j /\ s = 2
    OBVIOUS
  <2>2. h \in 11..25
    OBVIOUS
  <2> QED BY <1>1, <2>1, <2>2, AtIs
<1>5. /\ ~PwshCmd /\ ~AskStatus /\ ~RespDone /\ ~OkDone /\ ~TrigDone
      /\ TargCmd => s = 0
      /\ ReadPwsh => s = 1
      /\ ReadTarg => s = 2
      /\ Found => s \in {1, 2}
  BY <1>4 DEF PwshCmd, AskStatus, RespDone, OkDone, TrigDone, TargCmd, ReadPwsh, ReadTarg, Found,
              ReadsPwsh, ReadsTarg
<1>6. /\ s = 0 => Stmt.arg = Parts[j]
      /\ s = 1 => Stmt.arg = "completed"
      /\ s = 2 => Stmt.arg = "END"
  <2>1. /\ s = 0 => h = 3 * j + 8
        /\ s = 1 => h = 3 * j + 9
        /\ s = 2 => h = 3 * j + 10
    OBVIOUS
  <2> QED BY <2>1, StatementsAre DEF Stmt
<1>7. /\ s = 1 => ReadsPwsh /\ ~ReadsTarg
      /\ s = 2 => ReadsTarg /\ ~ReadsPwsh
  BY <1>4 DEF ReadsPwsh, ReadsTarg
<1>8. SectionNext(s)
  BY <1>3, <1>5, Zenon DEF SysNext, SectionNext, Target, Shield, Host
<1> QED BY <1>4, <1>6, <1>7, <1>8

\* The command goes out to a target that waits.
LEMMA QuietStep ==
  ASSUME BatchInv, SysNext, NEW j \in 1..5, h = 3 * j + 8 + 0
  PROVE  h' = 3 * j + 8 + 1 /\ SectionInv(j, 1)'
<1>1. Typed /\ SectionInv(j, 0) /\ build \in BOOLEAN
  <2>1. 0 \in 0..2
    OBVIOUS
  <2> QED BY <2>1, TypeIs DEF BatchInv, Basics, Stages, Typed
<1>2. Ready
  BY <1>1 DEF SectionInv
<1>3. PICK e \in Early(build) : Quiet(j, e)
  <2>1. 0 # 1 /\ 0 \notin {1, 2}
    OBVIOUS
  <2> QED BY <1>1, <2>1, Zenon DEF SectionInv
<1>4. SectionNext(0) /\ Stmt.arg = Parts[j]
  <2>1. 0 \in 0..2
    OBVIOUS
  <2> QED BY <2>1, SectionSteps, Zenon
<1>5. TargCmd
  <2>1. todo = <<"GETC">> /\ rx = NoByte /\ toTarg = <<>> /\ acq = None
    BY <1>3 DEF Quiet
  <2>2. Head(todo) = "GETC"
    BY <2>1
  <2>3. ~TargPrint /\ ~TargVerdict /\ ~TargPulse /\ ~TargGetc /\ ~WireByte /\ ~ShieldReport
    BY <2>1, <2>2 DEF TargPrint, SendLine, Silent, TargVerdict, Pass, Note, TargPulse, Pulse, TargGetc, Getc,
                      WireByte, ShieldReport
  <2>4. 0 # 1 /\ 0 # 2 /\ 0 \notin {1, 2}
    OBVIOUS
  <2> QED BY <1>4, <2>3, <2>4, Zenon DEF SectionNext
<1>11. PICK c : c = Reported(build)[j]
  OBVIOUS
<1>6. Byte(Stmt.arg) = c
  <2>1. kem = build
    BY <1>2 DEF Ready
  <2> QED BY <1>1, <1>4, <1>11, <2>1, ByteOf, Zenon
<1>7. /\ toTarg' = <<c, "\n">> /\ h' = h + 1 /\ seen' = {}
      /\ UNCHANGED <<kem, log, fromTarg, toPwsh, fromPwsh, shield, console, build>>
  <2>1. toTarg' = <<>> \o <<Byte(Stmt.arg), "\n">>
    BY <1>3, <1>5 DEF TargCmd, Quiet
  <2>2. toTarg' = <<c, "\n">>
    BY <1>6, <2>1
  <2> QED BY <1>5, <2>2 DEF TargCmd, Goto
<1>8. Asked(c, j, e)'
  BY <1>3, <1>7 DEF Quiet, Asked, shield, console
<1>9. Ready'
  BY <1>2, <1>7 DEF Ready, shield
<1>10. e \in Early(build') /\ Asked(Reported(build)[j], j, e)'
  BY <1>7, <1>8, <1>11, Zenon DEF Asked
<1>12. SectionInv(j, 1)'
  <2>1. 1 = 1
    OBVIOUS
  <2> QED BY <1>9, <1>10, <2>1, Zenon DEF SectionInv
<1> QED BY <1>7, <1>12

\* The command arrives, and the firmware begins.
LEMMA AskedStep ==
  ASSUME Typed, Ready, SectionNext(1), NEW j \in 1..5, NEW e \in Early(build),
         NEW c, c = Reported(build)[j], Asked(c, j, e),
         ReadsPwsh /\ ~ReadsTarg, Stmt.arg = "completed"
  PROVE  UNCHANGED <<h, build>> /\ Ready' /\ (Asked(c, j, e)' \/ Begun(c, j, 1, e)')
<1>1. /\ build \in BOOLEAN /\ ready \in BOOLEAN
      /\ c \in {"a", "k", "e", "s", "d", "v", "z"} /\ c \in Letters
      /\ c = "z" <=> j = 5
  BY CommandIs DEF Typed
<1>2. /\ todo = <<"GETC">> /\ Head(todo) = "GETC" /\ fromTarg = <<>> /\ fromPwsh = <<>>
      /\ acq = None /\ seen = {} /\ log = LogAt(e, build, 2 * j - 1) /\ (j > 1 => ready)
      /\ (toTarg = <<c, "\n">> /\ rx = NoByte) \/ (toTarg \in {<<>>, <<"\n">>} /\ rx = c)
  BY DEF Asked
<1>3. c # "\n" /\ c # NoByte
  <2>1. c \in Bytes /\ NoByte \notin Bytes
    BY <1>1, BytesAssumption, ConsoleAssumption
  <2> QED BY <1>1, <2>1
<1>4. WireByte \/ TargGetc
  <2>1. ~TargPrint /\ ~TargVerdict /\ ~TargPulse /\ ~ShieldReport
    BY <1>2 DEF TargPrint, SendLine, Silent, TargVerdict, Pass, Note, TargPulse, Pulse, ShieldReport
  <2>2. ~ReadPwsh /\ ~Found
    BY <1>2 DEF ReadPwsh, Found
  <2>3. 1 # 0 /\ 1 # 2
    OBVIOUS
  <2> QED BY <2>1, <2>2, <2>3, Zenon DEF SectionNext
<1>5. UNCHANGED <<h, build, seen, kem, log, fromTarg, fromPwsh, toPwsh, trig, armed, acq>>
  BY <1>4 DEF WireByte, TargGetc, script, shield, wires
<1>6. Ready'
  BY <1>5 DEF Ready
<1>7. CASE WireByte
  <2>1. /\ toTarg' = Tail(toTarg) /\ UNCHANGED <<todo, ready>>
        /\ rx' = IF rx = NoByte THEN Head(toTarg) ELSE rx
    BY <1>7 DEF WireByte, Receive
  <2>2. toTarg' \in {<<>>, <<"\n">>} /\ rx' = c
    <3>1. \A x : Head(<<x, "\n">>) = x /\ Tail(<<x, "\n">>) = <<"\n">> /\ Tail(<<"\n">>) = <<>>
      OBVIOUS
    <3>2. CASE toTarg = <<c, "\n">> /\ rx = NoByte
      BY <2>1, <3>1, <3>2, Zenon
    <3>3. CASE toTarg \in {<<>>, <<"\n">>} /\ rx = c
      <4>1. toTarg = <<"\n">>
        BY <1>7, <3>3 DEF WireByte
      <4> QED BY <1>3, <2>1, <3>1, <3>3, <4>1
    <3> QED BY <1>2, <3>2, <3>3
  <2>3. Asked(c, j, e)'
    BY <1>2, <1>5, <2>1, <2>2 DEF Asked
  <2> QED BY <1>5, <1>6, <2>3
<1>8. CASE TargGetc
  <2>1. rx = c /\ toTarg \in {<<>>, <<"\n">>}
    BY <1>2, <1>8 DEF TargGetc, Getc
  <2>2. /\ todo' = Work(c, ready) /\ rx' = NoByte /\ cur' = c /\ UNCHANGED toTarg
        /\ ready' = (ready \/ IsMeasure(c) \/ IsTest(c))
    BY <1>3, <1>8, <2>1 DEF TargGetc, Getc, wires
  <2>3. todo' \in Ahead(c) /\ ready'
    <3>1. CASE c = "z"
      <4>1. j = 5
        BY <1>1, <3>1
      <4>2. ready
        BY <1>2, <4>1
      <4>3. Work("z", ready) = <<"ZZZ", "D7", "END", "INPUT", "GETC">>
        BY <1>1, WorkOf, Zenon
      <4> QED BY <2>2, <3>1, <4>2, <4>3, Zenon DEF Ahead
    <3>2. CASE c # "z"
      <4>1. c \in {"a", "k", "e", "s", "d", "v"}
        BY <1>1, <3>2
      <4>2. c = "a" \/ ready
        <5>1. CASE j = 1
          <6>1. Reported(build)[1] = "a"
            BY DEF Reported
          <6> QED BY <5>1, <6>1
        <5>2. CASE j # 1
          BY <1>2, <5>2
        <5> QED BY <5>1, <5>2
      <4>3. Work(c, ready) = <<"START", "D7", "END", "ROWS", "INPUT", "GETC">> /\ IsMeasure(c)
        BY <1>1, <4>1, <4>2, WorkOf, Zenon
      <4>4. ready'
        BY <2>2, <4>3, Zenon
      <4> QED BY <2>2, <3>2, <4>3, <4>4, Zenon DEF Ahead
    <3> QED BY <3>1, <3>2
  <2>4. todo' \notin Idle
    BY <1>1, <2>3, WorkIs
  <2>5. Reading(fromTarg', LogAt(e, build, 2 * j), LogAt(e, build, 2 * j))
    BY <1>1, <1>2, <1>5, LogGrows, ReadingNothing
  <2>6. "END" \notin seen' \cup Kinds(fromTarg')
    BY <1>2, <1>5, EmptyRange DEF Kinds
  <2>7. Begun(c, j, 1, e)'
    <3>1. /\ toTarg' \in {<<>>, <<"\n">>} /\ rx' \in {"\n", NoByte} /\ cur' = c /\ ready'
          /\ todo' \in Ahead(c) /\ acq' = None /\ fromPwsh' = <<>>
          /\ "completed" \notin seen' /\ log' = LogAt(e, build', 2 * j - 1)
      BY <1>2, <1>5, <2>1, <2>2, <2>3
    <3>2. Reading(fromTarg', LogAt(e, build', 2 * j),
                  LogAt(e, build', IF todo' \in Idle /\ c # "z" THEN 2 * j + 1 ELSE 2 * j))
      BY <1>5, <2>4, <2>5, Zenon
    <3>3. 1 = 1
      OBVIOUS
    <3> QED BY <2>6, <3>1, <3>2, <3>3, Zenon DEF Begun
  <2> QED BY <1>5, <1>6, <2>7
<1> QED BY <1>4, <1>7, <1>8

\* What the firmware prints for a command.
LEMMA BegunPrints ==
  ASSUME Typed, NEW j \in 1..5, NEW s \in {1, 2}, NEW e \in Early(build),
         NEW c, c = Reported(build)[j], Begun(c, j, s, e), TargPrint
  PROVE  Begun(c, j, s, e)'
<1>1. /\ build \in BOOLEAN /\ TypeOK /\ fromTarg \in Seq(Lines) /\ log \in Seq(LogLines)
      /\ c \in {"a", "k", "e", "s", "d", "v", "z"}
      /\ c = "z" <=> j = 5
  BY CommandIs, TypeIs DEF Typed
<1> DEFINE w == IF Head(todo) = "FAIL" THEN "END" ELSE Head(todo)
           x == IF s = 1 THEN LogAt(e, build, 2 * j) ELSE log
           n == IF todo \in Idle /\ c # "z" THEN 2 * j + 1 ELSE 2 * j
<1>2. /\ todo' = Tail(todo) /\ rx' = rx /\ ready' = ready /\ fromTarg' = Append(fromTarg, Printed(w))
      /\ UNCHANGED <<h, seen, log, toTarg, fromPwsh, acq, cur, build>>
      /\ Head(todo) \notin {"GETC", "SLEEP", "VERDICT", "D7"}
  BY DEF TargPrint, SendLine, Emit, script, Silent, shield
<1>3. /\ toTarg \in {<<>>, <<"\n">>} /\ rx \in {"\n", NoByte} /\ cur = c /\ ready
      /\ todo \in Ahead(c) \cup Ending(c) \cup RowsDue(c) \cup Idle
      /\ todo \in Ahead(c) => /\ s = 1 /\ acq = None /\ fromPwsh = <<>>
                              /\ "completed" \notin seen /\ log = LogAt(e, build, 2 * j - 1)
      /\ todo \notin Ahead(c) => Report(c, j, s, e)
      /\ todo \in Ahead(c) \cup Ending(c) => "END" \notin seen \cup Kinds(fromTarg)
      /\ Reading(fromTarg, x, LogAt(e, build, n))
  <2>1. todo \in Ending(c) \cup RowsDue(c) \cup Idle => todo \notin Ahead(c)
    BY <1>1, WorkIs
  <2> HIDE DEF x, n
  <2>2. Reading(fromTarg, x, LogAt(e, build, n))
    BY Zenon DEF Begun, x, n
  <2> QED BY <2>1, <2>2 DEF Begun
<1>4. /\ Head(todo) \in {"START", "ZZZ"} => todo \in Ahead(c) /\ todo' \in Ahead(c)
      /\ Head(todo) = "END" => todo \in Ending(c) /\ todo' \in RowsDue(c) \cup Idle
                               /\ (todo' \in Idle <=> c = "z")
      /\ Head(todo) = "ROWS" => todo \in RowsDue(c) /\ todo' \in Idle /\ c # "z"
      /\ Head(todo) = "INPUT" => todo \in Idle /\ todo' = <<"GETC">>
      /\ Head(todo) \in {"START", "ZZZ", "END", "ROWS", "INPUT"}
  <2>1. todo = <<"GETC">> => Head(todo) = "GETC"
    OBVIOUS
  <2>2. todo \in Ahead(c) => Head(todo) \in {"START", "ZZZ"} /\ todo' \in Ahead(c)
    BY <1>1, <1>2, WorkIs
  <2>3. todo \in Ending(c) => Head(todo) = "END" /\ (c # "z" => todo' \in RowsDue(c)) /\ (c = "z" => todo' \in Idle)
    BY <1>1, <1>2, WorkIs
  <2>4. todo \in RowsDue(c) => Head(todo) = "ROWS" /\ todo' \in Idle /\ c # "z"
    BY <1>1, <1>2, WorkIs
  <2>5. todo \in Idle => Head(todo) = "INPUT" /\ todo' = <<"GETC">>
    BY <1>1, <1>2, <2>1, WorkIs
  <2>6. todo' \in RowsDue(c) => todo' \notin Idle
    BY <1>1, WorkIs
  <2> QED BY <1>3, <2>2, <2>3, <2>4, <2>5, <2>6
<1>5. <<"GETC">> \in Idle
  BY DEF Idle
<1>6. w = Head(todo) /\ w \in Words
  BY <1>4 DEF Words
<1> HIDE DEF w
<1>7. n \in {2 * j, 2 * j + 1} /\ LogAt(e, build, n) \in Seq(LogLines)
  <2>1. n = 2 * j \/ (n = 2 * j + 1 /\ j # 5)
    BY <1>1
  <2>2. LogAt(e, build, 2 * j) \in Seq(LogLines)
    BY <1>1, LogGrows
  <2>3. j # 5 => LogAt(e, build, 2 * j + 1) \in Seq(LogLines)
    BY <1>1, LogGrows, Zenon
  <2> HIDE DEF n
  <2> QED BY <2>1, <2>2, <2>3
<1> DEFINE l == LogAt(e, build, n)
           n2 == IF todo' \in Idle /\ c # "z" THEN 2 * j + 1 ELSE 2 * j
<1>8. /\ Printed(w) \in Lines /\ Printed(w)[1] = w
      /\ w \notin {"RESET", "ROWS"} => Logged(l, Printed(w)) = l
      /\ w = "ROWS" => Logged(l, Printed(w)) = Append(l, <<"rows", c>>)
  BY <1>1, <1>3, <1>6, <1>7, PrintedIs, Zenon
<1>9. Logged(l, Printed(w)) = LogAt(e, build, n2)
  <2>1. CASE w = "ROWS"
    <3>1. todo \in RowsDue(c) /\ todo' \in Idle /\ c # "z" /\ todo \notin Idle /\ j # 5
      BY <1>1, <1>4, <1>6, <2>1, WorkIs
    <3>2. n = 2 * j /\ n2 = 2 * j + 1
      BY <3>1
    <3>3. Append(LogAt(e, build, 2 * j), <<"rows", c>>) = LogAt(e, build, 2 * j + 1)
      BY <1>1, <3>1, LogGrows, Zenon
    <3> QED BY <1>8, <2>1, <3>2, <3>3
  <2>2. CASE w # "ROWS"
    <3>1. w \notin {"RESET", "ROWS"}
      BY <1>4, <1>6, <2>2
    <3>2. n2 = n
      <4>1. CASE w \in {"START", "ZZZ"}
        <5>1. todo \notin Idle /\ todo' \notin Idle
          BY <1>1, <1>4, <1>6, <4>1, WorkIs
        <5> QED BY <5>1
      <4>2. CASE w = "END"
        <5>1. todo \notin Idle /\ (todo' \in Idle => c = "z")
          BY <1>1, <1>4, <1>6, <4>2, WorkIs
        <5> QED BY <5>1
      <4>3. CASE w = "INPUT"
        <5>1. todo \in Idle /\ todo' \in Idle
          BY <1>4, <1>5, <1>6, <4>3
        <5> QED BY <5>1
      <4> QED BY <1>4, <1>6, <2>2, <4>1, <4>2, <4>3
    <3> HIDE DEF n, n2
    <3> QED BY <1>8, <3>1, <3>2
  <2> QED BY <2>1, <2>2
<1>10. Reading(fromTarg', x, LogAt(e, build, n2))
  <2>1. Reading(Append(fromTarg, Printed(w)), x, Logged(l, Printed(w)))
    BY <1>1, <1>3, <1>8, ReadingPrinted, Zenon
  <2> QED BY <1>2, <1>9, <2>1, Zenon
<1>11. Kinds(fromTarg') = Kinds(fromTarg) \cup {w}
  <2>1. Kinds(Append(fromTarg, Printed(w))) = Kinds(fromTarg) \cup {Printed(w)[1]}
    BY <1>1, <1>8, KindsGrow, Zenon
  <2> QED BY <1>2, <1>8, <2>1, Zenon
<1>12. todo' \in Ahead(c) \cup Ending(c) => "END" \notin seen' \cup Kinds(fromTarg')
  <2>1. ASSUME todo' \in Ahead(c) \cup Ending(c) PROVE w \in {"START", "ZZZ"}
    <3>1. todo' \notin Idle /\ todo' \notin RowsDue(c)
      BY <1>1, <2>1, WorkIs
    <3> QED BY <1>4, <1>5, <1>6, <3>1
  <2>2. w \in {"START", "ZZZ"} => todo \in Ahead(c) /\ w # "END"
    BY <1>4, <1>6
  <2> QED BY <1>2, <1>3, <1>11, <2>1, <2>2
<1>13. \/ todo' \in Ahead(c) /\ s = 1 /\ acq' = None /\ fromPwsh' = <<>>
            /\ "completed" \notin seen' /\ log' = LogAt(e, build', 2 * j - 1)
       \/ todo' \in Ending(c) \cup RowsDue(c) \cup Idle /\ Report(c, j, s, e)'
  <2>1. CASE w \in {"START", "ZZZ"}
    BY <1>2, <1>3, <1>4, <1>6, <2>1
  <2>2. CASE w \notin {"START", "ZZZ"}
    <3>1. todo \notin Ahead(c) /\ todo' \in RowsDue(c) \cup Idle
      BY <1>1, <1>4, <1>5, <1>6, <2>2, WorkIs
    <3>2. Report(c, j, s, e)'
      BY <1>2, <1>3, <3>1 DEF Report
    <3> QED BY <3>1, <3>2
  <2> QED BY <2>1, <2>2
<1>14. Reading(fromTarg', IF s = 1 THEN LogAt(e, build', 2 * j) ELSE log',
               LogAt(e, build', IF todo' \in Idle /\ c # "z" THEN 2 * j + 1 ELSE 2 * j))
  BY <1>2, <1>10, Zenon
<1> QED BY <1>2, <1>3, <1>12, <1>13, <1>14, Zenon DEF Begun

\* What else happens to the target while it works on a command.
LEMMA BegunRuns ==
  ASSUME Typed, Ready, NEW j \in 1..5, NEW s \in {1, 2}, NEW e \in Early(build),
         NEW c, c = Reported(build)[j], Begun(c, j, s, e),
         TargPulse \/ TargGetc \/ WireByte \/ ShieldReport
  PROVE  Begun(c, j, s, e)'
<1>1. /\ build \in BOOLEAN /\ ready \in BOOLEAN /\ c \in Letters
      /\ c \in {"a", "k", "e", "s", "d", "v", "z"}
  BY CommandIs DEF Typed
<1> DEFINE x == IF s = 1 THEN LogAt(e, build, 2 * j) ELSE log
           n == IF todo \in Idle /\ c # "z" THEN 2 * j + 1 ELSE 2 * j
<1>2. /\ toTarg \in {<<>>, <<"\n">>} /\ rx \in {"\n", NoByte} /\ cur = c /\ ready
      /\ \/ /\ todo \in Ahead(c) /\ s = 1 /\ acq = None /\ fromPwsh = <<>>
            /\ "completed" \notin seen /\ log = LogAt(e, build, 2 * j - 1)
         \/ todo \in Ending(c) \cup RowsDue(c) \cup Idle /\ Report(c, j, s, e)
      /\ todo \in Ahead(c) \cup Ending(c) => "END" \notin seen \cup Kinds(fromTarg)
      /\ Reading(fromTarg, x, LogAt(e, build, n))
  BY Zenon DEF Begun
<1>3. UNCHANGED <<h, seen, log, fromTarg, toPwsh, cur, build>> \/ TargGetc
  BY DEF TargPulse, WireByte, ShieldReport, script, wires, console
<1>4. CASE TargPulse
  <2>1. /\ Head(todo) = "D7" /\ todo' = Tail(todo)
        /\ UNCHANGED <<seen, log, fromTarg, fromPwsh, toTarg, rx, ready, cur, build>>
        /\ acq' = IF armed /\ trig = "d7" /\ acq = None THEN cur ELSE acq
    BY <1>4 DEF TargPulse, Pulse, script, wires
  <2>2. todo \in Ahead(c)
    <3>1. todo = <<"GETC">> => Head(todo) = "GETC"
      OBVIOUS
    <3> QED BY <1>1, <1>2, <2>1, <3>1, WorkIs
  <2>3. todo' \in Ending(c) /\ todo' \notin Idle /\ todo \notin Idle
    <3>1. todo' \in Ending(c)
      BY <1>1, <2>1, <2>2, WorkIs
    <3> QED BY <1>1, <2>2, <3>1, WorkIs
  <2>4. s = 1 /\ acq = None /\ fromPwsh = <<>> /\ "completed" \notin seen /\ log = LogAt(e, build, 2 * j - 1)
    BY <1>1, <1>2, <2>2, WorkIs
  <2>5. Report(c, j, s, e)'
    BY <1>2, <2>1, <2>4 DEF Ready, Report
  <2>6. Reading(fromTarg', IF s = 1 THEN LogAt(e, build', 2 * j) ELSE log',
                LogAt(e, build', IF todo' \in Idle /\ c # "z" THEN 2 * j + 1 ELSE 2 * j))
    BY <1>2, <2>1, <2>3, Zenon
  <2> QED BY <1>2, <2>1, <2>2, <2>3, <2>5, <2>6, Zenon DEF Begun
<1>5. CASE TargGetc
  <2>1. /\ Head(todo) = "GETC" /\ rx # NoByte /\ todo' = Work(rx, ready) /\ rx' = NoByte
        /\ ready' = (ready \/ IsMeasure(rx) \/ IsTest(rx))
        /\ cur' = IF rx = "\n" THEN cur ELSE rx
        /\ UNCHANGED <<seen, log, fromTarg, fromPwsh, toTarg, acq, build>>
    BY <1>5 DEF TargGetc, Getc, script, wires, shield
  <2>2. todo \in Idle /\ todo \notin Ahead(c) \cup Ending(c)
    BY <1>1, <1>2, <2>1, WorkIs
  <2>3. rx = "\n" /\ cur' = c /\ ready'
    BY <1>2, <2>1, Zenon
  <2>4. todo' = <<"INPUT", "GETC">>
    BY <1>1, <2>1, <2>3, WorkOf, Zenon
  <2>5. todo' \in Idle /\ todo' \notin Ahead(c) \cup Ending(c)
    <3>1. todo' \in Idle
      BY <2>4, Zenon DEF Idle
    <3> QED BY <1>1, <3>1, WorkIs
  <2>6. Report(c, j, s, e)'
    BY <1>2, <2>1, <2>2 DEF Report
  <2>7. Reading(fromTarg', IF s = 1 THEN LogAt(e, build', 2 * j) ELSE log',
                LogAt(e, build', IF todo' \in Idle /\ c # "z" THEN 2 * j + 1 ELSE 2 * j))
    BY <1>2, <2>1, <2>2, <2>5, Zenon
  <2> QED BY <1>2, <2>1, <2>3, <2>5, <2>6, <2>7, Zenon DEF Begun
<1>6. CASE WireByte
  <2>1. toTarg' = <<>> /\ rx' = "\n" /\ UNCHANGED <<todo, ready, cur, build, seen, log, fromTarg, fromPwsh, acq>>
    <3>1. /\ toTarg # <<>> /\ toTarg' = Tail(toTarg) /\ rx' = IF rx = NoByte THEN Head(toTarg) ELSE rx
          /\ UNCHANGED <<todo, ready, cur, build, seen, log, fromTarg, fromPwsh, acq>>
      BY <1>6 DEF WireByte, Receive, script, shield
    <3>2. Head(<<"\n">>) = "\n" /\ Tail(<<"\n">>) = <<>>
      OBVIOUS
    <3> QED BY <1>2, <3>1, <3>2
  <2>2. Report(c, j, s, e) => Report(c, j, s, e)'
    BY <2>1 DEF Report
  <2>3. Reading(fromTarg', IF s = 1 THEN LogAt(e, build', 2 * j) ELSE log',
                LogAt(e, build', IF todo' \in Idle /\ c # "z" THEN 2 * j + 1 ELSE 2 * j))
    BY <1>2, <2>1, Zenon
  <2> HIDE DEF x, n
  <2> QED BY <1>2, <2>1, <2>2, <2>3 DEF Begun
<1>7. CASE ShieldReport
  <2>1. /\ acq # None /\ acq' = None /\ fromPwsh' = Append(fromPwsh, <<"completed", acq>>)
        /\ UNCHANGED <<todo, rx, ready, cur, build, seen, log, fromTarg, toTarg>>
    BY <1>7 DEF ShieldReport, script, console
  <2>2. /\ s = 1 /\ acq = c /\ fromPwsh = <<>> /\ "completed" \notin seen /\ log = LogAt(e, build, 2 * j - 1)
        /\ todo \in Ending(c) \cup RowsDue(c) \cup Idle
    BY <1>2, <2>1 DEF Report
  <2>3. fromPwsh' = <<<<"completed", c>>>>
    <3>1. \A y : Append(<<>>, y) = <<y>>
      OBVIOUS
    <3> QED BY <2>1, <2>2, <3>1, Zenon
  <2>4. Report(c, j, s, e)'
    <3> DEFINE q == <<<<"completed", c>>>>
    <3>1. fromPwsh' = q
      BY <2>3
    <3> QED BY <2>1, <2>2, <3>1, Zenon DEF Report
  <2>5. Reading(fromTarg', IF s = 1 THEN LogAt(e, build', 2 * j) ELSE log',
                LogAt(e, build', IF todo' \in Idle /\ c # "z" THEN 2 * j + 1 ELSE 2 * j))
    BY <1>2, <2>1, Zenon
  <2> QED BY <1>2, <2>1, <2>2, <2>4, <2>5, Zenon DEF Begun
<1> QED BY <1>4, <1>5, <1>6, <1>7

\* What the script reads meanwhile: the report, and the firmware's lines.
LEMMA BegunReads ==
  ASSUME Typed, NEW j \in 1..5, NEW s \in {1, 2}, NEW e \in Early(build),
         NEW c, c = Reported(build)[j], Begun(c, j, s, e),
         (s = 1 /\ ReadPwsh /\ ~At("trig")) \/ (s = 2 /\ ReadTarg)
  PROVE  Begun(c, j, s, e)'
<1>1. build \in BOOLEAN /\ c \in {"a", "k", "e", "s", "d", "v", "z"} /\ fromTarg \in Seq(Lines)
  BY CommandIs DEF Typed
<1>2. /\ toTarg \in {<<>>, <<"\n">>} /\ rx \in {"\n", NoByte} /\ cur = c /\ ready
      /\ \/ /\ todo \in Ahead(c) /\ s = 1 /\ acq = None /\ fromPwsh = <<>>
            /\ "completed" \notin seen /\ log = LogAt(e, build, 2 * j - 1)
         \/ todo \in Ending(c) \cup RowsDue(c) \cup Idle /\ Report(c, j, s, e)
      /\ todo \in Ahead(c) \cup Ending(c) => "END" \notin seen \cup Kinds(fromTarg)
      /\ Reading(fromTarg, IF s = 1 THEN LogAt(e, build, 2 * j) ELSE log,
                 LogAt(e, build, IF todo \in Idle /\ c # "z" THEN 2 * j + 1 ELSE 2 * j))
  BY Zenon DEF Begun
<1>3. CASE s = 1 /\ ReadPwsh /\ ~At("trig")
  <2> DEFINE r == <<"completed", c>>
             q == <<r>>
             y == <<"watt", c>>
  <2>1. /\ fromPwsh # <<>> /\ seen' = seen \cup {Head(fromPwsh)[1]} /\ fromPwsh' = Tail(fromPwsh)
        /\ log' = IF Head(fromPwsh)[1] = "completed" THEN Append(log, <<"watt", Head(fromPwsh)[2]>>) ELSE log
        /\ UNCHANGED <<toTarg, fromTarg, acq, todo, rx, ready, cur, build>>
    BY <1>3 DEF ReadPwsh, shield, console
  <2>2. /\ acq = None /\ fromPwsh = q /\ log = LogAt(e, build, 2 * j - 1)
        /\ todo \in Ending(c) \cup RowsDue(c) \cup Idle
    BY <1>2, <1>3, <2>1 DEF Report
  <2>3. Head(q) = r /\ Tail(q) = <<>> /\ r[1] = "completed" /\ r[2] = c
    OBVIOUS
  <2> HIDE DEF q, r
  <2>4. /\ seen' = seen \cup {"completed"} /\ fromPwsh' = <<>>
        /\ log' = Append(LogAt(e, build, 2 * j - 1), y)
    BY <2>1, <2>2, <2>3, Zenon
  <2>5. log' = LogAt(e, build, 2 * j)
    BY <1>1, <2>4, LogGrows, Zenon
  <2>6. Report(c, j, s, e)'
    BY <1>3, <2>1, <2>2, <2>4, <2>5 DEF Report
  <2>7. todo' \in Ahead(c) \cup Ending(c) => "END" \notin seen' \cup Kinds(fromTarg')
    <3>1. "END" # "completed"
      OBVIOUS
    <3> QED BY <1>2, <2>1, <2>4, <3>1, Zenon
  <2>8. Reading(fromTarg', IF s = 1 THEN LogAt(e, build', 2 * j) ELSE log',
                LogAt(e, build', IF todo' \in Idle /\ c # "z" THEN 2 * j + 1 ELSE 2 * j))
    BY <1>2, <1>3, <2>1, Zenon
  <2> QED BY <1>2, <2>1, <2>2, <2>6, <2>7, <2>8, Zenon DEF Begun
<1>4. CASE s = 2 /\ ReadTarg
  <2> DEFINE l == LogAt(e, build, IF todo \in Idle /\ c # "z" THEN 2 * j + 1 ELSE 2 * j)
  <2>1. /\ fromTarg # <<>> /\ seen' = seen \cup {Head(fromTarg)[1]} /\ fromTarg' = Tail(fromTarg)
        /\ log' = Logged(log, Head(fromTarg))
        /\ UNCHANGED <<toTarg, fromPwsh, acq, todo, rx, ready, cur, build>>
    BY <1>4 DEF ReadTarg, shield, console
  <2>2. s # 1
    BY <1>4
  <2>3. Reading(fromTarg, log, l)
    BY <1>2, <2>2, Zenon
  <2> HIDE DEF l
  <2>4. Reading(fromTarg', log', l)
    BY <1>1, <2>1, <2>3, ReadingRead, Zenon
  <2>5. Kinds(fromTarg) = {Head(fromTarg)[1]} \cup Kinds(fromTarg')
    BY <1>1, <2>1, KindsShrink, Zenon
  <2>6. Report(c, j, s, e) /\ todo \in Ending(c) \cup RowsDue(c) \cup Idle
    BY <1>2, <2>2
  <2>7. Report(c, j, s, e)'
    BY <1>4, <2>1, <2>2, <2>6 DEF Report
  <2>8. todo' \in Ahead(c) \cup Ending(c) => "END" \notin seen' \cup Kinds(fromTarg')
    BY <1>2, <2>1, <2>5
  <2>9. Reading(fromTarg', IF s = 1 THEN LogAt(e, build', 2 * j) ELSE log',
                LogAt(e, build', IF todo' \in Idle /\ c # "z" THEN 2 * j + 1 ELSE 2 * j))
    BY <2>1, <2>2, <2>4, Zenon DEF l
  <2> QED BY <1>2, <2>1, <2>6, <2>7, <2>8, <2>9, Zenon DEF Begun
<1> QED BY <1>3, <1>4

\* The report is complete, and then the command.
LEMMA BegunMoves ==
  ASSUME Typed, Ready, NEW j \in 1..5, NEW e \in Early(build),
         NEW c, c = Reported(build)[j], Begun(c, j, 1, e),
         Found, Stmt.arg = "completed"
  PROVE  Begun(c, j, 2, e)'
<1>1. c \in {"a", "k", "e", "s", "d", "v", "z"}
  BY CommandIs DEF Typed
<1>2. /\ toTarg \in {<<>>, <<"\n">>} /\ rx \in {"\n", NoByte} /\ cur = c /\ ready
      /\ \/ /\ todo \in Ahead(c) /\ acq = None /\ fromPwsh = <<>>
            /\ "completed" \notin seen /\ log = LogAt(e, build, 2 * j - 1)
         \/ todo \in Ending(c) \cup RowsDue(c) \cup Idle /\ Report(c, j, 1, e)
      /\ todo \in Ahead(c) \cup Ending(c) => "END" \notin seen \cup Kinds(fromTarg)
      /\ Reading(fromTarg, LogAt(e, build, 2 * j),
                 LogAt(e, build, IF todo \in Idle /\ c # "z" THEN 2 * j + 1 ELSE 2 * j))
  BY Zenon DEF Begun
<1>3. /\ "completed" \in seen /\ seen' = {}
      /\ UNCHANGED <<log, toTarg, fromTarg, fromPwsh, acq, todo, rx, ready, cur, build>>
  BY DEF Found, Goto, wires, shield, console
<1>4. /\ acq = None /\ fromPwsh = <<>> /\ log = LogAt(e, build, 2 * j)
      /\ todo \in Ending(c) \cup RowsDue(c) \cup Idle
  BY <1>2, <1>3 DEF Report
<1>5. 2 # 1 /\ 2 = 2
  OBVIOUS
<1>6. Report(c, j, 2, e)'
  BY <1>3, <1>4, <1>5, Zenon DEF Report
<1>7. todo' \in Ahead(c) \cup Ending(c) => "END" \notin seen' \cup Kinds(fromTarg')
  BY <1>2, <1>3, Zenon
<1>8. Reading(fromTarg', IF 2 = 1 THEN LogAt(e, build', 2 * j) ELSE log',
              LogAt(e, build', IF todo' \in Idle /\ c # "z" THEN 2 * j + 1 ELSE 2 * j))
  BY <1>2, <1>3, <1>4, <1>5, Zenon
<1> QED BY <1>2, <1>3, <1>4, <1>6, <1>7, <1>8, Zenon DEF Begun

\* A section ends with nothing under way, and its lines in the log.
LEMMA BegunEnds ==
  ASSUME Typed, Ready, NEW j \in 1..5, NEW e \in Early(build),
         NEW c, c = Reported(build)[j], Begun(c, j, 2, e),
         Found, Stmt.arg = "END", ReadsTarg
  PROVE  /\ todo = <<"GETC">> /\ rx = NoByte /\ toTarg = <<>> /\ fromTarg = <<>>
         /\ fromPwsh = <<>> /\ acq = None /\ ready
         /\ log = LogAt(e, build, IF j # 5 THEN 2 * j + 1 ELSE 2 * j)
<1>1. /\ c \in {"a", "k", "e", "s", "d", "v", "z"} /\ log \in Seq(LogLines)
      /\ c = "z" <=> j = 5
  BY CommandIs DEF Typed
<1>2. 2 # 1
  OBVIOUS
<1>3. /\ ready
      /\ todo \in Ending(c) \cup RowsDue(c) \cup Idle /\ Report(c, j, 2, e)
      /\ todo \in Ahead(c) \cup Ending(c) => "END" \notin seen \cup Kinds(fromTarg)
      /\ Reading(fromTarg, log,
                 LogAt(e, build, IF todo \in Idle /\ c # "z" THEN 2 * j + 1 ELSE 2 * j))
  BY <1>2, Zenon DEF Begun
<1>4. /\ "END" \in seen /\ Silence /\ fromTarg = <<>> /\ toTarg = <<>>
  BY DEF Found, Silence, Settled
<1>5. acq = None /\ fromPwsh = <<>>
  BY <1>2, <1>3, Zenon DEF Report
<1>6. todo = <<"GETC">> /\ rx = NoByte /\ todo \in Idle
  <2>1. Head(todo) \in {"VERDICT", "END", "SLEEP"} \/ (Head(todo) = "GETC" /\ rx = NoByte)
    BY <1>4 DEF Silence, Settled, Slow
  <2>2. todo \notin Ending(c)
    BY <1>3, <1>4
  <2>3. todo \notin RowsDue(c)
    BY <1>1, <2>1, WorkIs
  <2>4. todo \in Idle /\ (todo = <<"GETC">> \/ Head(todo) = "INPUT")
    BY <1>1, <1>3, <2>2, <2>3, WorkIs
  <2>5. Head(<<"GETC">>) = "GETC"
    OBVIOUS
  <2> QED BY <2>1, <2>4, <2>5
<1>7. log = LogAt(e, build, IF todo \in Idle /\ c # "z" THEN 2 * j + 1 ELSE 2 * j)
  BY <1>1, <1>3, <1>4, ReadingNothing
<1> QED BY <1>1, <1>3, <1>4, <1>5, <1>6, <1>7, Zenon

\* To be in a stage is all that there is to show of the stages.
LEMMA InSection ==
  ASSUME NEW j \in 1..5, NEW s \in 0..2, h' = 3 * j + 8 + s, SectionInv(j, s)'
  PROVE  Stages'
<1>1. \A i \in 1..5, r \in 0..2 : h' = 3 * i + 8 + r => i = j /\ r = s
  OBVIOUS
<1>2. h' \notin 1..10 /\ h' \notin 26..29
  OBVIOUS
<1>3. ASSUME NEW i \in 1..5, NEW r \in 0..2, h' = 3 * i + 8 + r PROVE SectionInv(i, r)'
  <2>1. i = j /\ r = s
    BY <1>1, <1>3
  <2> QED BY <2>1, Zenon
<1> QED BY <1>2, <1>3, Zenon DEF Stages

\* The same of the set-up.
LEMMA InSetup ==
  ASSUME h' \in 1..10, ShieldInv', BootInv'
  PROVE  Stages'
<1>1. \A i \in 1..5, r \in 0..2 : h' # 3 * i + 8 + r
  OBVIOUS
<1>2. h' \notin 26..29
  OBVIOUS
<1> QED BY <1>1, <1>2, Zenon DEF Stages

\* The same of the test.
LEMMA InRest ==
  ASSUME h' \in 26..29, RestInv'
  PROVE  Stages'
<1>1. \A i \in 1..5, r \in 0..2 : h' # 3 * i + 8 + r
  OBVIOUS
<1>2. h' \notin 1..10
  OBVIOUS
<1> QED BY <1>1, <1>2, Zenon DEF Stages

\* Nothing is to be shown when no script runs.
LEMMA NoStage ==
  ASSUME h' \in {0, 30}
  PROVE  Stages'
<1>1. \A i \in 1..5, r \in 0..2 : h' # 3 * i + 8 + r
  OBVIOUS
<1>2. h' \notin 1..10 /\ h' \notin 26..29
  OBVIOUS
<1> QED BY <1>1, <1>2, Zenon DEF Stages

\* What holds of the next state holds of the next section of the same target.
LEMMA SectionAgain ==
  ASSUME Ready', build' = build, NEW j \in 1..5, NEW s \in 0..2, NEW e \in Early(build),
         NEW c, c = Reported(build)[j],
         \/ s = 0 /\ Quiet(j, e)'
         \/ s = 1 /\ Asked(c, j, e)'
         \/ s \in {1, 2} /\ Begun(c, j, s, e)'
  PROVE  SectionInv(j, s)'
<1>1. e \in Early(build') /\ c = Reported(build')[j]
  OBVIOUS
<1>2. Asked(c, j, e)' => Asked(Reported(build)[j], j, e)'
  BY <1>1, Zenon DEF Asked
<1>3. Begun(c, j, s, e)' => Begun(Reported(build)[j], j, s, e)'
  BY <1>1, Zenon DEF Begun, Report
<1> QED BY <1>1, <1>2, <1>3, Zenon DEF SectionInv

\* A step of a section leads on in it, to the next one or to the test.
LEMMA SectionStep ==
  ASSUME BatchInv, SysNext, NEW j \in 1..5, NEW s \in 0..2, h = 3 * j + 8 + s
  PROVE  Stages'
<1>1. Typed /\ SectionInv(j, s) /\ Ready /\ build \in BOOLEAN
  BY TypeIs DEF BatchInv, Basics, Stages, Typed, SectionInv
<1>2. /\ SectionNext(s)
      /\ ReadPwsh => ~At("trig")
      /\ s = 0 => Stmt.arg = Parts[j]
      /\ s = 1 => Stmt.arg = "completed" /\ ReadsPwsh /\ ~ReadsTarg
      /\ s = 2 => Stmt.arg = "END" /\ ReadsTarg /\ ~ReadsPwsh
  BY SectionSteps
<1>3. PICK c : c = Reported(build)[j]
  OBVIOUS
<1>4. PICK e \in Early(build) :
        \/ s = 0 /\ Quiet(j, e)
        \/ s = 1 /\ Asked(c, j, e)
        \/ s \in {1, 2} /\ Begun(c, j, s, e)
  BY <1>1, <1>3, Zenon DEF SectionInv
<1>5. CASE s = 0
  <2>1. h = 3 * j + 8 + 0
    BY <1>5
  <2>2. h' = 3 * j + 8 + 1 /\ SectionInv(j, 1)'
    BY <2>1, QuietStep
  <2>3. 1 \in 0..2
    OBVIOUS
  <2> QED BY <2>2, <2>3, InSection, Zenon
<1>6. CASE s = 1 /\ Asked(c, j, e)
  <2>1. UNCHANGED <<h, build>> /\ Ready' /\ (Asked(c, j, e)' \/ Begun(c, j, 1, e)')
    <3>1. SectionNext(1) /\ Stmt.arg = "completed" /\ ReadsPwsh /\ ~ReadsTarg
      BY <1>2, <1>6
    <3> QED BY <1>1, <1>3, <1>6, <3>1, AskedStep, Zenon
  <2>2. SectionInv(j, s)'
    BY <1>3, <1>6, <2>1, SectionAgain
  <2>3. h' = 3 * j + 8 + s
    BY <2>1
  <2> QED BY <2>2, <2>3, InSection, Zenon
<1>7. CASE s \in {1, 2} /\ Begun(c, j, s, e)
  <2>1. CASE TargPrint \/ TargPulse \/ TargGetc \/ WireByte \/ ShieldReport
             \/ (s = 1 /\ ReadPwsh /\ ~At("trig")) \/ (s = 2 /\ ReadTarg)
    <3>1. Begun(c, j, s, e)'
      <4>1. CASE TargPrint
        BY <1>1, <1>3, <1>7, <4>1, BegunPrints
      <4>2. CASE TargPulse \/ TargGetc \/ WireByte \/ ShieldReport
        BY <1>1, <1>3, <1>7, <4>2, BegunRuns
      <4>3. CASE (s = 1 /\ ReadPwsh /\ ~At("trig")) \/ (s = 2 /\ ReadTarg)
        BY <1>1, <1>3, <1>7, <4>3, BegunReads
      <4> QED BY <2>1, <4>1, <4>2, <4>3
    <3>2. UNCHANGED <<h, kem, build, trig, armed, toPwsh>>
      BY <2>1 DEF TargPrint, TargPulse, TargGetc, WireByte, ShieldReport, ReadPwsh, ReadTarg,
                  script, shield, wires
    <3>3. Ready'
      BY <1>1, <3>2 DEF Ready
    <3>4. SectionInv(j, s)'
      BY <1>3, <1>7, <3>1, <3>2, <3>3, SectionAgain
    <3>5. h' = 3 * j + 8 + s
      BY <3>2
    <3> QED BY <3>4, <3>5, InSection, Zenon
  <2>2. ~TargVerdict
    <3>1. todo \in Ahead(c) \cup Ending(c) \cup RowsDue(c) \cup Idle
      BY <1>7 DEF Begun
    <3>2. c \in {"a", "k", "e", "s", "d", "v", "z"}
      BY <1>1, <1>3, CommandIs
    <3>3. Head(<<"GETC">>) = "GETC"
      OBVIOUS
    <3>4. Head(todo) # "VERDICT"
      BY <3>1, <3>2, <3>3, WorkIs
    <3> QED BY <3>4 DEF TargVerdict, Pass, Note
  <2>3. CASE Found
    <3>1. /\ h' = h + 1 /\ seen' = {}
          /\ kem' = IF Stmt.arg = "INPUT" THEN build /\ "RESET" \in seen ELSE kem
          /\ UNCHANGED <<log, wires, shield, console, build>>
      BY <2>3 DEF Found, Goto
    <3>2. Stmt.arg # "INPUT"
      BY <1>2, <1>7
    <3>3. Ready'
      BY <1>1, <3>1, <3>2 DEF Ready, wires, shield
    <3>4. CASE s = 1
      <4>1. Begun(c, j, 2, e)'
        BY <1>1, <1>2, <1>3, <1>7, <2>3, <3>4, BegunMoves, Zenon
      <4>2. SectionInv(j, 2)'
        <5>1. 2 \in 0..2 /\ 2 \in {1, 2}
          OBVIOUS
        <5> QED BY <1>3, <3>1, <3>3, <4>1, <5>1, SectionAgain, Zenon
      <4>3. h' = 3 * j + 8 + 2 /\ 2 \in 0..2
        BY <3>1, <3>4
      <4> QED BY <4>2, <4>3, InSection, Zenon
    <3>5. CASE s = 2
      <4>1. /\ todo = <<"GETC">> /\ rx = NoByte /\ toTarg = <<>> /\ fromTarg = <<>>
            /\ fromPwsh = <<>> /\ acq = None /\ ready
            /\ log = LogAt(e, build, IF j # 5 THEN 2 * j + 1 ELSE 2 * j)
        BY <1>1, <1>2, <1>3, <1>7, <2>3, <3>5, BegunEnds, Zenon
      <4>2. CASE j # 5
        <5>1. /\ j + 1 \in 1..5 /\ 0 \in 0..2 /\ 0 = 0 /\ h' = 3 * (j + 1) + 8 + 0
              /\ 2 * (j + 1) - 1 = 2 * j + 1
          BY <3>1, <3>5, <4>2
        <5>2. Quiet(j + 1, e)'
          <6>1. log' = LogAt(e, build', 2 * (j + 1) - 1)
            BY <3>1, <4>1, <4>2, <5>1, Zenon
          <6> QED BY <3>1, <4>1, <6>1 DEF Quiet, wires, shield, console
        <5>3. PICK d : d = Reported(build)[j + 1]
          OBVIOUS
        <5>4. SectionInv(j + 1, 0)'
          BY <3>1, <3>3, <5>1, <5>2, <5>3, SectionAgain, Zenon
        <5> QED BY <5>1, <5>4, InSection, Zenon
      <4>3. CASE j = 5
        <5>1. h' = 26 /\ 2 * j = 10
          BY <3>1, <3>5, <4>3
        <5>2. log = LogAt(e, build, 10) /\ log \in Seq(LogLines)
          BY <1>1, <4>1, <4>3, <5>1, Zenon DEF Typed
        <5>3. Reading(fromTarg', log', LogAt(e, build', 10))
          <6>1. Reading(<<>>, log, log)
            BY <5>2, ReadingNothing
          <6>2. fromTarg' = <<>> /\ log' = log /\ build' = build
            BY <3>1, <4>1 DEF wires
          <6> QED BY <5>2, <6>1, <6>2, Zenon
        <5>4. RestInv'
          <6>1. Range(<<>>) = {}
            BY EmptyRange
          <6>2. toPwsh = <<>>
            BY <1>1 DEF Ready
          <6>3. todo \in Idle
            BY <4>1, Zenon DEF Idle
          <6>4. e \in Early(build') /\ kem' = build'
            BY <3>1, <3>3 DEF Ready
          <6>5. UNCHANGED <<toTarg, toPwsh, fromPwsh, acq, todo, rx, build>>
            BY <3>1 DEF wires, shield, console
          <6> QED BY <4>1, <5>1, <5>3, <6>1, <6>2, <6>3, <6>4, <6>5 DEF RestInv
        <5>5. h' \in 26..29
          BY <5>1
        <5> QED BY <5>4, <5>5, InRest
      <4> QED BY <4>2, <4>3
    <3> QED BY <1>7, <3>4, <3>5
  <2> QED BY <1>2, <1>7, <2>1, <2>2, <2>3 DEF SectionNext
<1> QED BY <1>4, <1>5, <1>6, <1>7

(***************************************************************************)
(* The test, and the batch                                                 *)
(***************************************************************************)

\* The test, and the whole log before it.
LEMMA RestStep ==
  ASSUME BatchInv, SysNext, h \in 26..29
  PROVE  Stages'
<1>1. Typed /\ TypeOK /\ RestInv
  BY TypeIs DEF BatchInv, Basics, Stages
<1>2. PICK e \in Early(build) : Reading(fromTarg, log, LogAt(e, build, 10))
  BY <1>1 DEF RestInv
<1>3. PICK l : l = LogAt(e, build, 10)
  OBVIOUS
<1>4. /\ fromTarg \in Seq(Lines) /\ fromPwsh \in Seq(Answers) /\ toPwsh \in Seq(PwshCmds)
      /\ Reading(fromTarg, log, l) /\ log \in Seq(LogLines) /\ l \in Seq(LogLines) /\ build \in BOOLEAN
  BY <1>1, <1>2, <1>3, ReadingLogs DEF Typed
<1>5. /\ kem = build /\ acq = None
      /\ Range(toPwsh) \subseteq {"status", "trigsrc_sw"}
      /\ Range(fromPwsh) \subseteq {<<x>> : x \in Replies}
      /\ todo \in Idle \cup Testing
      /\ rx \in {"t", "\n", NoByte} /\ toTarg \in {<<>>, <<"\n">>, <<"t", "\n">>}
      /\ h = 26 => toTarg = <<>> /\ rx = NoByte
  BY <1>1 DEF RestInv
<1>6. /\ ~At("resp") /\ ~At("trig") /\ ~At("pwsh_get_str")
      /\ At("targ") <=> h = 26
      /\ At("targ_get_str") <=> h = 27
      /\ At("pwsh") <=> h = 28
      /\ At("ok") <=> h = 29
  <2>1. \A j \in 1..5 : h # 3 * j + 8 /\ h # 3 * j + 9 /\ h # 3 * j + 10
    OBVIOUS
  <2> QED BY <1>1, <2>1, AtIs
\* What is left to show of a step that goes on.
<1>7. ASSUME h' \in 26..29, kem' = build', UNCHANGED build, acq' = None,
             Range(toPwsh') \subseteq {"status", "trigsrc_sw"},
             Range(fromPwsh') \subseteq {<<x>> : x \in Replies},
             todo' \in Idle \cup Testing,
             rx' \in {"t", "\n", NoByte}, toTarg' \in {<<>>, <<"\n">>, <<"t", "\n">>},
             h' = 26 => toTarg' = <<>> /\ rx' = NoByte,
             Reading(fromTarg', log', l)
      PROVE  Stages'
  <2>1. e \in Early(build') /\ Reading(fromTarg', log', LogAt(e, build', 10))
    BY <1>3, <1>7, Zenon
  <2>2. RestInv'
    BY <1>7, <2>1, Zenon DEF RestInv
  <2> QED BY <1>7, <2>2, InRest
<1>8. CASE Target
  <2>1. UNCHANGED <<h, kem, log, toPwsh, fromPwsh, toTarg, build>>
    BY <1>8 DEF Target, TargPrint, TargVerdict, TargPulse, TargGetc, Emit, script, wires
  <2>2. /\ Head(todo) \in {"INPUT", "GETC", "TEST", "VERDICT", "FAIL"}
        /\ Head(todo) = "INPUT" => Tail(todo) \in Idle
        /\ Head(todo) \in {"TEST", "VERDICT", "FAIL"} <=> todo \in Testing
        /\ Head(todo) = "FAIL" => Tail(todo) \in Idle
        /\ Head(todo) = "TEST" => Tail(todo) \in Testing
        /\ Head(todo) = "VERDICT" => Tail(todo) \in Idle /\ [todo EXCEPT ![1] = "FAIL"] \in Testing
    <3>1. todo \in {Start} \cup Interrupted \cup Idle \cup Testing
      BY <1>5
    <3>2. <<"VERDICT", "INPUT", "GETC">> \in Testing /\ <<"FAIL", "INPUT", "GETC">> \in Testing
      BY Zenon DEF Testing
    <3>3. /\ todo \in Idle => Head(todo) \in {"INPUT", "GETC"}
          /\ todo \in Testing => Head(todo) \in {"TEST", "VERDICT", "FAIL"}
      BY <3>1, TodoIs
    <3>4. Head(todo) = "VERDICT" => Tail(todo) \in Idle /\ [todo EXCEPT ![1] = "FAIL"] \in Testing
      BY <3>1, <3>2, TodoIs, Zenon
    <3>5. /\ Head(todo) \in {"RESET", "ROWS", "FAIL", "INPUT"} => Tail(todo) \in Idle
          /\ Head(todo) = "TEST" => Tail(todo) \in Testing
          /\ Head(todo) \in {"TEST", "VERDICT", "FAIL"} <=> todo \in Testing
      BY <3>1, <3>2, TodoIs, Zenon
    <3> DEFINE t == [todo EXCEPT ![1] = "FAIL"]
    <3> HIDE DEF t
    <3>6. Head(todo) = "VERDICT" => Tail(todo) \in Idle /\ t \in Testing
      BY <3>4 DEF t
    <3>7. Head(todo) \in {"INPUT", "GETC", "TEST", "VERDICT", "FAIL"}
      BY <1>5, <3>3
    <3> QED BY <3>5, <3>6, <3>7 DEF t
  <2>3. ASSUME NEW w \in {"INPUT", "TEST", "END", "NOTE"}
        PROVE  Reading(Append(fromTarg, Printed(w)), log, l)
    <3>1. w \in Words /\ w \notin {"RESET", "ROWS"}
      BY DEF Words
    <3>2. Printed(w) \in Lines /\ Logged(l, Printed(w)) = l
      BY <1>1, <1>4, <3>1, PrintedIs
    <3>3. Reading(Append(fromTarg, Printed(w)), log, Logged(l, Printed(w)))
      BY <1>4, <3>2, ReadingPrinted
    <3> QED BY <3>2, <3>3
  <2>4. acq' = None /\ ~TargPulse
    BY <1>5, <1>8, <2>2 DEF Target, TargPrint, TargVerdict, TargPulse, Pulse, TargGetc, shield
  <2>5. CASE TargPrint
    <3>1. /\ Head(todo) \in {"INPUT", "TEST", "FAIL"} /\ todo' = Tail(todo) /\ UNCHANGED rx
          /\ Emit(IF Head(todo) = "FAIL" THEN "END" ELSE Head(todo))
      BY <2>2, <2>5 DEF TargPrint, SendLine, Silent
    <3>2. PICK w \in {"INPUT", "TEST", "END", "NOTE"} : Emit(w)
      BY <3>1
    <3>3. Reading(fromTarg', log', l)
      BY <2>1, <2>3, <3>2 DEF Emit
    <3>4. todo' \in Idle \cup Testing
      BY <2>2, <3>1
    <3> QED BY <1>5, <1>7, <2>1, <2>4, <3>1, <3>3, <3>4
  <2>6. CASE TargVerdict
    <3>1. UNCHANGED rx /\ Head(todo) = "VERDICT"
      BY <2>6 DEF TargVerdict, Pass, Note
    <3>2. PICK w \in {"INPUT", "TEST", "END", "NOTE"} : Emit(w)
      BY <2>6 DEF TargVerdict
    <3>3. Reading(fromTarg', log', l)
      BY <2>1, <2>3, <3>2 DEF Emit
    <3>4. todo' \in Idle \cup Testing
      BY <2>2, <2>6, <3>1 DEF TargVerdict, Pass, Note
    <3> QED BY <1>5, <1>7, <2>1, <2>4, <3>1, <3>3, <3>4
  <2>7. CASE TargGetc
    <3>1. rx # NoByte /\ rx \in {"t", "\n"} /\ todo' = Work(rx, ready) /\ rx' = NoByte /\ UNCHANGED fromTarg
      BY <1>5, <2>7 DEF TargGetc, Getc, wires
    <3>2. /\ Work("t", ready) = <<"TEST", "VERDICT", "INPUT", "GETC">>
          /\ Work("\n", ready) = <<"INPUT", "GETC">>
      <4>1. ready \in BOOLEAN
        BY <1>1 DEF Typed
      <4> QED BY <4>1, WorkOf, Zenon
    <3>3. <<"TEST", "VERDICT", "INPUT", "GETC">> \in Testing /\ <<"INPUT", "GETC">> \in Idle
      BY Zenon DEF Testing, Idle
    <3>4. todo' \in Idle \cup Testing
      BY <3>1, <3>2, <3>3
    <3>5. Reading(fromTarg', log', l)
      BY <1>4, <2>1, <3>1
    <3> QED BY <1>5, <1>7, <2>1, <2>4, <3>1, <3>4, <3>5
  <2> QED BY <1>8, <2>4, <2>5, <2>6, <2>7 DEF Target
<1>9. CASE WireByte
  <2>1. /\ UNCHANGED <<h, kem, log, toPwsh, fromPwsh, fromTarg, build, acq, todo>>
        /\ toTarg # <<>> /\ toTarg' = Tail(toTarg)
        /\ rx' = IF rx = NoByte THEN Head(toTarg) ELSE rx
    BY <1>9 DEF WireByte, Receive, script, shield
  <2>2. toTarg' \in {<<>>, <<"\n">>} /\ Head(toTarg) \in {"t", "\n"}
    <3>1. /\ Head(<<"t", "\n">>) = "t" /\ Tail(<<"t", "\n">>) = <<"\n">>
          /\ Head(<<"\n">>) = "\n" /\ Tail(<<"\n">>) = <<>>
      OBVIOUS
    <3> QED BY <1>5, <2>1, <3>1
  <2>3. Reading(fromTarg', log', l)
    BY <1>4, <2>1
  <2>4. rx' \in {"t", "\n", NoByte}
    BY <1>5, <2>1, <2>2
  <2> QED BY <1>5, <1>7, <2>1, <2>2, <2>3, <2>4
<1>10. CASE Shield
  <2>1. UNCHANGED <<h, kem, log, toTarg, fromTarg, build>>
    BY <1>10 DEF Shield, ShieldRefuses, ShieldTakes, ShieldReport, script
  <2>2. Reading(fromTarg', log', l)
    BY <1>4, <2>1
  <2>3. ~ShieldReport
    BY <1>5 DEF ShieldReport
  <2>4. ASSUME NEW x \in Replies, toPwsh # <<>>, Answer(x)
        PROVE  /\ Range(toPwsh') \subseteq {"status", "trigsrc_sw"}
               /\ Range(fromPwsh') \subseteq {<<y>> : y \in Replies}
               /\ Head(toPwsh) \in {"status", "trigsrc_sw"}
    <3>1. /\ Range(toPwsh) = {Head(toPwsh)} \cup Range(toPwsh')
          /\ Range(fromPwsh') = Range(fromPwsh) \cup {<<x>>}
      BY <1>1, <2>4, AnswerIs
    <3>2. <<x>> \in {<<y>> : y \in Replies}
      BY Zenon
    <3> QED BY <1>5, <3>1, <3>2
  <2>5. CASE ShieldRefuses
    <3>1. toPwsh # <<>> /\ Answer("error") /\ UNCHANGED <<acq, todo, rx>>
      BY <2>5 DEF ShieldRefuses, console
    <3>2. "error" \in Replies
      BY DEF Replies
    <3> QED BY <1>5, <1>7, <2>1, <2>2, <2>4, <3>1, <3>2
  <2>6. ASSUME NEW cmd \in PwshCmds, ShieldTakes(cmd)
        PROVE  Stages'
    <3>1. toPwsh # <<>> /\ Answer(Reply(cmd)) /\ Head(toPwsh) = cmd
      BY <2>6 DEF ShieldTakes
    <3>2. Reply(cmd) \in Replies
      <4>1. Reply(cmd) \in {"status_ok", "ack_trigsrc_d7", "ack"}
        BY Zenon DEF Reply
      <4> QED BY <4>1 DEF Replies
    <3>3. cmd \in {"status", "trigsrc_sw"}
      BY <2>4, <3>1, <3>2
    <3>4. UNCHANGED <<todo, rx>> /\ acq' = None
      BY <1>5, <2>6, <3>3 DEF ShieldTakes, console
    <3> QED BY <1>5, <1>7, <2>1, <2>2, <2>4, <3>1, <3>2, <3>4
  <2> QED BY <1>10, <2>3, <2>5, <2>6 DEF Shield
<1>11. ASSUME NEW x \in {"status", "trigsrc_sw"}, toPwsh' = Append(toPwsh, x)
       PROVE  Range(toPwsh') \subseteq {"status", "trigsrc_sw"}
  <2>1. x \in PwshCmds
    BY DEF PwshCmds
  <2>2. Range(toPwsh') = Range(toPwsh) \cup {x}
    BY <1>4, <1>11, <2>1, QueueAppend
  <2> QED BY <1>5, <2>2
<1>12. CASE PwshCmd
  <2>1. /\ h = 28 /\ h' = 29 /\ toPwsh' = Append(toPwsh, "trigsrc_sw")
        /\ UNCHANGED <<kem, log, toTarg, fromTarg, fromPwsh, acq, todo, rx, build>>
    <3>1. h = 28
      BY <1>6, <1>12 DEF PwshCmd
    <3>2. Stmt.arg = "trigsrc_sw"
      BY <3>1, StatementsAre DEF Stmt
    <3> QED BY <1>12, <3>1, <3>2 DEF PwshCmd, Goto, shield, console
  <2>2. Reading(fromTarg', log', l)
    BY <1>4, <2>1
  <2> QED BY <1>5, <1>7, <1>11, <2>1, <2>2
<1>13. CASE TargCmd
  <2>1. h = 26 /\ toTarg = <<>>
    BY <1>5, <1>6, <1>13 DEF TargCmd
  <2>2. Byte(Stmt.arg) = "t"
    <3>1. Stmt.arg = "test"
      BY <2>1, StatementsAre DEF Stmt
    <3> QED BY <3>1 DEF Byte
  <2>3. /\ h' = 27 /\ toTarg' = <<"t", "\n">>
        /\ UNCHANGED <<kem, log, toPwsh, fromTarg, fromPwsh, acq, todo, rx, build>>
    <3>1. toTarg' = <<>> \o <<Byte(Stmt.arg), "\n">>
      BY <1>13, <2>1 DEF TargCmd
    <3>2. toTarg' = <<"t", "\n">>
      BY <2>2, <3>1
    <3> QED BY <1>13, <2>1, <3>2 DEF TargCmd, Goto, shield, console
  <2>4. Reading(fromTarg', log', l)
    BY <1>4, <2>3
  <2> QED BY <1>5, <1>7, <2>3, <2>4
<1>14. CASE AskStatus
  <2>1. /\ toPwsh' = Append(toPwsh, "status")
        /\ UNCHANGED <<h, kem, log, toTarg, fromTarg, fromPwsh, acq, todo, rx, build>>
    BY <1>14 DEF AskStatus, shield, console
  <2>2. Reading(fromTarg', log', l)
    BY <1>4, <2>1
  <2> QED BY <1>5, <1>7, <1>11, <2>1, <2>2
<1>15. CASE ReadTarg
  <2>1. /\ fromTarg # <<>> /\ fromTarg' = Tail(fromTarg) /\ log' = Logged(log, Head(fromTarg))
        /\ UNCHANGED <<h, kem, toTarg, toPwsh, fromPwsh, acq, todo, rx, build>>
    BY <1>15 DEF ReadTarg, shield, console
  <2>2. Reading(fromTarg', log', l)
    BY <1>4, <2>1, ReadingRead
  <2> QED BY <1>5, <1>7, <2>1, <2>2
<1>16. CASE ReadPwsh
  <2>1. /\ fromPwsh # <<>> /\ fromPwsh' = Tail(fromPwsh)
        /\ UNCHANGED <<h, kem, toTarg, fromTarg, toPwsh, acq, todo, rx, build>>
    BY <1>16 DEF ReadPwsh, shield, console
  <2>2. Head(fromPwsh)[1] # "completed"
    BY <1>4, <1>5, <2>1, ReplyIs
  <2>3. log' = log
    BY <1>16, <2>2 DEF ReadPwsh
  <2>4. Range(fromPwsh') \subseteq {<<x>> : x \in Replies}
    <3>1. Range(fromPwsh) = {Head(fromPwsh)} \cup Range(Tail(fromPwsh))
      BY <1>4, <2>1, QueueTail
    <3> QED BY <1>5, <2>1, <3>1
  <2>5. Reading(fromTarg', log', l)
    BY <1>4, <2>1, <2>3
  <2> QED BY <1>5, <1>7, <2>1, <2>4, <2>5
<1>17. CASE Found
  <2>1. h = 27 /\ Stmt.arg # "INPUT"
    <3>1. h = 27
      BY <1>6, <1>17 DEF Found
    <3> QED BY <3>1, StatementsAre DEF Stmt
  <2>2. /\ h' = 28 /\ UNCHANGED <<kem, log, toTarg, fromTarg, toPwsh, fromPwsh, acq, todo, rx, build>>
    BY <1>17, <2>1 DEF Found, Goto, wires, shield, console
  <2>3. Reading(fromTarg', log', l)
    BY <1>4, <2>2
  <2> QED BY <1>5, <1>7, <2>2, <2>3
<1>18. CASE OkDone
  <2>1. h = 29 /\ UNCHANGED <<kem, log, toTarg, fromTarg, toPwsh, fromPwsh, acq, todo, rx, build>>
    BY <1>6, <1>18 DEF OkDone, wires, shield, console
  <2>2. Reading(fromTarg', log', l)
    BY <1>4, <2>1
  <2>3. h' = 30 \/ h' = h
    BY <1>18, <2>1 DEF OkDone, Goto
  <2>4. CASE h' = 30
    BY <2>4, NoStage
  <2>5. CASE h' = h
    BY <1>5, <1>7, <2>1, <2>2, <2>5
  <2> QED BY <2>3, <2>4, <2>5
<1>19. ~RespDone /\ ~TrigDone
  BY <1>6 DEF RespDone, TrigDone
<1> QED BY <1>8, <1>9, <1>10, <1>12, <1>13, <1>14, <1>15, <1>16, <1>17, <1>18, <1>19 DEF SysNext, Host

\* A step of the set-up leads on in it, or to the first command.
LEMMA SetupStep ==
  ASSUME BatchInv, SysNext, h \in 1..10
  PROVE  Stages'
<1>1. SetupNext
  BY SetupSteps
<1>2. CASE Found /\ h = 10
  <2>1. h' = 3 * 1 + 8 + 0 /\ SectionInv(1, 0)' /\ 1 \in 1..5 /\ 0 \in 0..2
    BY <1>2, SetupEnds
  <2> QED BY <2>1, InSection, Zenon
<1>3. CASE ~(Found /\ h = 10)
  <2>1. h' \in 1..10
    <3>1. \/ h' = h
          \/ h' = h + 1 /\ h \in 1..9
      <4>1. CASE TargPrint
        BY <4>1 DEF TargPrint, script
      <4>2. CASE ShieldRefuses
        BY <4>2 DEF ShieldRefuses, script
      <4>3. CASE \E cmd \in PwshCmds : ShieldTakes(cmd)
        BY <4>3 DEF ShieldTakes, script
      <4>4. CASE AskStatus \/ ReadTarg \/ ReadPwsh
        BY <4>4 DEF AskStatus, ReadTarg, ReadPwsh
      <4>5. CASE PwshCmd /\ h \in {3, 4, 5, 8}
        BY <4>5 DEF PwshCmd, Goto
      <4>6. CASE RespDone /\ h = 1
        BY <4>6 DEF RespDone, Goto
      <4>7. CASE OkDone /\ h \in {2, 6, 9}
        BY <4>7 DEF OkDone, Goto
      <4>8. CASE TrigDone /\ h = 7
        BY <4>8 DEF TrigDone, Goto
      <4> QED BY <1>1, <1>3, <4>1, <4>2, <4>3, <4>4, <4>5, <4>6, <4>7, <4>8 DEF SetupNext
    <3> QED BY <3>1
  <2>2. ShieldInv' /\ BootInv'
    BY <1>1, <2>1, ShieldStep, BootStep
  <2> QED BY <2>1, <2>2, InSetup
<1> QED BY <1>2, <1>3

\* An empty log is the beginning of any.
LEMMA NothingLogged == <<>> \in Seq(LogLines) /\ \A k \in BOOLEAN : <<>> \in Early(k) /\ IsLog(<<>>, k)
<1>1. <<>> \in Seq(LogLines)
  OBVIOUS
<1>2. ASSUME NEW k \in BOOLEAN PROVE <<>> \in Early(k) /\ IsLog(<<>>, k)
  <2>1. <<>> \in Early(k)
    BY Zenon DEF Early
  <2>2. LogAt(<<>>, k, 0) = <<>> /\ IsLog(LogAt(<<>>, k, 0), k)
    BY <2>1, LogAtIs, 0 \in 0..10, Zenon
  <2> QED BY <2>1, <2>2
<1> QED BY <1>1, <1>2

\* A script begins: the shield has nothing to do, and the target, which may
\* have been reset a moment ago, has printed nothing that the script can read.
LEMMA BootBegins ==
  ASSUME h = 1, toTarg = <<>>, fromTarg = <<>>, rx = NoByte, cur = None, log = <<>>, build \in BOOLEAN,
         todo \in {Start} \cup Idle \cup Interrupted
  PROVE  BootInv
<1>1. Reading(<<>>, <<>>, <<>>) /\ <<>> \in Early(build)
  BY NothingLogged, ReadingNothing
<1>2. ResetAhead
  BY DEF ResetAhead
<1>3. BeforeReset(<<>>)
  BY <1>1, Zenon DEF BeforeReset
<1>4. \E l : Reading(fromTarg, log, l) /\ (IF ResetAhead THEN BeforeReset(l) ELSE AfterReset(l))
  BY <1>1, <1>2, <1>3, Zenon
<1> QED BY <1>4, Zenon DEF BootInv

\* The same of the next state.
LEMMA BootBeginsNext ==
  (/\ h = 1 /\ toTarg = <<>> /\ fromTarg = <<>> /\ rx = NoByte /\ cur = None /\ log = <<>>
   /\ build \in BOOLEAN /\ todo \in {Start} \cup Idle \cup Interrupted
   => BootInv)'
BY BootBegins, PTL

\* The shield has nothing to do then.
LEMMA ShieldBegins ==
  ASSUME h = 1, acq = None, toPwsh = <<>>, fromPwsh = <<>>
  PROVE  ShieldInv
<1>1. Range(fromPwsh) \subseteq {<<x>> : x \in Replies}
  BY EmptyRange
<1> QED BY <1>1 DEF ShieldInv

\* The same of the next state.
LEMMA ShieldBeginsNext == (h = 1 /\ acq = None /\ toPwsh = <<>> /\ fromPwsh = <<>> => ShieldInv)'
BY ShieldBegins, PTL

\* The loop of test_alg.sh begins a script or lets one go.
LEMMA LoopStages ==
  ASSUME Typed, LoopInv, Loop \/ Timeout
  PROVE  Stages'
<1>1. Over = 30
  BY StatementsAre DEF Over
<1>2. CASE Build \/ Skip \/ Timeout
  <2>1. h' = 0 \/ h' = Over
    BY <1>2 DEF Build, Skip, Timeout, Goto
  <2>2. h' \in {0, 30}
    BY <1>1, <2>1
  <2> QED BY <2>2, NoStage
<1>3. CASE FlashAndRun
  <2>1. /\ h' = 1 /\ toTarg' = <<>> /\ toPwsh' = <<>> /\ acq' = None
        /\ rx' = NoByte /\ cur' = None /\ fromTarg' = <<>> /\ fromPwsh' = <<>> /\ log' = log /\ h = 0
        /\ build' \in hex
    BY <1>3 DEF FlashAndRun, Goto, shield
  <2>2. log' = <<>> /\ build' \in BOOLEAN
    BY <2>1 DEF LoopInv
  <2>3. todo' \in {Start} \cup Idle \cup Interrupted
    <3>1. PICK n \in 0..2 : todo' = SubSeq(Start, n + 1, 3)
      BY <1>3 DEF FlashAndRun
    <3>2. todo' \in {Start, <<"INPUT", "GETC">>, <<"GETC">>}
      BY <3>1, LateStart
    <3> QED BY <3>2, Zenon DEF Idle
  <2>4. BootInv'
    BY <2>1, <2>2, <2>3, BootBeginsNext, Zenon
  <2>5. ShieldInv'
    BY <2>1, ShieldBeginsNext, Zenon
  <2>6. h' \in 1..10
    BY <2>1
  <2> QED BY <2>4, <2>5, <2>6, InSetup
<1> QED BY <1>2, <1>3 DEF Loop

\* The first script is as if run by hand.
LEMMA BatchBegins == BatchInit => BatchInv
<1> SUFFICES ASSUME BatchInit PROVE BatchInv
  OBVIOUS
<1>1. /\ todo \in {Start, <<"GETC">>, <<"END", "ROWS", "INPUT", "GETC">>, <<"SLEEP">>}
      /\ rx = NoByte /\ ready \in BOOLEAN
      /\ h = 1 /\ seen = {} /\ asked = FALSE /\ kem = FALSE
      /\ toTarg = <<>> /\ fromTarg = <<>> /\ toPwsh = <<>> /\ fromPwsh = <<>>
      /\ trig \in {"sw", "d7"} /\ armed \in BOOLEAN /\ acq = None
      /\ refusals = 0 /\ build \in BOOLEAN
      /\ cur = None /\ lost = {} /\ log = <<>>
      /\ left = Targets /\ target = build /\ hex = {build}
  BY DEF BatchInit, SysInit
<1>2. Typed
  <2>1. \A S : <<>> \in Seq(S)
    OBVIOUS
  <2>2. h \in 0..30 /\ refusals \in 0..MaxRefusals
    BY <1>1, RefusalAssumption
  <2>3. cur \in Letters \cup {None} /\ acq \in Letters \cup {None} /\ rx \in Bytes \cup {NoByte}
    BY <1>1
  <2> QED BY <1>1, <2>1, <2>2, <2>3, Zenon DEF Typed
<1>3. ConsoleInv
  <2> DEFINE i == <<"GETC">>
             e == <<"END", "ROWS", "INPUT", "GETC">>
             z == <<"SLEEP">>
             P(t) == t \in Seq(Events) /\ t # <<>> /\ t[Len(t)] \in {"GETC", "SLEEP"}
  <2>1. P(Start) /\ P(i) /\ P(e) /\ P(z)
    BY DEF Start, Events, Words
  <2> HIDE DEF P, i, e, z
  <2>2. P(todo)
    BY <1>1, <2>1 DEF i, e, z
  <2> QED BY <1>1, <2>2 DEF ConsoleInv, P
<1>4. LoopInv
  BY <1>1, TargetsAssumption, NothingLogged DEF LoopInv
<1>5. todo \in {Start} \cup Idle \cup Interrupted
  BY <1>1, Zenon DEF Idle, Interrupted
<1>6. ShieldInv /\ BootInv
  BY <1>1, <1>5, ShieldBegins, BootBegins
<1>7. h \notin 26..29 /\ \A j \in 1..5, s \in 0..2 : h # 3 * j + 8 + s
  BY <1>1
<1>8. Stages
  BY <1>6, <1>7, Zenon DEF Stages
<1> QED BY <1>2, <1>3, <1>4, <1>8, TypeIs DEF BatchInv, Basics

\* Every step keeps the invariant: the types, then the stage the script is in,
\* then what holds in every stage.
LEMMA BatchKeeps ==
  ASSUME BatchInv, BatchNext
  PROVE  BatchInv'
<1>1. Typed /\ TypeOK /\ ConsoleInv /\ LoopInv /\ Stages
  BY TypeIs DEF BatchInv, Basics
<1>2. TypeOK'
  <2>1. CASE SysNext
    BY <1>1, <2>1, TargetTypes, ShieldTypes, HostTypes, TypeIsNext DEF SysNext
  <2>2. CASE Loop \/ Timeout
    BY <1>1, <2>2, BatchTypes, TypeIsNext
  <2> QED BY <2>1, <2>2 DEF BatchNext
<1>3. Stages'
  <2>1. CASE SysNext
    <3>1. CASE h \in 1..10
      BY <2>1, <3>1, SetupStep
    <3>2. CASE h \in 26..29
      BY <2>1, <3>2, RestStep
    <3>3. ASSUME NEW j \in 1..5, NEW s \in 0..2, h = 3 * j + 8 + s PROVE Stages'
      BY <2>1, <3>3, SectionStep
    <3>4. CASE h \in {0, 30}
      <4>1. \A do : ~At(do)
        BY <1>1, <3>4, Places DEF At
      <4>2. ~Host
        BY <4>1 DEF Host, PwshCmd, TargCmd, AskStatus, ReadTarg, ReadPwsh, Found, RespDone, OkDone, TrigDone,
                    ReadsTarg, ReadsPwsh
      <4>3. h' = h
        BY <2>1, <4>2 DEF SysNext, Target, WireByte, Shield, TargPrint, TargVerdict, TargPulse, TargGetc,
                          ShieldRefuses, ShieldTakes, ShieldReport, script
      <4> QED BY <3>4, <4>3, NoStage
    <3> QED BY <1>1, <3>1, <3>2, <3>3, <3>4, Places
  <2>2. CASE Loop \/ Timeout
    BY <1>1, <2>2, LoopStages
  <2> QED BY <2>1, <2>2 DEF BatchNext
<1>4. ConsoleInv'
  BY ConsoleStep
<1>5. LoopInv'
  BY <1>2, <1>3, LoopStep
<1> QED BY <1>2, <1>3, <1>4, <1>5 DEF BatchInv, Basics

(***************************************************************************)
(* The theorems of the batch                                               *)
(***************************************************************************)

\* The invariant is about the variables of the batch alone.
LEMMA BatchStutters ==
  ASSUME BatchInv, UNCHANGED batchvars
  PROVE  BatchInv'
<1> USE DEF batchvars, sysvars, script, wires, shield, console
<1>1. Basics'
  BY DEF BatchInv, Basics, TypeOK, ConsoleInv, LoopInv, Running
<1>2. (h \in 1..10 => ShieldInv /\ BootInv)'
  BY DEF BatchInv, Stages, ShieldInv, BootInv, ResetAhead, ResetDue, BeforeReset, AfterReset
<1>3. (h \in 26..29 => RestInv)'
  BY DEF BatchInv, Stages, RestInv
<1>4. (\A j \in 1..5, s \in 0..2 : h = 3 * j + 8 + s => SectionInv(j, s))'
  BY DEF BatchInv, Stages, SectionInv, Ready, Quiet, Asked, Begun, Report
<1> QED BY <1>1, <1>2, <1>3, <1>4, Zenon DEF BatchInv, Stages

\* The invariant of a batch, for any number of targets and of refusals:
\* whatever a killed script left behind, the next one finds its way.
THEOREM BatchInvariance == BatchSpec => []BatchInv
<1>1. BatchInv /\ [BatchNext]_batchvars => BatchInv'
  BY BatchKeeps, BatchStutters
<1> QED BY <1>1, BatchBegins, PTL DEF BatchSpec

\* The queues of the serial lines, the shield and the log are of their types
\* (psctrl.py, test_alg.sh).
THEOREM BatchTypeCorrect == BatchSpec => []TypeOK
<1>1. BatchInv => TypeOK
  BY DEF BatchInv, Basics
<1> QED BY <1>1, BatchInvariance, PTL

\* NoCommandLost for every batch: the receive register of the target only ever
\* drops a newline (psctrl.py:34-35, main.cpp:448).
THEOREM CommandsArrive == BatchSpec => []NoCommandLost
<1>1. BatchInv => NoCommandLost
  BY DEF BatchInv, Basics, ConsoleInv, NoCommandLost
<1> QED BY <1>1, BatchInvariance, PTL

\* LogOfTarget for every batch: each log is a beginning of its target's, with
\* the reports in the places that parselog.py goes by (test_alg.sh:24-34).
THEOREM LogsAreOfTargets == BatchSpec => []LogOfTarget
<1>1. BatchInv => LogOfTarget
  BY DEF BatchInv, Basics, LoopInv, LogOfTarget
<1> QED BY <1>1, BatchInvariance, PTL

\* Identified for every batch: the script knows what it measures when it
\* begins to (psctrl.py:131-136).
THEOREM TargetIdentified == BatchSpec => []Identified
<1>1. BatchInv => Identified
  <2> SUFFICES ASSUME BatchInv, Running, h > Len(Setup) PROVE kem = build
    BY DEF Identified
  <2>1. h \in 11..29
    <3>1. Len(Setup) = 10
      BY SetupIs
    <3>2. TypeOK
      BY DEF BatchInv, Basics
    <3>3. h \in 1..29
      BY <3>2, Places
    <3> QED BY <3>1, <3>3
  <2>2. CASE h \in 26..29
    BY <2>2 DEF BatchInv, Stages, RestInv
  <2>3. ASSUME NEW j \in 1..5, NEW s \in 0..2, h = 3 * j + 8 + s PROVE kem = build
    BY <2>3 DEF BatchInv, Stages, SectionInv, Ready
  <2>4. TypeOK /\ h \notin {0, 30} /\ h \notin 1..10
    BY <2>1 DEF BatchInv, Basics
  <2> QED BY <2>2, <2>3, <2>4, Places
<1> QED BY <1>1, BatchInvariance, PTL

=============================================================================
