---------------------------- MODULE CrontabProofs ----------------------------
(***************************************************************************)
(* What is proved of the reading of a crontab and its assignments          *)
(* (crontab.rs) and of the fields of a schedule (schedule.rs), for every   *)
(* file and every list.                                                    *)
(*                                                                         *)
(* Reading several characters at once is proved from one fact about the    *)
(* natural numbers, FirstOfNaturals: a loop that stops stops a first time. *)
(***************************************************************************)
EXTENDS Parser, Schedule, FiniteSetTheorems, SequenceTheorems, WellFoundedInduction, TLAPS

-----------------------------------------------------------------------------
(* The reader.                                                             *)

\* What get_char gives.
Given == Chars \cup {EOF}

Readers == [ch : Given, pos : 0 .. Len(data), back : Seq(Chars), eof : BOOLEAN, line : Int]

\* A text of characters.
LEMMA TextFacts ==
    ASSUME data \in Seq(Chars)
    PROVE  Len(data) \in Nat /\ \A i \in 1 .. Len(data) : data[i] \in Chars
BY LenProperties, ElementOfSeq

\* The characters are what they seem.
LEMMA CharFacts ==
    /\ NL \in Chars /\ EOF \notin Chars /\ EOF # NL /\ Blank # NL /\ Blank # EOF
    /\ "*" # NL /\ "@" # NL /\ "n" # NL /\ "-" # NL /\ "#" # NL /\ "n" # EOF /\ "-" # EOF
    /\ NUL # NL /\ "n" \in Chars /\ Blank \in Chars /\ Blank # EOF
BY DEF NL, EOF, Chars, Blank, NUL, Quote

\* A line is counted once for each newline before it.
LEMMA LineFacts ==
    ASSUME data \in Seq(Chars), NEW k \in 0 .. Len(data)
    PROVE  /\ IsFiniteSet({i \in 1 .. k : data[i] = NL})
           /\ LineAt(k) \in Nat /\ LineAt(k) \in Int /\ LineAt(k) >= 1
<1>1. k \in Nat
  BY TextFacts
<1>2. IsFiniteSet(1 .. k)
  BY <1>1, FS_Interval
<1>3. IsFiniteSet({i \in 1 .. k : data[i] = NL})
  BY <1>2, FS_Subset
<1>4. QED
  BY <1>3, FS_CardinalityType DEF LineAt

\* m characters on, it is counted on by the newlines among them.
LEMMA LineOn ==
    ASSUME data \in Seq(Chars), NEW k \in 0 .. Len(data), NEW m \in Nat, k + m <= Len(data)
    PROVE  LineAt(k + m) = LineAt(k) + Cardinality({i \in 1 .. m : data[k + i] = NL})
<1> DEFINE A == {i \in 1 .. k : data[i] = NL}
           B == {i \in k + 1 .. k + m : data[i] = NL}
           C == {i \in 1 .. m : data[k + i] = NL}
<1>1. k \in Nat /\ Len(data) \in Nat
  BY TextFacts
<1>2. IsFiniteSet(A) /\ IsFiniteSet(B) /\ IsFiniteSet(C)
  <2>1. IsFiniteSet(1 .. k) /\ IsFiniteSet(k + 1 .. k + m) /\ IsFiniteSet(1 .. m)
    BY <1>1, FS_Interval
  <2>2. A \in SUBSET (1 .. k) /\ B \in SUBSET (k + 1 .. k + m) /\ C \in SUBSET (1 .. m)
    OBVIOUS
  <2>3. QED
    BY <2>1, <2>2, FS_Subset
<1>3. A \cap B = {} /\ A \cup B = {i \in 1 .. k + m : data[i] = NL}
  BY <1>1
<1>4. Cardinality(B) = Cardinality(C)
  <2> DEFINE f == [i \in C |-> k + i]
  <2>1. f \in Bijection(C, B)
    <3>1. \A i \in C : f[i] \in B
      BY <1>1
    <3>2. \A i, j \in C : f[i] = f[j] => i = j
      BY <1>1
    <3>3. \A x \in B : x - k \in C /\ f[x - k] = x
      BY <1>1
    <3>4. f \in [C -> B]
      BY <3>1
    <3> HIDE DEF f, B, C
    <3>5. f \in Injection(C, B)
      BY <3>2, <3>4 DEF Injection, IsInjective
    <3>6. f \in Surjection(C, B)
      BY <3>3, <3>4 DEF Surjection
    <3>7. QED
      BY <3>5, <3>6 DEF Bijection
  <2>2. QED
    BY <1>2, <2>1, FS_Bijection DEF ExistsBijection
<1>5. Cardinality(A \cup B) = Cardinality(A) + Cardinality(B) - Cardinality(A \cap B)
  BY <1>2, FS_Union
<1>6. Cardinality(A \cap B) = 0
  BY <1>3, FS_EmptySet
<1>7. Cardinality(A) \in Nat /\ Cardinality(B) \in Nat
  BY <1>2, FS_CardinalityType
<1> HIDE DEF A, B
<1>8. LineAt(k) = 1 + Cardinality(A) /\ LineAt(k + m) = 1 + Cardinality(A \cup B)
  BY <1>3 DEF LineAt, A
<1>9. QED
  BY <1>4, <1>5, <1>6, <1>7, <1>8

\* Where there is none, the line stays.
LEMMA SameLine ==
    ASSUME data \in Seq(Chars), NEW k \in 0 .. Len(data), NEW m \in k .. Len(data),
           \A i \in k + 1 .. m : data[i] # NL
    PROVE  LineAt(m) = LineAt(k)
<1>1. k \in Nat /\ m \in Nat
  BY TextFacts
<1>2. {i \in 1 .. m : data[i] = NL} = {i \in 1 .. k : data[i] = NL}
  BY <1>1
<1>3. QED
  BY <1>2 DEF LineAt

\* And one character on.
LEMMA LineStep ==
    ASSUME data \in Seq(Chars), NEW k \in 0 .. Len(data), k < Len(data)
    PROVE  LineAt(k + 1) = LineAt(k) + Newline(data[k + 1])
<1>1. k \in Nat /\ Len(data) \in Nat
  BY TextFacts
<1>2. CASE data[k + 1] = NL
  <2>1. {i \in 1 .. 1 : data[k + i] = NL} = {1}
    BY <1>1, <1>2
  <2>2. Cardinality({i \in 1 .. 1 : data[k + i] = NL}) = 1
    BY <2>1, FS_Singleton
  <2>3. QED
    BY <1>1, <1>2, <2>2, LineOn DEF Newline
<1>3. CASE data[k + 1] # NL
  <2>1. LineAt(k + 1) = LineAt(k)
    BY <1>1, <1>3, SameLine
  <2>2. Newline(data[k + 1]) = 0 /\ LineAt(k) \in Nat
    BY <1>3, LineFacts DEF Newline
  <2>3. QED
    BY <2>1, <2>2
<1>4. QED
  BY <1>2, <1>3

\* A reader to which nothing was given back, and whose line is that of its place.
Placed(rd) ==
    /\ rd \in Readers /\ rd.back = << >>
    /\ rd.line = LineAt(rd.pos)
    /\ rd.eof => rd.pos = Len(data)

\* What such a reader gives is the rest of the file.
LEMMA AheadFacts ==
    ASSUME data \in Seq(Chars), NEW rd, Placed(rd)
    PROVE  /\ Len(Ahead(rd)) = Len(data) - rd.pos
           /\ \A i \in 1 .. Len(data) - rd.pos : Ahead(rd)[i] = data[rd.pos + i]
           /\ \A k \in Nat : Char(rd, k) = IF k = 0 THEN rd.ch
                                           ELSE IF rd.pos + k <= Len(data) THEN data[rd.pos + k] ELSE EOF
<1> DEFINE rest == SubSeq(data, rd.pos + 1, Len(data))
<1>1. rd.pos \in 0 .. Len(data) /\ rd.back = << >> /\ Len(data) \in Nat
  BY TextFacts DEF Placed, Readers
<1>2. Reverse(rd.back) = << >>
  BY <1>1 DEF Reverse
<1>3. /\ rest \in Seq(Chars) /\ Len(rest) = Len(data) - rd.pos
      /\ \A i \in 1 .. Len(data) - rd.pos : rest[i] = data[rd.pos + i]
  <2>1. \A i \in rd.pos + 1 .. Len(data) : data[i] \in Chars
    BY <1>1, TextFacts
  <2> DEFINE m == rd.pos + 1
             l == Len(data)
  <2>2. m \in Int /\ l \in Int /\ \A i \in m .. l : data[i] \in Chars
    BY <1>1, <2>1
  <2> HIDE DEF m, l
  <2>3. /\ SubSeq(data, m, l) \in Seq(Chars)
        /\ Len(SubSeq(data, m, l)) = IF m <= l THEN l - m + 1 ELSE 0
        /\ \A i \in 1 .. l - m + 1 : SubSeq(data, m, l)[i] = data[m + i - 1]
    BY <2>2, SubSeqProperties
  <2>4. \A i \in 1 .. l - m + 1 : m + i - 1 = rd.pos + i
    BY <1>1, <2>2 DEF m
  <2>5. m <= l => l - m + 1 = Len(data) - rd.pos
    BY <1>1 DEF m, l
  <2>6. ~(m <= l) => Len(data) - rd.pos = 0
    BY <1>1 DEF m, l
  <2>7. 1 .. l - m + 1 = 1 .. Len(data) - rd.pos
    BY <1>1 DEF m, l
  <2>8. rest = SubSeq(data, m, l)
    BY DEF m, l
  <2>9. QED
    BY <2>3, <2>4, <2>5, <2>6, <2>7, <2>8
<1> HIDE DEF rest
<1>4. Ahead(rd) = rest
  BY <1>2, <1>3, ConcatEmptySeq DEF Ahead, rest
<1>5. \A k \in Nat : Char(rd, k) = IF k = 0 THEN rd.ch
                                   ELSE IF rd.pos + k <= Len(data) THEN data[rd.pos + k] ELSE EOF
  <2>1. SUFFICES ASSUME NEW k \in Nat, k # 0
                 PROVE  Char(rd, k) = IF rd.pos + k <= Len(data) THEN data[rd.pos + k] ELSE EOF
    BY DEF Char
  <2>2. CASE rd.pos + k <= Len(data)
    BY <1>1, <1>3, <1>4, <2>1, <2>2 DEF Char
  <2>3. CASE ~(rd.pos + k <= Len(data))
    BY <1>1, <1>3, <1>4, <2>1, <2>3 DEF Char
  <2>4. QED
    BY <2>2, <2>3
<1>6. QED
  BY <1>3, <1>4, <1>5

\* Reading keeps the line right.
LEMMA ReadsPlaced ==
    ASSUME data \in Seq(Chars), NEW rd, Placed(rd), NEW k \in Nat
    PROVE  /\ Placed(Reads(rd, k))
           /\ Reads(rd, k).ch = Char(rd, k)
           /\ Reads(rd, k).pos = IF rd.pos + k <= Len(data) THEN rd.pos + k ELSE Len(data)
           /\ Reads(rd, k).eof <=> rd.eof \/ rd.pos + k > Len(data)
<1> DEFINE q == IF rd.pos + k <= Len(data) THEN rd.pos + k ELSE Len(data)
           m == q - rd.pos
<1>1. /\ rd.pos \in 0 .. Len(data) /\ rd.back = << >> /\ Len(data) \in Nat /\ rd.pos \in Nat
      /\ rd.line = LineAt(rd.pos) /\ rd.eof \in BOOLEAN /\ rd.ch \in Given
      /\ rd.eof => rd.pos = Len(data)
  BY TextFacts DEF Placed, Readers
<1>2. q \in 0 .. Len(data) /\ m \in Nat /\ rd.pos + m = q /\ rd.pos + m <= Len(data)
  BY <1>1
<1>0. q = IF rd.pos + k <= Len(data) THEN rd.pos + k ELSE Len(data)
  OBVIOUS
<1> HIDE DEF q, m
<1>3. Len(Ahead(rd)) = Len(data) - rd.pos /\ k - Len(rd.back) = k
  BY <1>1, AheadFacts
<1>4. Reads(rd, k).pos = q
  BY <1>0, <1>1, <1>3 DEF Reads
<1>5. Reads(rd, k).eof <=> rd.eof \/ rd.pos + k > Len(data)
  <2>1. k > Len(Ahead(rd)) <=> rd.pos + k > Len(data)
    BY <1>1, <1>3
  <2>2. Reads(rd, k).eof = (rd.eof \/ k > Len(Ahead(rd)))
    BY DEF Reads
  <2>3. QED
    BY <2>1, <2>2
<1>6. Reads(rd, k).back = << >>
  <2>1. -k < 1 /\ 1 \in Int /\ -k \in Int
    OBVIOUS
  <2>2. SubSeq(rd.back, 1, -k) = << >>
    BY <2>1, SubSeqEmpty
  <2>3. QED
    BY <1>3, <2>2 DEF Reads
<1>7. Reads(rd, k).ch = Char(rd, k)
  BY DEF Reads
<1>8. Char(rd, k) \in Given
  <2>1. CASE k = 0
    BY <1>1, <2>1, AheadFacts
  <2>2. CASE k # 0 /\ rd.pos + k <= Len(data)
    <3>1. data[rd.pos + k] \in Chars
      BY <1>1, <2>2, TextFacts
    <3>2. QED
      BY <2>2, <3>1, AheadFacts DEF Given
  <2>3. CASE k # 0 /\ ~(rd.pos + k <= Len(data))
    BY <2>3, AheadFacts DEF Given
  <2>4. QED
    BY <2>1, <2>2, <2>3
<1>9. Reads(rd, k).line = LineAt(q)
  <2>1. {i \in 1 .. k : Char(rd, i) = NL} = {i \in 1 .. m : data[rd.pos + i] = NL}
    <3>1. \A i \in 1 .. k : Char(rd, i) = NL <=> i \in 1 .. m /\ data[rd.pos + i] = NL
      <4>1. SUFFICES ASSUME NEW i \in 1 .. k
                     PROVE  Char(rd, i) = NL <=> i \in 1 .. m /\ data[rd.pos + i] = NL
        OBVIOUS
      <4>2. Char(rd, i) = IF rd.pos + i <= Len(data) THEN data[rd.pos + i] ELSE EOF
        BY AheadFacts
      <4>3. i \in 1 .. m <=> rd.pos + i <= Len(data)
        BY <1>0, <1>1, <1>2
      <4>4. QED
        BY <4>2, <4>3, CharFacts
    <3>2. 1 .. m \subseteq 1 .. k
      BY <1>0, <1>1, <1>2
    <3>3. QED
      BY <3>1, <3>2
  <2>2. Reads(rd, k).line = LineAt(rd.pos) + Cardinality({i \in 1 .. m : data[rd.pos + i] = NL})
    BY <1>1, <2>1 DEF Reads
  <2>3. LineAt(rd.pos + m) = LineAt(rd.pos) + Cardinality({i \in 1 .. m : data[rd.pos + i] = NL})
    BY <1>1, <1>2, LineOn
  <2>4. QED
    BY <1>2, <2>2, <2>3
<1>10. LineAt(q) \in Int
  BY <1>2, LineFacts
<1>11. Reads(rd, k) \in Readers
  <2>1. Reads(rd, k).eof \in BOOLEAN /\ << >> \in Seq(Chars)
    BY <1>1 DEF Reads
  <2>2. Reads(rd, k) = [ch |-> Reads(rd, k).ch, pos |-> Reads(rd, k).pos, back |-> Reads(rd, k).back,
                        eof |-> Reads(rd, k).eof, line |-> Reads(rd, k).line]
    BY DEF Reads
  <2>3. QED
    BY <1>2, <1>4, <1>6, <1>7, <1>8, <1>9, <1>10, <2>1, <2>2 DEF Readers
<1>12. Reads(rd, k).eof => q = Len(data)
  BY <1>0, <1>1, <1>5
<1>13. QED
  BY <1>0, <1>4, <1>5, <1>6, <1>7, <1>9, <1>11, <1>12 DEF Placed

\* get_char reads one character.
LEMMA GetPlaced ==
    ASSUME data \in Seq(Chars), NEW rd, Placed(rd)
    PROVE  /\ Placed(get_char(rd))
           /\ get_char(rd).ch = IF rd.pos < Len(data) THEN data[rd.pos + 1] ELSE EOF
           /\ get_char(rd).pos = IF rd.pos < Len(data) THEN rd.pos + 1 ELSE rd.pos
           /\ get_char(rd).eof <=> get_char(rd).ch = EOF
<1> DEFINE c == IF rd.pos < Len(data) THEN data[rd.pos + 1] ELSE EOF
           q == IF rd.pos < Len(data) THEN rd.pos + 1 ELSE rd.pos
<1>1. /\ rd.pos \in 0 .. Len(data) /\ rd.back = << >> /\ Len(data) \in Nat /\ rd.pos \in Nat
      /\ rd.line = LineAt(rd.pos) /\ rd.eof \in BOOLEAN
      /\ rd.eof => rd.pos = Len(data)
  BY TextFacts DEF Placed, Readers
<1>2. get_char(rd) = [ch |-> c, pos |-> q, back |-> << >>, eof |-> rd.eof \/ c = EOF,
                      line |-> rd.line + Newline(c)]
  BY <1>1 DEF get_char
<1>3. c \in Given /\ q \in 0 .. Len(data)
  BY <1>1, TextFacts DEF Given
<1>4. rd.line + Newline(c) = LineAt(q)
  <2>1. CASE rd.pos < Len(data)
    BY <1>1, <2>1, LineStep
  <2>2. CASE ~(rd.pos < Len(data))
    <3>1. Newline(c) = 0 /\ LineAt(rd.pos) \in Nat
      BY <1>1, <2>2, CharFacts, LineFacts DEF Newline
    <3>2. QED
      BY <1>1, <2>2, <3>1
  <2>3. QED
    BY <2>1, <2>2
<1> HIDE DEF q
<1>5. LineAt(q) \in Int
  BY <1>3, LineFacts
<1>6. (rd.eof \/ c = EOF) <=> c = EOF
  BY <1>1
<1>7. c = EOF => q = Len(data)
  BY <1>1, TextFacts, CharFacts DEF q
<1> HIDE DEF c
<1>8. get_char(rd) \in Readers
  <2>1. << >> \in Seq(Chars) /\ (rd.eof \/ c = EOF) \in BOOLEAN
    OBVIOUS
  <2>2. QED
    BY <1>2, <1>3, <1>4, <1>5, <2>1 DEF Readers
<1>9. QED
  <2>1. /\ get_char(rd).ch = c /\ get_char(rd).pos = q /\ get_char(rd).back = << >>
        /\ get_char(rd).line = LineAt(q) /\ get_char(rd).eof = (rd.eof \/ c = EOF)
    BY <1>2, <1>4
  <2>2. Placed(get_char(rd))
    BY <1>6, <1>7, <1>8, <2>1 DEF Placed
  <2>3. QED
    BY <1>6, <2>1, <2>2 DEF c, q

-----------------------------------------------------------------------------
(* Reading within a line.                                                  *)

\* A set of natural numbers has a first element.
LEMMA FirstOfNaturals ==
    ASSUME NEW T \in SUBSET Nat, T # {}
    PROVE  \E x \in T : \A y \in T : x <= y
<1> DEFINE R == OpToRel(<, Nat)
<1>1. \A x, y \in Nat : x < y => <<x, y>> \in R
  BY DEF OpToRel
<1>2. IsWellFoundedOn(R, Nat)
  BY NatLessThanWellFounded
<1> HIDE DEF R
<1>3. PICK x \in T : \A y \in T : ~(<<y, x>> \in R)
  BY <1>2, WFMin
<1>4. ASSUME NEW y \in T PROVE x <= y
  <2>1. x \in Nat /\ y \in Nat
    OBVIOUS
  <2>2. ~(<<y, x>> \in R)
    BY <1>3
  <2>3. ~(y < x)
    BY <1>1, <2>1, <2>2
  <2>4. QED
    BY <2>1, <2>3
<1>5. QED
  BY <1>4

\* ReadWhile reads on over characters of S only.
LEMMA WhileReads ==
    ASSUME data \in Seq(Chars), NEW rd, Placed(rd),
           NEW S, EOF \notin S, NEW n \in Int, NEW limit \in Int
    PROVE  \E k \in Nat : /\ ReadWhile(S, rd, n, limit).r = Reads(rd, k)
                          /\ ReadWhile(S, rd, n, limit).n = n + k
                          /\ \A j \in 0 .. k - 1 : Char(rd, j) \in S
                          /\ Char(rd, k) \notin S \/ n + k > limit
<1> DEFINE Stops(k) == Char(rd, k) \notin S \/ n + k > limit
           L == Len(data) - rd.pos
           T == {k \in 0 .. L + 1 : Stops(k)}
<1>1. L \in Nat /\ Len(Ahead(rd)) = L
  <2>1. rd.pos \in 0 .. Len(data) /\ Len(data) \in Nat
    BY TextFacts DEF Placed, Readers
  <2>2. QED
    BY <2>1, AheadFacts
<1>2. Stops(L + 1)
  <2>1. rd.pos \in 0 .. Len(data) /\ Len(data) \in Nat
    BY TextFacts DEF Placed, Readers
  <2>2. L + 1 \in Nat /\ L + 1 # 0 /\ ~(rd.pos + (L + 1) <= Len(data))
    BY <1>1, <2>1
  <2>3. Char(rd, L + 1) = EOF
    BY <2>2, AheadFacts
  <2>4. QED
    BY <2>3
<1> HIDE DEF L, Stops
<1>3. T \in SUBSET Nat /\ T # {}
  BY <1>1, <1>2
<1>4. PICK f \in T : \A y \in T : f <= y
  BY <1>3, FirstOfNaturals
<1>5. f \in 0 .. L + 1 /\ Stops(f) /\ \A j \in 0 .. f - 1 : ~Stops(j)
  <2>1. f \in 0 .. L + 1 /\ Stops(f)
    BY <1>4
  <2>2. ASSUME NEW j \in 0 .. f - 1 PROVE ~Stops(j)
    <3>1. j \in 0 .. L + 1 /\ ~(f <= j)
      BY <1>1, <2>1
    <3>2. QED
      BY <1>4, <3>1
  <2>3. QED
    BY <2>1, <2>2
<1> DEFINE Last_(k) == Stops(k) /\ \A j \in 0 .. k - 1 : ~Stops(j)
           last == CHOOSE k \in 0 .. L + 1 : Last_(k)
<1>6. last \in 0 .. L + 1 /\ Last_(last)
  BY <1>5
<1>7. ReadWhile(S, rd, n, limit) = [r |-> Reads(rd, last), n |-> n + last]
  BY <1>1 DEF ReadWhile, Stops
<1> HIDE DEF last
<1>8. last \in Nat
  BY <1>1, <1>6
<1>9. \A j \in 0 .. last - 1 : Char(rd, j) \in S
  BY <1>6 DEF Stops
<1>10. Char(rd, last) \notin S \/ n + last > limit
  BY <1>6 DEF Stops
<1>11. QED
  BY <1>7, <1>8, <1>9, <1>10

\* Somewhere in the line that begins at from, its newline not read.
Amid(rd, from) ==
    /\ Placed(rd) /\ from <= rd.pos
    /\ \A i \in from + 1 .. rd.pos : data[i] # NL

\* The same, but the character read last may be the newline.
OnLine(rd, from) ==
    /\ Placed(rd) /\ from <= rd.pos
    /\ \A i \in from + 1 .. rd.pos - 1 : data[i] # NL
    /\ \/ rd.eof /\ rd.ch = EOF /\ Amid(rd, from)
       \/ ~rd.eof /\ from < rd.pos /\ rd.ch = data[rd.pos]

\* Where a reader can be.
LEMMA PlacedFacts ==
    ASSUME data \in Seq(Chars), NEW rd, Placed(rd)
    PROVE  /\ rd.pos \in 0 .. Len(data) /\ rd.pos \in Nat /\ Len(data) \in Nat
           /\ rd.eof \in BOOLEAN /\ rd.ch \in Given /\ rd.line \in Int /\ rd.line >= 1
           /\ rd.eof => rd.pos = Len(data)
<1>1. rd.pos \in 0 .. Len(data) /\ rd.pos \in Nat /\ Len(data) \in Nat
  BY TextFacts DEF Placed, Readers
<1>2. LineAt(rd.pos) >= 1
  BY <1>1, LineFacts
<1>3. QED
  BY <1>1, <1>2 DEF Placed, Readers

\* The next character is of the same line.
LEMMA AmidGet ==
    ASSUME data \in Seq(Chars), NEW from \in Nat, NEW rd, Amid(rd, from)
    PROVE  OnLine(get_char(rd), from)
<1>1. Placed(rd) /\ from <= rd.pos /\ \A i \in from + 1 .. rd.pos : data[i] # NL
  BY DEF Amid
<1>2. rd.pos \in Nat /\ Len(data) \in Nat
  BY <1>1, PlacedFacts
<1>3. CASE rd.pos < Len(data)
  <2>1. /\ get_char(rd).ch = data[rd.pos + 1] /\ get_char(rd).pos = rd.pos + 1 /\ Placed(get_char(rd))
        /\ get_char(rd).eof <=> get_char(rd).ch = EOF
    BY <1>1, <1>3, GetPlaced
  <2>2. data[rd.pos + 1] # EOF
    BY <1>2, <1>3, TextFacts, CharFacts
  <2>3. QED
    BY <1>1, <1>2, <2>1, <2>2 DEF OnLine
<1>4. CASE ~(rd.pos < Len(data))
  <2>1. /\ get_char(rd).ch = EOF /\ get_char(rd).pos = rd.pos /\ Placed(get_char(rd))
        /\ get_char(rd).eof <=> get_char(rd).ch = EOF
    BY <1>1, <1>4, GetPlaced
  <2>2. QED
    BY <1>1, <1>2, <2>1 DEF OnLine, Amid
<1>5. QED
  BY <1>3, <1>4

\* If it is no newline, reading may go on.
LEMMA OnLineAmid ==
    ASSUME data \in Seq(Chars), NEW from \in Nat, NEW rd, OnLine(rd, from), rd.ch # NL
    PROVE  Amid(rd, from)
<1>1. Placed(rd)
  BY DEF OnLine
<1>2. rd.pos \in Nat
  BY <1>1, PlacedFacts
<1>3. QED
  BY <1>2 DEF OnLine, Amid

\* What a reader gives when its last character goes back.
LEMMA UngetPlaced ==
    ASSUME data \in Seq(Chars), NEW rd, Placed(rd), rd.ch # EOF, rd.pos > 0, data[rd.pos] = rd.ch
    PROVE  /\ Placed(unget_char(rd))
           /\ unget_char(rd).pos = rd.pos - 1
           /\ unget_char(rd).eof = FALSE /\ unget_char(rd).ch = rd.ch
<1>1. rd \in Readers /\ rd.pos - 1 \in 0 .. Len(data) /\ rd.pos - 1 < Len(data) /\ rd.back = << >>
  BY PlacedFacts DEF Placed
<1>2. unget_keeping_line(rd) = [rd EXCEPT !.eof = FALSE, !.pos = rd.pos - 1, !.back = rd.back]
  BY <1>1 DEF unget_keeping_line
<1>3. unget_char(rd) = [rd EXCEPT !.eof = FALSE, !.pos = rd.pos - 1, !.line = rd.line - Newline(rd.ch)]
  BY <1>1, <1>2 DEF unget_char, Readers
<1>5. LineAt(rd.pos - 1) \in Int
  BY <1>1, LineFacts
<1>4. rd.line - Newline(rd.ch) = LineAt(rd.pos - 1)
  <2>1. LineAt((rd.pos - 1) + 1) = LineAt(rd.pos - 1) + Newline(data[(rd.pos - 1) + 1])
    BY <1>1, LineStep
  <2>2. (rd.pos - 1) + 1 = rd.pos
    BY PlacedFacts
  <2>3. Newline(rd.ch) \in Int
    BY DEF Newline
  <2>4. QED
    BY <1>5, <2>1, <2>2, <2>3 DEF Placed
<1>6. QED
  BY <1>1, <1>3, <1>4, <1>5 DEF Placed, Readers

\* A character that goes back is still of the line.
LEMMA UngetAmid ==
    ASSUME data \in Seq(Chars), NEW from \in Nat, NEW rd, OnLine(rd, from)
    PROVE  Amid(unget_char(rd), from)
<1>1. CASE rd.eof /\ rd.ch = EOF /\ Amid(rd, from)
  <2>1. rd \in Readers /\ Newline(EOF) = 0 /\ rd.line \in Int
    BY <1>1, PlacedFacts, CharFacts DEF Amid, Placed, Newline
  <2>2. unget_char(rd) = rd
    BY <1>1, <2>1 DEF unget_char, unget_keeping_line, Readers
  <2>3. QED
    BY <1>1, <2>2
<1>2. CASE ~rd.eof /\ from < rd.pos /\ rd.ch = data[rd.pos]
  <2>1. Placed(rd) /\ rd.pos \in 0 .. Len(data) /\ rd.pos \in Nat /\ Len(data) \in Nat
    BY PlacedFacts DEF OnLine
  <2>2. rd.ch # EOF
    BY <1>2, <2>1, TextFacts, CharFacts
  <2>3. Placed(unget_char(rd)) /\ unget_char(rd).pos = rd.pos - 1
    <3>1. rd.pos > 0 /\ data[rd.pos] = rd.ch
      BY <1>2, <2>1
    <3>2. QED
      BY <2>1, <2>2, <3>1, UngetPlaced
  <2>4. QED
    BY <1>2, <2>1, <2>3 DEF Amid, OnLine
<1>3. QED
  BY <1>1, <1>2 DEF OnLine

\* Reading over other characters than newlines stays on the line.
LEMMA ReadsOnLine ==
    ASSUME data \in Seq(Chars), NEW from \in Nat, NEW rd, Amid(rd, from),
           NEW k \in Nat, k # 0, \A j \in 1 .. k - 1 : Char(rd, j) # NL /\ Char(rd, j) # EOF
    PROVE  OnLine(Reads(rd, k), from)
<1>1. Placed(rd) /\ from <= rd.pos /\ \A i \in from + 1 .. rd.pos : data[i] # NL
  BY DEF Amid
<1>2. rd.pos \in Nat /\ rd.pos <= Len(data) /\ Len(data) \in Nat /\ (rd.eof => rd.pos = Len(data))
  BY <1>1, PlacedFacts
<1>3. /\ Placed(Reads(rd, k)) /\ Reads(rd, k).ch = Char(rd, k)
      /\ Reads(rd, k).pos = IF rd.pos + k <= Len(data) THEN rd.pos + k ELSE Len(data)
      /\ Reads(rd, k).eof <=> rd.eof \/ rd.pos + k > Len(data)
  BY <1>1, ReadsPlaced
<1>4. \A i \in Nat : rd.pos < i /\ i < rd.pos + k /\ i <= Len(data) => data[i] # NL
  <2>1. SUFFICES ASSUME NEW i \in Nat, rd.pos < i, i < rd.pos + k, i <= Len(data) PROVE data[i] # NL
    OBVIOUS
  <2>2. i - rd.pos \in 1 .. k - 1 /\ i - rd.pos \in Nat /\ i - rd.pos # 0 /\ rd.pos + (i - rd.pos) = i
    BY <1>2, <2>1
  <2>3. Char(rd, i - rd.pos) = data[i]
    BY <1>1, <2>1, <2>2, AheadFacts
  <2>4. QED
    BY <2>2, <2>3
<1>5. CASE rd.pos + k <= Len(data)
  <2>1. Char(rd, k) = data[rd.pos + k]
    BY <1>1, <1>5, AheadFacts
  <2>2. ~Reads(rd, k).eof
    BY <1>2, <1>3, <1>5
  <2>3. \A i \in from + 1 .. rd.pos + k - 1 : data[i] # NL
    BY <1>1, <1>2, <1>4, <1>5
  <2>4. from < rd.pos + k /\ from <= rd.pos + k
    BY <1>1, <1>2
  <2>5. Placed(Reads(rd, k)) /\ Reads(rd, k).ch = data[rd.pos + k] /\ Reads(rd, k).pos = rd.pos + k
    BY <1>3, <1>5, <2>1
  <2>6. from <= Reads(rd, k).pos /\ from < Reads(rd, k).pos
    BY <2>4, <2>5
  <2>7. ASSUME NEW i \in from + 1 .. Reads(rd, k).pos - 1 PROVE data[i] # NL
    <3>1. i \in from + 1 .. rd.pos + k - 1
      BY <1>2, <2>5
    <3>2. QED
      BY <2>3, <3>1
  <2>8. Reads(rd, k).ch = data[Reads(rd, k).pos]
    BY <2>5
  <2>9. QED
    BY <2>2, <2>5, <2>6, <2>7, <2>8 DEF OnLine
<1>6. CASE ~(rd.pos + k <= Len(data))
  <2>1. Char(rd, k) = EOF
    BY <1>1, <1>6, AheadFacts
  <2>2. Reads(rd, k).eof /\ Reads(rd, k).pos = Len(data) /\ Reads(rd, k).ch = EOF
    BY <1>2, <1>3, <1>6, <2>1
  <2>3. \A i \in from + 1 .. Len(data) : data[i] # NL
    BY <1>1, <1>2, <1>4, <1>6
  <2>4. QED
    BY <1>1, <1>2, <1>3, <2>2, <2>3 DEF OnLine, Amid
<1>7. QED
  BY <1>5, <1>6

\* So does ReadWhile.
LEMMA WhileOnLine ==
    ASSUME data \in Seq(Chars), NEW from \in Nat, NEW rd, OnLine(rd, from),
           NEW S, EOF \notin S, NL \notin S, NEW n \in Int, NEW limit \in Int
    PROVE  OnLine(ReadWhile(S, rd, n, limit).r, from)
<1>1. Placed(rd)
  BY DEF OnLine
<1>2. PICK k \in Nat : /\ ReadWhile(S, rd, n, limit).r = Reads(rd, k)
                       /\ \A j \in 0 .. k - 1 : Char(rd, j) \in S
  BY <1>1, WhileReads
<1>3. CASE k = 0
  <2>1. Char(rd, 0) = rd.ch
    BY DEF Char
  <2>2. /\ Placed(Reads(rd, 0)) /\ Reads(rd, 0).ch = rd.ch /\ Reads(rd, 0).pos = rd.pos
        /\ Reads(rd, 0).eof <=> rd.eof
    <3>1. rd.pos \in Nat /\ rd.pos <= Len(data) /\ rd.pos + 0 = rd.pos /\ ~(rd.pos > Len(data))
      BY <1>1, PlacedFacts
    <3>2. /\ Placed(Reads(rd, 0)) /\ Reads(rd, 0).ch = Char(rd, 0)
          /\ Reads(rd, 0).pos = IF rd.pos + 0 <= Len(data) THEN rd.pos + 0 ELSE Len(data)
          /\ Reads(rd, 0).eof <=> rd.eof \/ rd.pos + 0 > Len(data)
      BY <1>1, ReadsPlaced
    <3>3. QED
      BY <2>1, <3>1, <3>2
  <2>3. Reads(rd, 0).eof = rd.eof
    BY <1>1, <2>2, PlacedFacts DEF Placed, Readers
  <2>4. QED
    BY <1>2, <1>3, <2>2, <2>3 DEF OnLine, Amid
<1>4. CASE k # 0
  <2>1. rd.ch # NL
    <3>1. 0 \in 0 .. k - 1
      BY <1>4
    <3>2. Char(rd, 0) = rd.ch
      BY DEF Char
    <3>3. QED
      BY <1>2, <3>1, <3>2
  <2>2. Amid(rd, from)
    BY <2>1, OnLineAmid
  <2>3. \A j \in 1 .. k - 1 : Char(rd, j) # NL /\ Char(rd, j) # EOF
    BY <1>2
  <2>4. QED
    BY <1>2, <1>4, <2>2, <2>3, ReadsOnLine
<1>5. QED
  BY <1>3, <1>4

-----------------------------------------------------------------------------
(* An entry is read within its line.                                       *)

\* After a bad word what ended it has gone back twice.
Twice(rd, from) ==
    \E c \in Chars : /\ rd \in Readers /\ rd.back = <<c>> /\ rd.ch = EOF /\ ~rd.eof
                     /\ rd.line = LineAt(rd.pos) - Newline(c)
                     /\ from < rd.pos /\ \A i \in from + 1 .. rd.pos : data[i] # NL

\* What an entry that failed leaves.
Failed(rd, from) ==
    OnLine(rd, from) \/ (Amid(rd, from) /\ rd.ch = EOF) \/ Twice(rd, from)

\* Blanks are of the line.
LEMMA SkipBlanksOnLine ==
    ASSUME data \in Seq(Chars), NEW from \in Nat, NEW rd, OnLine(rd, from)
    PROVE  OnLine(skip_blanks(rd), from)
<1>1. Unlimited \in Int
  BY TextFacts DEF Unlimited
<1> DEFINE S == {Blank}
<1>2. EOF \notin S /\ NL \notin S
  BY CharFacts
<1>3. skip_blanks(rd) = ReadWhile(S, rd, 0, Unlimited).r
  BY DEF skip_blanks
<1> HIDE DEF S
<1>4. QED
  BY <1>1, <1>2, <1>3, WhileOnLine

\* And so is a text up to it.
LEMMA GetStringOnLine ==
    ASSUME data \in Seq(Chars), NEW from \in Nat, NEW rd, Amid(rd, from), NEW terms, NL \in terms
    PROVE  OnLine(get_string(rd, terms).r, from)
<1> DEFINE S == Chars \ (terms \cup {NUL})
<1>1. Unlimited \in Int
  BY TextFacts DEF Unlimited
<1>2. EOF \notin S /\ NL \notin S
  BY CharFacts
<1>3. OnLine(get_char(rd), from)
  BY AmidGet
<1>4. get_string(rd, terms).r = ReadWhile(S, get_char(rd), 0, Unlimited).r
  BY DEF get_string
<1> HIDE DEF S
<1>5. QED
  BY <1>1, <1>2, <1>3, <1>4, WhileOnLine

\* The character read last does not matter amid a line.
LEMMA AmidForgets ==
    ASSUME data \in Seq(Chars), NEW from \in Nat, NEW rd, Amid(rd, from)
    PROVE  /\ Amid([rd EXCEPT !.ch = EOF], from) /\ [rd EXCEPT !.ch = EOF].ch = EOF
<1>1. rd \in Readers
  BY DEF Amid, Placed
<1>2. EOF \in Given
  BY DEF Given
<1>3. [rd EXCEPT !.ch = EOF] \in Readers
  BY <1>1, <1>2 DEF Readers
<1>4. LET f == [rd EXCEPT !.ch = EOF]
      IN  f.back = rd.back /\ f.pos = rd.pos /\ f.eof = rd.eof /\ f.line = rd.line /\ f.ch = EOF
  BY <1>1 DEF Readers
<1>5. QED
  BY <1>3, <1>4 DEF Amid, Placed

\* That is how a failed entry may leave it.
LEMMA AmidFailed ==
    ASSUME data \in Seq(Chars), NEW from \in Nat, NEW rd, Amid(rd, from)
    PROVE  Failed([rd EXCEPT !.ch = EOF], from)
<1> DEFINE f == [rd EXCEPT !.ch = EOF]
<1>1. Amid(f, from) /\ f.ch = EOF
  BY AmidForgets
<1> HIDE DEF f
<1>2. Failed(f, from)
  BY <1>1 DEF Failed
<1>3. QED
  BY <1>2 DEF f

\* A bad word goes back to where it ended, or what ended it is there twice.
LEMMA BadWord ==
    ASSUME data \in Seq(Chars), NEW from \in Nat, NEW rd, OnLine(rd, from), rd.ch = "n"
    PROVE  LET word == ReadWhile({"n"}, rd, 0, Unlimited).r
           IN  Failed([unget_char(unget_char(word)) EXCEPT !.ch = EOF], from)
<1> DEFINE S == {"n"}
           word == ReadWhile(S, rd, 0, Unlimited).r
           u == unget_char(word)
           v == unget_char(u)
<1>1. Unlimited \in Int /\ EOF \notin S /\ NL \notin S /\ (0 > Unlimited) = FALSE
  BY TextFacts, CharFacts DEF Unlimited
<1>0. rd.ch \in S /\ rd.ch # EOF
  BY CharFacts
<1> HIDE DEF S
<1>2. OnLine(word, from)
  BY <1>1, WhileOnLine
<1>3. Amid(u, from)
  BY <1>2, UngetAmid
<1>4. CASE word.ch = EOF
  <2>1. word \in Readers /\ Newline(EOF) = 0 /\ word.line \in Int
    BY <1>2, PlacedFacts, CharFacts DEF OnLine, Placed, Newline
  <2>2. u = word
    BY <1>4, <2>1 DEF unget_char, unget_keeping_line, Readers
  <2>3. v = u
    BY <1>4, <2>1, <2>2 DEF unget_char, unget_keeping_line, Readers
  <2>4. Amid(v, from)
    BY <1>3, <2>3
  <2> HIDE DEF v
  <2>5. Failed([v EXCEPT !.ch = EOF], from)
    BY <2>4, AmidFailed
  <2>6. QED
    BY <2>5 DEF v, S
<1>5. CASE word.ch # EOF
  <2>1. Placed(rd)
    BY DEF OnLine
  <2>2. PICK k \in Nat : /\ word = Reads(rd, k)
                         /\ Char(rd, k) \notin S \/ 0 + k > Unlimited
    BY <1>1, <2>1, WhileReads
  <2>3. k # 0
    BY <1>0, <1>1, <2>2 DEF Char
  <2>4. from < rd.pos /\ rd.pos \in Nat /\ Len(data) \in Nat
    BY <1>0, <2>1, PlacedFacts DEF OnLine
  <2>5. /\ ~word.eof /\ from < word.pos /\ word.ch = data[word.pos]
        /\ Placed(word) /\ word.pos \in Nat /\ 0 < word.pos
    <3>1. Placed(word) /\ ~word.eof /\ from < word.pos /\ word.ch = data[word.pos]
      BY <1>2, <1>5 DEF OnLine
    <3>2. word.pos \in Nat
      BY <3>1, PlacedFacts
    <3>3. QED
      BY <3>1, <3>2
  <2>6. /\ word.pos = IF rd.pos + k <= Len(data) THEN rd.pos + k ELSE Len(data)
        /\ word.eof <=> rd.eof \/ rd.pos + k > Len(data)
    BY <2>1, <2>2, ReadsPlaced
  <2>7. word.pos = rd.pos + k
    BY <2>4, <2>5, <2>6
  <2>8. /\ Placed(u) /\ u.pos = word.pos - 1 /\ u.ch = word.ch /\ u.eof = FALSE
    BY <1>5, <2>5, UngetPlaced
  <2>9. from < u.pos /\ u.pos \in Nat
    BY <2>3, <2>4, <2>7, <2>8
  <2>10. u \in Readers /\ u.back = << >> /\ u.line = LineAt(u.pos) /\ u.line \in Int
    BY <2>8, PlacedFacts DEF Placed
  <2> HIDE DEF u
  <2>11. CASE data[u.pos] = u.ch
    <3>0. u.ch # EOF /\ u.pos > 0
      BY <1>5, <2>8, <2>9
    <3>1. Placed(v) /\ v.pos = u.pos - 1
      BY <2>8, <2>11, <3>0, UngetPlaced
    <3>2. Amid(v, from)
      BY <1>3, <2>9, <3>1 DEF Amid
    <3> HIDE DEF v
    <3>3. Failed([v EXCEPT !.ch = EOF], from)
      BY <3>2, AmidFailed
    <3>4. QED
      BY <3>3 DEF v, u, S
  <2>12. CASE data[u.pos] # u.ch
    <3>1. u.ch \in Chars
      BY <1>5, <2>8, PlacedFacts DEF Given
    <3> DEFINE c == u.ch
               f == [v EXCEPT !.ch = EOF]
    <3>2. /\ Append(u.back, c) = <<c>> /\ <<c>> \in Seq(Chars)
      BY <2>10, <3>1
    <3>3. v = [u EXCEPT !.eof = FALSE, !.back = <<c>>, !.line = u.line - Newline(c)]
      BY <1>5, <2>8, <2>10, <2>12, <3>2 DEF unget_char, unget_keeping_line, Readers
    <3>4. Newline(c) \in Int /\ EOF \in Given
      BY DEF Newline, Given
    <3>9. u.line - Newline(c) \in Int
      BY <2>10, <3>4
    <3>5. /\ f \in Readers /\ f.back = <<c>> /\ f.ch = EOF /\ f.eof = FALSE
          /\ f.pos = u.pos /\ f.line = LineAt(u.pos) - Newline(c)
      <4> DEFINE b == <<c>>
                 z == u.line - Newline(c)
      <4>1. v = [u EXCEPT !.eof = FALSE, !.back = b, !.line = z] /\ b \in Seq(Chars) /\ z \in Int
        BY <3>2, <3>3, <3>9
      <4> HIDE DEF b, z, v
      <4>2. /\ v \in Readers /\ v.pos = u.pos /\ v.back = b /\ v.eof = FALSE /\ v.line = z
        BY <2>10, <4>1 DEF Readers
      <4>3. /\ f \in Readers /\ f.pos = v.pos /\ f.back = v.back /\ f.eof = v.eof /\ f.line = v.line
            /\ f.ch = EOF
        BY <3>4, <4>2 DEF Readers
      <4>4. QED
        BY <2>10, <4>2, <4>3 DEF b, z
    <3>6. \A i \in from + 1 .. u.pos : data[i] # NL
      BY <1>3 DEF Amid
    <3> HIDE DEF f, c
    <3>7. Twice(f, from)
      BY <2>9, <3>1, <3>5, <3>6 DEF Twice, c
    <3>8. Failed(f, from)
      BY <3>7 DEF Failed
    <3>13. QED
      BY <3>8 DEF f, u, S
  <2>13. QED
    BY <2>11, <2>12
<1>6. QED
  BY <1>4, <1>5

\* What the fields of an entry leave: the line, or a bad line.
Scheduled(fields, from) ==
    \/ fields.ok /\ OnLine(fields.r, from)
    \/ ~fields.ok /\ Failed(fields.r, from)

\* A field is of its line.
LEMMA FieldOnLine ==
    ASSUME data \in Seq(Chars), NEW from \in Nat, NEW rd, OnLine(rd, from)
    PROVE  Scheduled(get_list(rd), from)
<1> DEFINE behind == get_char(rd)
           word   == unget_char(unget_char(ReadWhile({"n"}, rd, 0, Unlimited).r))
           once   == unget_char(rd)
           failed == CASE rd.ch = "*" -> behind
                       [] rd.ch = "n" -> word
                       [] OTHER       -> once
<1>1. /\ rd.ch = "*" => OnLine(behind, from)
      /\ rd.ch = "n" => Failed([word EXCEPT !.ch = EOF], from)
      /\ Amid(once, from)
  BY CharFacts, OnLineAmid, AmidGet, BadWord, UngetAmid
<1>2. get_list(rd) = IF rd.ch = "*" /\ behind.ch \in {Blank, NL} THEN Good(skip_blanks(behind))
                     ELSE Bad([failed EXCEPT !.ch = EOF])
  BY DEF get_list
<1>3. "*" # "n"
  OBVIOUS
<1> HIDE DEF behind, word, once
<1>4. CASE rd.ch = "*" /\ behind.ch \in {Blank, NL}
  <2>1. OnLine(skip_blanks(behind), from)
    BY <1>1, <1>4, SkipBlanksOnLine
  <2>2. QED
    BY <1>2, <1>4, <2>1 DEF Scheduled, Good
<1>5. CASE rd.ch = "*" /\ behind.ch \notin {Blank, NL}
  <2>1. Amid(behind, from)
    BY <1>1, <1>5, OnLineAmid
  <2>2. Failed([behind EXCEPT !.ch = EOF], from)
    BY <2>1, AmidFailed
  <2>3. QED
    BY <1>2, <1>5, <2>2 DEF Scheduled, Bad
<1>6. CASE rd.ch = "n"
  BY <1>1, <1>2, <1>3, <1>6 DEF Scheduled, Bad
<1>7. CASE rd.ch # "*" /\ rd.ch # "n"
  <2>1. Failed([once EXCEPT !.ch = EOF], from)
    BY <1>1, AmidFailed
  <2>2. QED
    BY <1>2, <1>7, <2>1 DEF Scheduled, Bad
<1>8. QED
  BY <1>4, <1>5, <1>6, <1>7

\* And so are a shortcut or all fields.
LEMMA ScheduleOnLine ==
    ASSUME data \in Seq(Chars), NEW from \in Nat, NEW rd, OnLine(rd, from)
    PROVE  Scheduled(load_schedule(rd), from)
<1> DEFINE name == get_string(rd, {Blank, NL})
<1>1. ASSUME NEW fields, Scheduled(fields, from) PROVE Scheduled(Then(fields), from)
  BY <1>1, FieldOnLine DEF Scheduled, Then
<1>2. CASE rd.ch # "@"
  <2>1. Scheduled(Then(Then(Then(Then(get_list(rd))))), from)
    BY <1>1, FieldOnLine
  <2>2. QED
    BY <1>2, <2>1 DEF load_schedule
<1>3. CASE rd.ch = "@"
  <2>1. Amid(rd, from)
    BY <1>3, CharFacts, OnLineAmid
  <2>2. NL \in {Blank, NL}
    OBVIOUS
  <2>3. OnLine(name.r, from)
    BY <2>1, <2>2, GetStringOnLine
  <2>4. load_schedule(rd) = IF name.s \in Shortcuts THEN Good(skip_blanks(name.r)) ELSE Bad(name.r)
    BY <1>3 DEF load_schedule
  <2> HIDE DEF name
  <2>5. OnLine(skip_blanks(name.r), from)
    BY <2>3, SkipBlanksOnLine
  <2>6. QED
    BY <2>3, <2>4, <2>5 DEF Scheduled, Good, Bad, Failed
<1>4. QED
  BY <1>2, <1>3

\* Options and command are of the line.
LEMMA CommandOnLine ==
    ASSUME data \in Seq(Chars), NEW from \in Nat, NEW rd, OnLine(rd, from)
    PROVE  OnLine(Command(rd).r, from)
<1> DEFINE option == get_char(rd)
           behind == get_char(option)
           then   == skip_blanks(behind)
<1>1. ASSUME NEW x, OnLine(x, from) PROVE OnLine(CommandText(x).r, from)
  <2>1. Amid(unget_char(x), from)
    BY <1>1, UngetAmid
  <2>2. OnLine(get_string(unget_char(x), {NL}).r, from)
    BY <2>1, GetStringOnLine
  <2>3. QED
    BY <2>2 DEF CommandText
<1>2. CASE rd.ch # "-"
  BY <1>1, <1>2 DEF Command
<1>3. CASE rd.ch = "-"
  <2>1. OnLine(option, from)
    BY <1>3, CharFacts, OnLineAmid, AmidGet
  <2>2. option.ch = "n" => OnLine(behind, from)
    BY <2>1, CharFacts, OnLineAmid, AmidGet
  <2>3. OnLine(behind, from) => OnLine(then, from)
    BY SkipBlanksOnLine
  <2>4. OnLine(then, from) /\ then.ch = "-" => OnLine(get_char(then), from)
    BY CharFacts, OnLineAmid, AmidGet
  <2> HIDE DEF option, behind, then
  <2>5. CASE option.ch # "n"
    BY <1>3, <2>1, <2>5 DEF Command, Bad, option, behind, then
  <2>6. CASE option.ch = "n" /\ behind.ch # Blank
    BY <1>3, <2>2, <2>6 DEF Command, Bad, option, behind, then
  <2>7. CASE option.ch = "n" /\ behind.ch = Blank
    <3>1. Command(rd) = IF then.ch \in {EOF, NL} THEN Bad(then)
                        ELSE IF then.ch = "-" THEN Bad(get_char(then)) ELSE CommandText(then)
      BY <1>3, <2>7 DEF Command, option, behind, then
    <3>2. OnLine(then, from)
      BY <2>2, <2>3, <2>7
    <3>3. QED
      BY <1>1, <2>4, <3>1, <3>2 DEF Bad
  <2>8. QED
    BY <2>5, <2>6, <2>7
<1>4. QED
  BY <1>2, <1>3

\* So is a user.
LEMMA UserOnLine ==
    ASSUME data \in Seq(Chars), NEW from \in Nat, NEW rd, Amid(rd, from)
    PROVE  OnLine(UserAndCommand(rd).r, from)
<1> DEFINE name == get_string(rd, {Blank, NL}).r
           then == skip_blanks(name)
<1>1. OnLine(name, from)
  <2>1. NL \in {Blank, NL}
    OBVIOUS
  <2>2. QED
    BY <2>1, GetStringOnLine
<1>2. OnLine(then, from)
  BY <1>1, SkipBlanksOnLine
<1>3. OnLine(Command(get_char(rd)).r, from)
  BY AmidGet, CommandOnLine
<1>4. OnLine(Command(get_char(unget_char(then))).r, from)
  <2>1. Amid(unget_char(then), from)
    BY <1>2, UngetAmid
  <2>2. OnLine(get_char(unget_char(then)), from)
    BY <2>1, AmidGet
  <2>3. QED
    BY <2>2, CommandOnLine
<1> HIDE DEF name, then
<1>5. UserAndCommand(rd) =
        CASE ~options.system -> Command(get_char(rd))
          [] options.system /\ name.ch \in {EOF, NL} -> Bad(name)
          [] options.system /\ name.ch \notin {EOF, NL} /\ then.ch \in {EOF, NL} -> Bad(then)
          [] OTHER -> Command(get_char(unget_char(then)))
  BY DEF UserAndCommand, name, then
<1>6. QED
  BY <1>1, <1>2, <1>3, <1>4, <1>5 DEF Bad

\* An entry is read within its line.
LEMMA EntryOnLine ==
    ASSUME data \in Seq(Chars), NEW from \in Nat, NEW rd, OnLine(rd, from)
    PROVE  OnLine(entry(rd).r, from) \/ (~entry(rd).ok /\ Failed(entry(rd).r, from))
<1> DEFINE first == IF rd.ch = "-" THEN get_char(rd) ELSE rd
           schedule == load_schedule(first)
<1>1. OnLine(first, from)
  BY CharFacts, OnLineAmid, AmidGet
<1>2. \/ schedule.ok /\ OnLine(schedule.r, from)
      \/ ~schedule.ok /\ Failed(schedule.r, from)
  BY <1>1, ScheduleOnLine DEF Scheduled
<1>3. OnLine(schedule.r, from) => OnLine(UserAndCommand(unget_char(schedule.r)).r, from)
  BY UngetAmid, UserOnLine
<1> HIDE DEF schedule, first
<1>4. entry(rd) = IF rd.ch = "-" /\ ~options.privileged THEN Bad(rd)
                  ELSE IF ~schedule.ok THEN schedule
                  ELSE IF schedule.r.ch \in {EOF, NL, "*"} THEN Bad(schedule.r)
                  ELSE UserAndCommand(unget_char(schedule.r))
  BY DEF entry, schedule, first
<1>5. QED
  BY <1>2, <1>3, <1>4 DEF Bad

-----------------------------------------------------------------------------
(* The rest of a bad line, and reading on.                                 *)

\* Behind a bad entry, at most its own newline has been read.
Ended(rd, from) ==
    OnLine(rd, from) \/ (Amid(rd, from) /\ ~rd.eof /\ from < rd.pos)

\* The characters that a bad line is read over.
LEMMA DiscardOver ==
    ASSUME data \in Seq(Chars), ParserAssumption
    PROVE  EOF \notin Chars \ {NL} /\ NL \notin Chars \ {NL} /\ MAX_COMMAND - 1 \in Int
<1>1. MAX_COMMAND \in Nat
  BY DEF ParserAssumption
<1>2. QED
  BY <1>1, CharFacts

\* What went back twice is read once more, and the line is right again.
LEMMA DiscardTwice ==
    ASSUME data \in Seq(Chars), ParserAssumption, NEW from \in Nat, NEW rd, Twice(rd, from)
    PROVE  Ended(DiscardAlways(rd), from)
<1> DEFINE S == Chars \ {NL}
           limit == MAX_COMMAND - 1
           g == get_char(rd)
<1>1. EOF \notin S /\ NL \notin S /\ limit \in Int
  BY DiscardOver
<1>2. PICK c \in Chars : /\ rd \in Readers /\ rd.back = <<c>> /\ rd.ch = EOF /\ ~rd.eof
                         /\ rd.line = LineAt(rd.pos) - Newline(c)
                         /\ from < rd.pos /\ \A i \in from + 1 .. rd.pos : data[i] # NL
  BY DEF Twice
<1>3. rd.pos \in 0 .. Len(data) /\ rd.eof = FALSE
  BY <1>2 DEF Readers
<1>4. Last(rd.back) = c /\ Front(rd.back) = << >> /\ rd.back # << >> /\ c # EOF
  <2>1. Len(<<c>>) = 1 /\ <<c>>[1] = c /\ <<c>> # << >>
    OBVIOUS
  <2>2. Last(<<c>>) = c
    BY <2>1 DEF Last
  <2>3. SubSeq(<<c>>, 1, 0) = << >>
    BY SubSeqEmpty
  <2>4. Front(<<c>>) = << >>
    BY <2>1, <2>3 DEF Front
  <2>5. QED
    BY <1>2, <2>1, <2>2, <2>4, CharFacts
<1>5. g = [ch |-> c, pos |-> rd.pos, back |-> << >>, eof |-> FALSE, line |-> rd.line + Newline(c)]
  BY <1>3, <1>4 DEF get_char
<1>6. LineAt(rd.pos) \in Int /\ Newline(c) \in Int
  <2>1. LineAt(rd.pos) \in Int
    BY <1>3, LineFacts
  <2>2. Newline(c) \in Int
    BY DEF Newline
  <2>3. QED
    BY <2>1, <2>2
<1>7. rd.line + Newline(c) = LineAt(rd.pos)
  BY <1>2, <1>6
<1>8. << >> \in Seq(Chars) /\ c \in Given
  BY DEF Given
<1>9. g \in Readers
  BY <1>3, <1>5, <1>6, <1>7, <1>8 DEF Readers
<1>10. Placed(g) /\ g.eof = FALSE /\ g.pos = rd.pos
  BY <1>5, <1>7, <1>9 DEF Placed
<1>11. Amid(g, from) /\ ~g.eof /\ from < g.pos
  BY <1>2, <1>3, <1>10 DEF Amid
<1> HIDE DEF S, limit, g
<1>12. PICK k \in Nat : /\ ReadWhile(S, g, 1, limit).r = Reads(g, k)
                        /\ \A j \in 0 .. k - 1 : Char(g, j) \in S
  BY <1>1, <1>10, WhileReads
<1>13. CASE k = 0
  <2>1. /\ Placed(Reads(g, 0)) /\ Reads(g, 0).pos = IF g.pos + 0 <= Len(data) THEN g.pos + 0 ELSE Len(data)
        /\ Reads(g, 0).eof <=> g.eof \/ g.pos + 0 > Len(data)
    BY <1>10, ReadsPlaced
  <2>2. g.pos \in Nat /\ g.pos <= Len(data) /\ Len(data) \in Nat
    BY <1>10, PlacedFacts
  <2>3. Reads(g, 0).pos = g.pos /\ ~Reads(g, 0).eof
    BY <1>10, <2>1, <2>2
  <2>4. Ended(Reads(g, 0), from)
    BY <1>11, <2>1, <2>3 DEF Ended, Amid
  <2>5. QED
    BY <1>12, <1>13, <2>4 DEF DiscardAlways, S, limit, g
<1>14. CASE k # 0
  <2>1. \A j \in 1 .. k - 1 : Char(g, j) # NL /\ Char(g, j) # EOF
    BY <1>1, <1>12
  <2>2. OnLine(Reads(g, k), from)
    BY <1>11, <1>14, <2>1, ReadsOnLine
  <2>3. Ended(Reads(g, k), from)
    BY <2>2 DEF Ended
  <2>4. QED
    BY <1>12, <2>3 DEF DiscardAlways, S, limit, g
<1>15. QED
  BY <1>13, <1>14

\* Discarding ends where the line does.
LEMMA DiscardEnds ==
    ASSUME data \in Seq(Chars), ParserAssumption, NEW from \in Nat, NEW rd, Failed(rd, from)
    PROVE  Ended(Discard(rd), from)
<1>1. ASSUME Amid(rd, from) PROVE OnLine(DiscardAlways(rd), from)
  <2> DEFINE S == Chars \ {NL}
             limit == MAX_COMMAND - 1
  <2>1. EOF \notin S /\ NL \notin S /\ limit \in Int
    BY DiscardOver
  <2>2. OnLine(get_char(rd), from)
    BY <1>1, AmidGet
  <2>3. DiscardAlways(rd) = ReadWhile(S, get_char(rd), 1, limit).r
    BY DEF DiscardAlways
  <2> DEFINE g == get_char(rd)
             e == ReadWhile(S, g, 1, limit).r
  <2>4. OnLine(g, from) /\ 1 \in Int
    BY <2>2
  <2> HIDE DEF S, limit, g
  <2>5. OnLine(e, from)
    BY <2>1, <2>4, WhileOnLine
  <2>6. QED
    BY <2>3, <2>5 DEF g
<1>2. CASE OnLine(rd, from)
  <2>1. CASE rd.ch = NL \/ rd.eof
    BY <1>2, <2>1 DEF Discard, Ended
  <2>2. CASE ~(rd.ch = NL \/ rd.eof)
    <3>1. Amid(rd, from)
      BY <1>2, <2>2, OnLineAmid
    <3>2. QED
      BY <1>1, <2>2, <3>1 DEF Discard, Ended
  <2>3. QED
    BY <2>1, <2>2
<1>3. CASE Amid(rd, from) /\ rd.ch = EOF
  <2>1. CASE rd.eof
    <3>1. Placed(rd) /\ from <= rd.pos /\ \A i \in from + 1 .. rd.pos : data[i] # NL
      BY <1>3 DEF Amid
    <3>2. rd.pos \in Nat
      BY <3>1, PlacedFacts
    <3>3. \A i \in from + 1 .. rd.pos - 1 : data[i] # NL
      BY <3>1, <3>2
    <3>4. OnLine(rd, from)
      BY <1>3, <2>1, <3>1, <3>3 DEF OnLine
    <3>5. QED
      BY <2>1, <3>4 DEF Discard, Ended
  <2>2. CASE ~rd.eof
    BY <1>1, <1>3, <2>2, CharFacts DEF Discard, Ended
  <2>3. QED
    BY <2>1, <2>2
<1>4. CASE Twice(rd, from)
  <2>1. rd.ch # NL /\ ~rd.eof
    BY <1>4, CharFacts DEF Twice
  <2>2. QED
    BY <1>4, <2>1, DiscardTwice DEF Discard
<1>5. QED
  BY <1>2, <1>3, <1>4 DEF Failed

\* The character read last is the one before the reader's place, or the end of the file.
Fresh(rd) ==
    /\ Placed(rd)
    /\ \/ rd.eof /\ rd.ch = EOF
       \/ ~rd.eof /\ 0 < rd.pos /\ rd.ch = data[rd.pos]

\* So it is after get_char.
LEMMA GetFresh ==
    ASSUME data \in Seq(Chars), NEW rd, Placed(rd)
    PROVE  /\ Fresh(get_char(rd)) /\ rd.pos <= get_char(rd).pos
           /\ get_char(rd).ch # EOF => rd.pos < get_char(rd).pos
<1>1. rd.pos \in Nat /\ Len(data) \in Nat
  BY PlacedFacts
<1>2. /\ Placed(get_char(rd))
      /\ get_char(rd).ch = IF rd.pos < Len(data) THEN data[rd.pos + 1] ELSE EOF
      /\ get_char(rd).pos = IF rd.pos < Len(data) THEN rd.pos + 1 ELSE rd.pos
      /\ get_char(rd).eof <=> get_char(rd).ch = EOF
  BY GetPlaced
<1>3. CASE rd.pos < Len(data)
  <2>1. data[rd.pos + 1] # EOF
    BY <1>1, <1>3, TextFacts, CharFacts
  <2>2. QED
    BY <1>1, <1>2, <1>3, <2>1 DEF Fresh
<1>4. CASE ~(rd.pos < Len(data))
  BY <1>1, <1>2, <1>4 DEF Fresh
<1>5. QED
  BY <1>3, <1>4

\* And after reading on.
LEMMA WhileFresh ==
    ASSUME data \in Seq(Chars), NEW rd, Fresh(rd),
           NEW S, EOF \notin S, NEW n \in Int, NEW limit \in Int
    PROVE  /\ Fresh(ReadWhile(S, rd, n, limit).r)
           /\ rd.pos <= ReadWhile(S, rd, n, limit).r.pos
           /\ ReadWhile(S, rd, n, limit).n \in Int /\ n <= ReadWhile(S, rd, n, limit).n
<1>1. Placed(rd)
  BY DEF Fresh
<1>2. PICK k \in Nat : /\ ReadWhile(S, rd, n, limit).r = Reads(rd, k)
                       /\ ReadWhile(S, rd, n, limit).n = n + k
  BY <1>1, WhileReads
<1>3. rd.pos \in Nat /\ rd.pos <= Len(data) /\ Len(data) \in Nat /\ (rd.eof => rd.pos = Len(data))
  BY <1>1, PlacedFacts
<1> DEFINE f == Reads(rd, k)
<1>4. /\ Placed(f) /\ f.ch = Char(rd, k)
      /\ f.pos = IF rd.pos + k <= Len(data) THEN rd.pos + k ELSE Len(data)
      /\ f.eof <=> rd.eof \/ rd.pos + k > Len(data)
  BY <1>1, ReadsPlaced
<1>5. Char(rd, k) = IF k = 0 THEN rd.ch ELSE IF rd.pos + k <= Len(data) THEN data[rd.pos + k] ELSE EOF
  BY <1>1, AheadFacts
<1> HIDE DEF f
<1>6. Fresh(f)
  <2>1. CASE k = 0
    BY <1>3, <1>4, <1>5, <2>1 DEF Fresh
  <2>2. CASE k # 0 /\ rd.pos + k <= Len(data)
    BY <1>3, <1>4, <1>5, <2>2 DEF Fresh
  <2>3. CASE k # 0 /\ ~(rd.pos + k <= Len(data))
    BY <1>3, <1>4, <1>5, <2>3 DEF Fresh
  <2>4. QED
    BY <2>1, <2>2, <2>3
<1>7. rd.pos <= f.pos
  BY <1>3, <1>4
<1>8. QED
  BY <1>2, <1>6, <1>7 DEF f

\* Such a character can go back.
LEMMA UngetFresh ==
    ASSUME data \in Seq(Chars), NEW rd, Fresh(rd)
    PROVE  Placed(unget_char(rd))
<1>1. Placed(rd) /\ rd \in Readers /\ rd.line \in Int
  BY PlacedFacts DEF Fresh, Placed
<1>2. CASE rd.eof /\ rd.ch = EOF
  <2>1. Newline(EOF) = 0
    BY CharFacts DEF Newline
  <2>2. unget_char(rd) = rd
    BY <1>1, <1>2, <2>1 DEF unget_char, unget_keeping_line, Readers
  <2>3. QED
    BY <1>1, <2>2
<1>3. CASE ~rd.eof /\ 0 < rd.pos /\ rd.ch = data[rd.pos]
  <2>1. rd.pos \in Nat /\ rd.pos <= Len(data)
    BY <1>1, PlacedFacts
  <2>2. rd.ch # EOF
    BY <1>3, <2>1, TextFacts, CharFacts
  <2>3. QED
    BY <1>1, <1>3, <2>1, <2>2, UngetPlaced
<1>4. QED
  BY <1>2, <1>3 DEF Fresh

-----------------------------------------------------------------------------
(* The invariant.                                                          *)

Reports == [kind : {"garbage", "error", "eof"}, line : Nat, from : Nat, at : Nat]

\* What a diagnostic says, by its kind.
LineOf(d) ==
    CASE d.kind = "garbage" ->
           d.line = LineAt(d.at - 1) - (IF d.at <= Len(data) /\ data[d.at] = NL THEN 0 ELSE 1)
      [] d.kind = "error" ->
           d.line = LineAt(d.from) - (IF d.at <= Len(data) /\ d.at > 0 /\ data[d.at] = NL THEN 0 ELSE 1)
      [] OTHER -> d.line = LineAt(Len(data))

\* Between two lines nothing is given back, and the line counter is that of the reader's place.
ReaderInv ==
    /\ data \in Seq(Chars) /\ Placed(r) /\ garbage \in Nat
    /\ filepos \in 0 .. Len(data) /\ fileline = LineAt(filepos)

ReportInv ==
    /\ diagnostics \in Seq(Reports)
    /\ \A d \in Range(diagnostics) : LineOf(d)

\* Without a diagnostic every job was good, and the daemon's stop is the limits'.
CountInv ==
    /\ env_lines \in Nat /\ entry_lines \in Nat /\ entries \in Nat
    /\ diagnostics = << >> =>
         /\ check_syntax_counts = None /\ entries = entry_lines
         /\ load_user_stop # None <=> (env_lines > MAX_USER_ENVS \/ entry_lines > MAX_USER_ENTRIES)

Inv == ReaderInv /\ ReportInv /\ CountInv

-----------------------------------------------------------------------------
(* What the steps need.                                                    *)

\* A reader that is in its place stays so if the file stays.
LEMMA PlacedNext ==
    ASSUME NEW x, Placed(x), r' = x, data' = data
    PROVE  Placed(r)'
BY DEF Placed, Readers, LineAt, Given

\* Where a line begins stays so, too.
LEMMA LinesNext ==
    ASSUME data \in Seq(Chars), data' = data, NEW k \in 0 .. Len(data), filepos' = k, fileline' = LineAt(k)
    PROVE  /\ data' \in Seq(Chars) /\ (filepos \in 0 .. Len(data))' /\ (fileline = LineAt(filepos))'
BY DEF LineAt

\* A diagnostic of a true line is one more.
LEMMA ReportNext ==
    ASSUME ReportInv, data' = data, NEW d, d \in Reports, LineOf(d), diagnostics' = Append(diagnostics, d)
    PROVE  ReportInv' /\ diagnostics' # << >>
<1>1. diagnostics \in Seq(Reports) /\ Len(diagnostics) \in Nat
  BY LenProperties DEF ReportInv
<1>2. /\ diagnostics' \in Seq(Reports) /\ Len(diagnostics') = Len(diagnostics) + 1
      /\ \A i \in 1 .. Len(diagnostics) : diagnostics'[i] = diagnostics[i]
      /\ diagnostics'[Len(diagnostics) + 1] = d
  BY <1>1, AppendProperties
<1>3. DOMAIN diagnostics = 1 .. Len(diagnostics) /\ DOMAIN diagnostics' = 1 .. Len(diagnostics) + 1
  BY <1>1, <1>2, LenProperties
<1>4. ASSUME NEW e \in Range(diagnostics') PROVE LineOf(e)
  <2>1. PICK i \in 1 .. Len(diagnostics) + 1 : e = diagnostics'[i]
    BY <1>3, <1>4 DEF Range
  <2>2. CASE i \in 1 .. Len(diagnostics)
    <3>1. e \in Range(diagnostics)
      BY <1>2, <1>3, <2>1, <2>2 DEF Range
    <3>2. QED
      BY <3>1 DEF ReportInv
  <2>3. CASE i = Len(diagnostics) + 1
    BY <1>2, <2>1, <2>3
  <2>4. QED
    BY <1>1, <2>1, <2>2, <2>3
<1>5. ASSUME NEW e, LineOf(e) PROVE LineOf(e)'
  BY <1>5 DEF LineOf, LineAt
<1>6. \A e \in Range(diagnostics)' : LineOf(e)'
  BY <1>4, <1>5
<1>7. diagnostics' # << >>
  BY <1>1, <1>2
<1>8. QED
  BY <1>2, <1>6, <1>7 DEF ReportInv

\* Without one the others stay true.
LEMMA ReportsStay ==
    ASSUME ReportInv, data' = data, diagnostics' = diagnostics
    PROVE  ReportInv'
<1>1. ASSUME NEW e, LineOf(e) PROVE LineOf(e)'
  BY <1>1 DEF LineOf, LineAt
<1>2. QED
  BY <1>1 DEF ReportInv

\* The line of a reader in its place, as the diagnostics take it.
LEMMA PlacedLine ==
    ASSUME data \in Seq(Chars), NEW rd, Placed(rd)
    PROVE  /\ rd.line = LineAt(rd.pos) /\ tell(rd) = rd.pos
           /\ line_of(rd.line) = rd.line /\ line_of(rd.line - 1) = rd.line - 1
           /\ rd.line \in Nat /\ rd.line - 1 \in Nat
<1>1. rd.line = LineAt(rd.pos) /\ rd.back = << >>
  BY DEF Placed
<1>2. rd.line \in Int /\ rd.line >= 1 /\ rd.pos \in Nat
  BY PlacedFacts
<1>3. tell(rd) = rd.pos
  BY <1>1, <1>2 DEF tell
<1>4. ~(rd.line < 0) /\ ~(rd.line - 1 < 0)
  BY <1>2
<1>5. QED
  BY <1>1, <1>2, <1>3, <1>4 DEF line_of

\* Too much garbage ends at the reader's place.
LEMMA GarbageLine ==
    ASSUME data \in Seq(Chars), NEW rd, Placed(rd), 0 < rd.pos,
           NEW d, d = [kind |-> "garbage", line |-> line_of(rd.line - 1), from |-> 0,
                       at |-> IF rd.eof THEN Len(data) + 1 ELSE tell(rd)]
    PROVE  d \in Reports /\ LineOf(d)
<1>1. rd.pos \in Nat /\ Len(data) \in Nat /\ rd.pos <= Len(data) /\ (rd.eof => rd.pos = Len(data))
  BY PlacedFacts
<1>2. /\ rd.line = LineAt(rd.pos) /\ tell(rd) = rd.pos /\ line_of(rd.line - 1) = rd.line - 1
      /\ rd.line - 1 \in Nat
  BY PlacedLine
<1>3. d \in Reports
  BY <1>1, <1>2 DEF Reports
<1>4. d.kind = "garbage" /\ d.line = LineAt(rd.pos) - 1 /\ d.at = IF rd.eof THEN Len(data) + 1 ELSE rd.pos
  BY <1>2
<1>5. CASE rd.eof
  <2>1. d.at = Len(data) + 1 /\ ~(d.at <= Len(data)) /\ d.at - 1 = rd.pos
    BY <1>1, <1>4, <1>5
  <2>2. QED
    BY <1>3, <1>4, <2>1 DEF LineOf
<1>6. CASE ~rd.eof
  <2>1. d.at = rd.pos /\ d.at <= Len(data)
    BY <1>1, <1>4, <1>6
  <2> DEFINE p == rd.pos - 1
  <2>2. p \in 0 .. Len(data) /\ p < Len(data) /\ p + 1 = rd.pos
    BY <1>1
  <2>3. LineAt(p + 1) = LineAt(p) + Newline(data[p + 1]) /\ LineAt(p) \in Int
    <3> HIDE DEF p
    <3>1. QED
      BY <2>2, LineStep, LineFacts
  <2>4. LineAt(rd.pos) = LineAt(rd.pos - 1) + Newline(data[rd.pos]) /\ LineAt(rd.pos - 1) \in Int
    BY <2>2, <2>3
  <2>5. d.line = LineAt(d.at - 1) - (IF data[d.at] = NL THEN 0 ELSE 1)
    <3>1. CASE data[rd.pos] = NL
      BY <1>4, <2>1, <2>4, <3>1 DEF Newline
    <3>2. CASE data[rd.pos] # NL
      BY <1>4, <2>1, <2>4, <3>2 DEF Newline
    <3>3. QED
      BY <2>1, <3>1, <3>2
  <2>6. QED
    BY <1>3, <1>4, <2>1, <2>5 DEF LineOf
<1>7. QED
  BY <1>5, <1>6

\* A bad job is reported where it stood.
LEMMA ErrorLine ==
    ASSUME data \in Seq(Chars), NEW from \in 0 .. Len(data), NEW rd, Ended(rd, from),
           NEW d, d = [kind |-> "error", line |-> line_of(rd.line - 1), from |-> from,
                       at |-> IF rd.eof THEN Len(data) + 1 ELSE tell(rd)]
    PROVE  d \in Reports /\ LineOf(d)
<1>1. Placed(rd) /\ from \in Nat
  BY TextFacts DEF Ended, OnLine, Amid
<1>2. rd.pos \in Nat /\ Len(data) \in Nat /\ rd.pos <= Len(data) /\ rd.pos \in 0 .. Len(data)
  BY <1>1, PlacedFacts
<1>3. /\ rd.line = LineAt(rd.pos) /\ tell(rd) = rd.pos /\ line_of(rd.line - 1) = rd.line - 1
      /\ rd.line - 1 \in Nat
  BY <1>1, PlacedLine
<1>4. d \in Reports
  BY <1>1, <1>2, <1>3 DEF Reports
<1>5. /\ d.kind = "error" /\ d.line = LineAt(rd.pos) - 1 /\ d.from = from
      /\ d.at = IF rd.eof THEN Len(data) + 1 ELSE rd.pos
  BY <1>3
<1>6. LineAt(from) \in Int
  BY LineFacts
<1>7. ASSUME Amid(rd, from) PROVE LineAt(rd.pos) = LineAt(from)
  <2>1. from <= rd.pos /\ \A i \in from + 1 .. rd.pos : data[i] # NL
    BY <1>7 DEF Amid
  <2>2. rd.pos \in from .. Len(data)
    BY <1>1, <1>2, <2>1
  <2>3. QED
    BY <2>1, <2>2, SameLine
<1>8. CASE rd.eof /\ rd.ch = EOF /\ Amid(rd, from)
  <2>1. d.at = Len(data) + 1 /\ ~(d.at <= Len(data))
    BY <1>2, <1>5, <1>8
  <2>2. QED
    BY <1>4, <1>5, <1>7, <1>8, <2>1 DEF LineOf
<1>9. CASE OnLine(rd, from) /\ ~rd.eof /\ from < rd.pos /\ rd.ch = data[rd.pos]
  <2> DEFINE p == rd.pos - 1
  <2>1. p \in from .. Len(data) /\ p \in 0 .. Len(data) /\ p < Len(data) /\ p + 1 = rd.pos
    BY <1>1, <1>2, <1>9
  <2>2. \A i \in from + 1 .. p : data[i] # NL
    BY <1>9 DEF OnLine
  <2> HIDE DEF p
  <2>3. LineAt(p) = LineAt(from)
    BY <2>1, <2>2, SameLine
  <2>4. LineAt(rd.pos) = LineAt(from) + Newline(data[rd.pos])
    BY <2>1, <2>3, LineStep
  <2>5. d.at = rd.pos /\ d.at <= Len(data) /\ d.at > 0
    BY <1>1, <1>2, <1>5, <1>9
  <2>6. d.line = LineAt(d.from) - (IF data[d.at] = NL THEN 0 ELSE 1)
    <3>1. CASE data[rd.pos] = NL
      BY <1>5, <1>6, <2>4, <2>5, <3>1 DEF Newline
    <3>2. CASE data[rd.pos] # NL
      BY <1>5, <1>6, <2>4, <2>5, <3>2 DEF Newline
    <3>3. QED
      BY <2>5, <3>1, <3>2
  <2>7. QED
    BY <1>4, <1>5, <2>5, <2>6 DEF LineOf
<1>10. CASE Amid(rd, from) /\ ~rd.eof /\ from < rd.pos
  <2>1. d.at = rd.pos
    BY <1>5, <1>10
  <2>2. data[rd.pos] # NL
    BY <1>1, <1>2, <1>10 DEF Amid
  <2>3. LineAt(rd.pos) = LineAt(from)
    BY <1>7, <1>10
  <2>4. QED
    BY <1>4, <1>5, <2>1, <2>2, <2>3 DEF LineOf
<1>11. QED
  BY <1>8, <1>9, <1>10 DEF Ended, OnLine

\* Without a newline the file ends in its last line.
LEMMA EofLine ==
    ASSUME data \in Seq(Chars), NEW rd, Fresh(rd), rd.ch = EOF, NEW from \in Nat,
           NEW d, d = [kind |-> "eof", line |-> line_of(rd.line), from |-> from,
                       at |-> IF rd.eof THEN Len(data) + 1 ELSE tell(rd)]
    PROVE  d \in Reports /\ LineOf(d)
<1>1. Placed(rd)
  BY DEF Fresh
<1>2. rd.pos \in Nat /\ Len(data) \in Nat /\ rd.pos <= Len(data) /\ (rd.eof => rd.pos = Len(data))
  BY <1>1, PlacedFacts
<1>3. /\ rd.line = LineAt(rd.pos) /\ tell(rd) = rd.pos /\ line_of(rd.line) = rd.line /\ rd.line \in Nat
  BY <1>1, PlacedLine
<1>4. rd.eof
  <2>1. 0 < rd.pos => data[rd.pos] # EOF
    BY <1>2, TextFacts, CharFacts
  <2>2. QED
    BY <2>1 DEF Fresh
<1>5. d \in Reports
  BY <1>2, <1>3 DEF Reports
<1>6. d.kind = "eof" /\ d.line = LineAt(Len(data))
  BY <1>2, <1>3, <1>4
<1>7. QED
  BY <1>5, <1>6 DEF LineOf

-----------------------------------------------------------------------------
(* The steps.                                                              *)

\* The round of skip_comments that three actions share.
LEMMA Round ==
    ASSUME ParserAssumption, ReaderInv
    PROVE  LET first   == get_char(r)
               blanks  == ReadWhile({Blank}, first, garbage + 1, MAX_GARBAGE)
               comment == ReadWhile(Chars \ {NL}, blanks.r, blanks.n, MAX_GARBAGE)
           IN  /\ Fresh(first) /\ Fresh(blanks.r) /\ Fresh(comment.r)
               /\ blanks.n \in Nat /\ comment.n \in Nat
               /\ first.ch # EOF => 0 < first.pos /\ 0 < blanks.r.pos /\ 0 < comment.r.pos
<1> DEFINE S == {Blank}
           U == Chars \ {NL}
           first   == get_char(r)
           blanks  == ReadWhile(S, first, garbage + 1, MAX_GARBAGE)
           comment == ReadWhile(U, blanks.r, blanks.n, MAX_GARBAGE)
<1>1. EOF \notin S /\ EOF \notin U /\ MAX_GARBAGE \in Int /\ garbage \in Nat /\ garbage + 1 \in Int
  BY CharFacts DEF ParserAssumption, ReaderInv
<1>2. data \in Seq(Chars) /\ Placed(r)
  BY DEF ReaderInv
<1>3. r.pos \in Nat
  BY <1>2, PlacedFacts
<1>4. Fresh(first) /\ (first.ch # EOF => r.pos < first.pos)
  BY <1>2, GetFresh
<1> HIDE DEF S, U, first
<1>5. Fresh(blanks.r) /\ first.pos <= blanks.r.pos /\ blanks.n \in Int /\ garbage + 1 <= blanks.n
  BY <1>1, <1>2, <1>4, WhileFresh
<1> HIDE DEF blanks
<1>6. Fresh(comment.r) /\ blanks.r.pos <= comment.r.pos /\ comment.n \in Int /\ blanks.n <= comment.n
  BY <1>1, <1>2, <1>5, WhileFresh
<1> HIDE DEF comment
<1>7. first.pos \in Nat /\ blanks.r.pos \in Nat /\ comment.r.pos \in Nat
  BY <1>2, <1>4, <1>5, <1>6, PlacedFacts DEF Fresh
<1>8. blanks.n \in Nat /\ comment.n \in Nat
  BY <1>1, <1>5, <1>6
<1>9. first.ch # EOF => 0 < first.pos /\ 0 < blanks.r.pos /\ 0 < comment.r.pos
  BY <1>3, <1>4, <1>5, <1>6, <1>7
<1>10. QED
  BY <1>4, <1>5, <1>6, <1>8, <1>9 DEF comment, blanks, first, S, U

\* Where no line begins and nothing is counted or reported, the reader's place is all there is to show.
LEMMA OnlyReads ==
    ASSUME Inv, NEW x, Placed(x), r' = x, garbage' \in Nat,
           UNCHANGED <<data, filepos, fileline, lists, stops>>
    PROVE  Inv'
<1>1. Placed(r)'
  BY PlacedNext
<1>2. data \in Seq(Chars) /\ filepos \in 0 .. Len(data) /\ fileline = LineAt(filepos)
  BY DEF Inv, ReaderInv
<1>3. data' \in Seq(Chars) /\ (filepos \in 0 .. Len(data))' /\ (fileline = LineAt(filepos))'
  BY <1>2, LinesNext
<1>4. ReaderInv'
  BY <1>1, <1>3 DEF ReaderInv
<1>5. ReportInv'
  BY ReportsStay DEF Inv, stops
<1>6. CountInv'
  BY DEF Inv, CountInv, lists, stops
<1>7. QED
  BY <1>4, <1>5, <1>6 DEF Inv

\* A comment or a blank line, its newline with it (skip_comments).
LEMMA SkipLineKeeps ==
    ASSUME ParserAssumption, Inv, SkipLine
    PROVE  Inv'
<1> DEFINE first   == get_char(r)
           blanks  == ReadWhile({Blank}, first, garbage + 1, MAX_GARBAGE)
           comment == ReadWhile(Chars \ {NL}, blanks.r, blanks.n, MAX_GARBAGE)
<1>1. Fresh(comment.r) /\ comment.n \in Nat
  BY Round DEF Inv
<1>2. r' = comment.r /\ garbage' = comment.n /\ UNCHANGED <<data, filepos, fileline, lists, stops>>
  BY DEF SkipLine
<1> HIDE DEF comment
<1>3. Placed(comment.r) /\ garbage' \in Nat
  BY <1>1, <1>2 DEF Fresh
<1>4. QED
  BY <1>2, <1>3, OnlyReads

\* The last round of skip_comments gives the first character of a line back.
LEMMA EndOfCommentsKeeps ==
    ASSUME ParserAssumption, Inv, EndOfComments
    PROVE  Inv'
<1> DEFINE first   == get_char(r)
           blanks  == ReadWhile({Blank}, first, garbage + 1, MAX_GARBAGE)
<1>1. Fresh(first) /\ Fresh(blanks.r) /\ data \in Seq(Chars) /\ garbage \in Nat
  BY Round DEF Inv, ReaderInv
<1>2. r' = first \/ r' = unget_char(blanks.r)
  BY DEF EndOfComments
<1>3. garbage' = garbage /\ UNCHANGED <<data, filepos, fileline, lists, stops>>
  BY DEF EndOfComments
<1> HIDE DEF first, blanks
<1>4. Placed(r')
  <2>1. Placed(first) /\ Placed(unget_char(blanks.r))
    BY <1>1, UngetFresh DEF Fresh
  <2>2. QED
    BY <1>2, <2>1
<1>5. garbage' \in Nat
  BY <1>1, <1>3
<1>6. QED
  BY <1>2, <1>3, <1>5, <1>1, UngetFresh, OnlyReads DEF Fresh

\* The budget is spent: the diagnostic names the line of its last character, or the one before.
LEMMA TooMuchGarbageKeeps ==
    ASSUME ParserAssumption, Inv, TooMuchGarbage
    PROVE  Inv'
<1> DEFINE first   == get_char(r)
           blanks  == ReadWhile({Blank}, first, garbage + 1, MAX_GARBAGE)
           comment == ReadWhile(Chars \ {NL}, blanks.r, blanks.n, MAX_GARBAGE)
<1>1. /\ Fresh(blanks.r) /\ Fresh(comment.r) /\ data \in Seq(Chars)
      /\ first.ch # EOF => 0 < first.pos /\ 0 < blanks.r.pos /\ 0 < comment.r.pos
  BY Round DEF Inv, ReaderInv
<1>2. first.ch # EOF /\ (r' = blanks.r \/ r' = comment.r)
  BY DEF TooMuchGarbage
<1>3. Report("garbage", r'.line - 1, 0, r') /\ UNCHANGED <<data, garbage, filepos, fileline, lists>>
  BY DEF TooMuchGarbage
<1> HIDE DEF first, blanks, comment
<1>4. PICK x : r' = x /\ Placed(x) /\ 0 < x.pos
  BY <1>1, <1>2 DEF Fresh
<1> DEFINE d == [kind |-> "garbage", line |-> line_of(x.line - 1), from |-> 0,
                 at |-> IF x.eof THEN Len(data) + 1 ELSE tell(x)]
<1>5. d \in Reports /\ LineOf(d)
  BY <1>1, <1>4, GarbageLine
<1>6. diagnostics' = Append(diagnostics, d)
  BY <1>3, <1>4 DEF Report, tell
<1> HIDE DEF d
<1>7. ReportInv' /\ diagnostics' # << >>
  BY <1>3, <1>5, <1>6, ReportNext DEF Inv
<1>8. ReaderInv'
  <2>1. Placed(r)'
    BY <1>3, <1>4, PlacedNext
  <2>2. filepos \in 0 .. Len(data) /\ fileline = LineAt(filepos) /\ garbage \in Nat
    BY DEF Inv, ReaderInv
  <2>3. data' \in Seq(Chars) /\ (filepos \in 0 .. Len(data))' /\ (fileline = LineAt(filepos))'
    BY <1>1, <1>3, <2>2, LinesNext
  <2>4. QED
    BY <1>3, <2>1, <2>2, <2>3 DEF ReaderInv
<1>9. CountInv'
  BY <1>3, <1>7 DEF Inv, CountInv, lists
<1>10. QED
  BY <1>7, <1>8, <1>9 DEF Inv

\* load_env reads on from the beginning of a line and stays on it.
LEMMA ReadEnvstrKeeps ==
    ASSUME ParserAssumption, Inv, ReadEnvstr
    PROVE  Inv'
<1> DEFINE S == Chars \ ({NL} \cup {NUL})
           x == get_string(r, {NL}).r
<1>1. data \in Seq(Chars) /\ Placed(r) /\ garbage \in Nat
  BY DEF Inv, ReaderInv
<1>2. Fresh(x)
  <2>1. EOF \notin S /\ Unlimited \in Int
    BY <1>1, CharFacts, TextFacts DEF Unlimited
  <2>2. Fresh(get_char(r))
    BY <1>1, GetFresh
  <2>3. x = ReadWhile(S, get_char(r), 0, Unlimited).r
    BY DEF get_string
  <2> HIDE DEF S, x
  <2>4. QED
    BY <1>1, <2>1, <2>2, <2>3, WhileFresh
<1>3. r' = x
  BY DEF ReadEnvstr
<1>4. filepos' = tell(r) /\ fileline' = r.line /\ UNCHANGED <<data, garbage, lists>>
  BY DEF ReadEnvstr
<1>5. \/ Report("eof", r'.line, tell(r), r') /\ r'.ch = EOF /\ UNCHANGED load_user_stop
      \/ UNCHANGED stops
  BY DEF ReadEnvstr
<1> HIDE DEF x
<1>6. ReaderInv'
  <2>1. Placed(r)'
    BY <1>2, <1>3, <1>4, PlacedNext DEF Fresh
  <2>2. filepos' = r.pos /\ fileline' = LineAt(r.pos) /\ r.pos \in 0 .. Len(data)
    BY <1>1, <1>4, PlacedLine, PlacedFacts
  <2>3. data' \in Seq(Chars) /\ (filepos \in 0 .. Len(data))' /\ (fileline = LineAt(filepos))'
    BY <1>1, <1>4, <2>2, LinesNext
  <2>4. QED
    BY <1>1, <1>4, <2>1, <2>3 DEF ReaderInv
<1>7. CASE Report("eof", r'.line, tell(r), r') /\ r'.ch = EOF /\ UNCHANGED load_user_stop
  <2> DEFINE p == tell(r)
             d == [kind |-> "eof", line |-> line_of(x.line), from |-> p,
                   at |-> IF x.eof THEN Len(data) + 1 ELSE tell(x)]
  <2>1. p \in Nat
    BY <1>1, PlacedLine, PlacedFacts
  <2>2. diagnostics' = Append(diagnostics, d)
    BY <1>3, <1>7 DEF Report, tell
  <2>3. x.ch = EOF
    BY <1>3, <1>7
  <2> HIDE DEF p
  <2>4. d \in Reports /\ LineOf(d)
    BY <1>1, <1>2, <2>1, <2>3, EofLine
  <2> HIDE DEF d
  <2>5. ReportInv' /\ diagnostics' # << >>
    BY <1>4, <2>2, <2>4, ReportNext DEF Inv
  <2>6. CountInv'
    BY <1>4, <2>5 DEF Inv, CountInv, lists
  <2>7. QED
    BY <1>6, <2>5, <2>6 DEF Inv
<1>8. CASE UNCHANGED stops
  <2>1. ReportInv'
    BY <1>4, <1>8, ReportsStay DEF Inv, stops
  <2>2. CountInv'
    BY <1>4, <1>8 DEF Inv, CountInv, lists, stops
  <2>3. QED
    BY <1>6, <2>1, <2>2 DEF Inv
<1>9. QED
  BY <1>5, <1>7, <1>8

\* A setting is counted.
LEMMA LoadEnvKeeps ==
    ASSUME ParserAssumption, Inv, LoadEnv
    PROVE  Inv'
<1>1. /\ env_lines' = env_lines + 1 /\ stop_load_user(fileline, env_lines' > MAX_USER_ENVS)
      /\ garbage' = 0
      /\ UNCHANGED <<data, r, filepos, fileline, entry_lines, entries, diagnostics, check_syntax_counts>>
  BY DEF LoadEnv
<1>2. MAX_USER_ENVS \in Nat
  BY DEF ParserAssumption
<1>3. ReaderInv'
  BY <1>1 DEF Inv, ReaderInv, Placed, Readers, LineAt, Given
<1>4. ReportInv'
  BY <1>1, ReportsStay DEF Inv
<1>5. CountInv'
  <2>1. env_lines \in Nat /\ entry_lines \in Nat /\ entries \in Nat
    BY DEF Inv, CountInv
  <2>2. \A l : <<l>> # None
    BY DEF None
  <2>3. ASSUME diagnostics = << >>
        PROVE  load_user_stop' # None <=> (env_lines' > MAX_USER_ENVS \/ entry_lines > MAX_USER_ENTRIES)
    <3>1. load_user_stop # None <=> (env_lines > MAX_USER_ENVS \/ entry_lines > MAX_USER_ENTRIES)
      BY <2>3 DEF Inv, CountInv
    <3>2. env_lines > MAX_USER_ENVS => env_lines' > MAX_USER_ENVS
      BY <1>1, <1>2, <2>1
    <3>3. CASE env_lines' > MAX_USER_ENVS /\ load_user_stop = None
      BY <1>1, <2>2, <3>1, <3>3 DEF stop_load_user
    <3>4. CASE ~(env_lines' > MAX_USER_ENVS /\ load_user_stop = None)
      BY <1>1, <3>1, <3>2, <3>4 DEF stop_load_user
    <3>5. QED
      BY <3>3, <3>4
  <2>4. QED
    BY <1>1, <2>1, <2>3 DEF Inv, CountInv
<1>6. QED
  BY <1>3, <1>4, <1>5 DEF Inv

\* The line is read again from its beginning.
LEMMA RewoundAmid ==
    ASSUME ReaderInv
    PROVE  Amid(Rewound, filepos) /\ filepos \in Nat
<1>1. /\ data \in Seq(Chars) /\ r \in Readers /\ filepos \in 0 .. Len(data) /\ fileline = LineAt(filepos)
      /\ filepos \in Nat
  BY TextFacts DEF ReaderInv, Placed
<1>2. LineAt(filepos) \in Int
  BY <1>1, LineFacts
<1> DEFINE s == seek(r, filepos)
<1>3. << >> \in Seq(Chars)
  OBVIOUS
<1>4. s \in Readers /\ s.pos = filepos /\ s.back = << >> /\ s.eof = FALSE
  BY <1>1, <1>3 DEF seek, Readers
<1>5. Rewound = [s EXCEPT !.line = fileline]
  BY DEF Rewound
<1> HIDE DEF s
<1>6. /\ Rewound \in Readers /\ Rewound.pos = filepos /\ Rewound.back = << >> /\ Rewound.eof = FALSE
      /\ Rewound.line = LineAt(filepos)
  BY <1>1, <1>2, <1>4, <1>5 DEF Readers
<1>7. Placed(Rewound)
  BY <1>6 DEF Placed
<1>8. QED
  BY <1>1, <1>6, <1>7 DEF Amid

\* A line that is no setting is read again as a job, and counted or reported.
LEMMA LoadEntryKeeps ==
    ASSUME ParserAssumption, Inv, LoadEntry
    PROVE  Inv'
<1> DEFINE result == entry(get_char(Rewound))
           x == IF result.ok THEN result.r ELSE Discard(result.r)
<1>1. data \in Seq(Chars) /\ filepos \in 0 .. Len(data) /\ fileline = LineAt(filepos) /\ filepos \in Nat
  BY RewoundAmid DEF Inv, ReaderInv
<1>2. OnLine(result.r, filepos) \/ (~result.ok /\ Failed(result.r, filepos))
  <2>1. OnLine(get_char(Rewound), filepos)
    BY <1>1, RewoundAmid, AmidGet DEF Inv
  <2>2. QED
    BY <1>1, <2>1, EntryOnLine
<1>3. /\ r' = x /\ entry_lines' = entry_lines + 1 /\ stop_load_user(fileline, entry_lines' > MAX_USER_ENTRIES)
      /\ IF result.ok THEN entries' = entries + 1 /\ UNCHANGED <<diagnostics, check_syntax_counts>>
         ELSE entries' = entries /\ Report("error", r'.line - 1, filepos, r')
      /\ garbage' = 0 /\ UNCHANGED <<data, filepos, fileline, env_lines>>
  BY DEF LoadEntry
<1> HIDE DEF result
<1>4. ~result.ok => Ended(x, filepos)
  BY <1>1, <1>2, DiscardEnds DEF Failed
<1>5. Placed(x)
  BY <1>2, <1>4 DEF OnLine, Ended, Amid
<1> HIDE DEF x
<1>6. ReaderInv'
  <2>1. Placed(r)'
    BY <1>3, <1>5, PlacedNext
  <2>2. data' \in Seq(Chars) /\ (filepos \in 0 .. Len(data))' /\ (fileline = LineAt(filepos))'
    BY <1>1, <1>3, LinesNext
  <2>3. QED
    BY <1>3, <2>1, <2>2 DEF ReaderInv
<1>7. env_lines \in Nat /\ entry_lines \in Nat /\ entries \in Nat /\ MAX_USER_ENTRIES \in Nat
  BY DEF Inv, CountInv, ParserAssumption
<1>8. CASE ~result.ok
  <2> DEFINE d == [kind |-> "error", line |-> line_of(x.line - 1), from |-> filepos,
                   at |-> IF x.eof THEN Len(data) + 1 ELSE tell(x)]
  <2>1. diagnostics' = Append(diagnostics, d)
    BY <1>3, <1>8 DEF Report, tell
  <2>2. d \in Reports /\ LineOf(d)
    BY <1>1, <1>4, <1>8, ErrorLine
  <2> HIDE DEF d
  <2>3. ReportInv' /\ diagnostics' # << >>
    BY <1>3, <2>1, <2>2, ReportNext DEF Inv
  <2>4. CountInv'
    BY <1>3, <1>7, <1>8, <2>3 DEF CountInv
  <2>5. QED
    BY <1>6, <2>3, <2>4 DEF Inv
<1>9. CASE result.ok
  <2>1. ReportInv'
    BY <1>3, <1>9, ReportsStay DEF Inv
  <2>2. \A l : <<l>> # None
    BY DEF None
  <2>3. ASSUME diagnostics = << >>
        PROVE  load_user_stop' # None <=> (env_lines > MAX_USER_ENVS \/ entry_lines' > MAX_USER_ENTRIES)
    <3>1. load_user_stop # None <=> (env_lines > MAX_USER_ENVS \/ entry_lines > MAX_USER_ENTRIES)
      BY <2>3 DEF Inv, CountInv
    <3>2. entry_lines > MAX_USER_ENTRIES => entry_lines' > MAX_USER_ENTRIES
      BY <1>3, <1>7
    <3>3. CASE entry_lines' > MAX_USER_ENTRIES /\ load_user_stop = None
      BY <1>3, <2>2, <3>1, <3>3 DEF stop_load_user
    <3>4. CASE ~(entry_lines' > MAX_USER_ENTRIES /\ load_user_stop = None)
      BY <1>3, <3>1, <3>2, <3>4 DEF stop_load_user
    <3>5. QED
      BY <3>3, <3>4
  <2>4. CountInv'
    BY <1>3, <1>7, <1>9, <2>3 DEF Inv, CountInv
  <2>5. QED
    BY <1>6, <2>1, <2>4 DEF Inv
<1>10. QED
  BY <1>8, <1>9

-----------------------------------------------------------------------------
(* The results.                                                            *)

\* The file is at its beginning, and nothing has been read.
LEMMA InitKeeps ==
    ASSUME ParserAssumption, Init
    PROVE  Inv
<1>1. data \in Seq(Chars)
  BY DEF ParserAssumption, Init
<1>2. 0 \in 0 .. Len(data)
  BY <1>1, TextFacts
<1>3. LineAt(0) = 1
  <2>1. {i \in 1 .. 0 : data[i] = NL} = {}
    OBVIOUS
  <2>2. Cardinality({i \in 1 .. 0 : data[i] = NL}) = 0
    BY <2>1, FS_EmptySet
  <2>3. QED
    BY <2>2 DEF LineAt
<1>4. r = [ch |-> EOF, pos |-> 0, back |-> << >>, eof |-> FALSE, line |-> 1]
  BY DEF Init
<1>5. EOF \in Given /\ << >> \in Seq(Chars)
  BY DEF Given
<1>6. Placed(r)
  BY <1>2, <1>3, <1>4, <1>5 DEF Placed, Readers
<1>7. ReaderInv
  BY <1>1, <1>2, <1>3, <1>6 DEF ReaderInv, Init
<1>8. ReportInv
  <2>1. diagnostics = << >> /\ << >> \in Seq(Reports) /\ DOMAIN << >> = {}
    BY DEF Init
  <2>2. Range(diagnostics) = {}
    BY <2>1 DEF Range
  <2>3. QED
    BY <2>1, <2>2 DEF ReportInv
<1>9. CountInv
  <2>1. MAX_USER_ENVS \in Nat /\ MAX_USER_ENTRIES \in Nat
    BY DEF ParserAssumption
  <2>2. ~(0 > MAX_USER_ENVS) /\ ~(0 > MAX_USER_ENTRIES)
    BY <2>1
  <2>3. QED
    BY <2>2 DEF CountInv, Init
<1>10. QED
  BY <1>7, <1>8, <1>9 DEF Inv

\* Whatever a file holds and however its lines fail, between two lines the parser reads from where
\* its line counter says, and its counters and diagnostics agree.
THEOREM ParserInvariance == Spec => []Inv
<1>1. Init => Inv
  BY ParserAssumption, InitKeeps
<1>2. Inv /\ [Next]_vars => Inv'
  <2> SUFFICES ASSUME Inv, [Next]_vars PROVE Inv'
    OBVIOUS
  <2>1. CASE SkipLine
    BY <2>1, ParserAssumption, SkipLineKeeps
  <2>2. CASE EndOfComments
    BY <2>2, ParserAssumption, EndOfCommentsKeeps
  <2>3. CASE TooMuchGarbage
    BY <2>3, ParserAssumption, TooMuchGarbageKeeps
  <2>4. CASE ReadEnvstr
    BY <2>4, ParserAssumption, ReadEnvstrKeeps
  <2>5. CASE LoadEnv
    BY <2>5, ParserAssumption, LoadEnvKeeps
  <2>6. CASE LoadEntry
    BY <2>6, ParserAssumption, LoadEntryKeeps
  <2>7. CASE EnvTurn
    <3>1. r' = r /\ garbage' = garbage /\ UNCHANGED <<data, filepos, fileline, lists, stops>>
      BY <2>7 DEF EnvTurn
    <3>2. Placed(r) /\ garbage' \in Nat
      BY <3>1 DEF Inv, ReaderInv
    <3>3. QED
      BY <3>1, <3>2, OnlyReads
  <2>8. CASE UNCHANGED vars
    <3>1. r' = r /\ garbage' = garbage /\ UNCHANGED <<data, filepos, fileline, lists, stops>>
      BY <2>8 DEF vars
    <3>2. Placed(r) /\ garbage' \in Nat
      BY <3>1 DEF Inv, ReaderInv
    <3>3. QED
      BY <3>1, <3>2, OnlyReads
  <2>9. QED
    BY <2>1, <2>2, <2>3, <2>4, <2>5, <2>6, <2>7, <2>8 DEF Next
<1>3. QED
  BY <1>1, <1>2, PTL DEF Spec

\* Line numbers are those of the file, for every file and every limit (crontab.rs:302).
THEOREM LinesTrueHolds == Spec => []LinesTrue
<1>1. Inv => LinesTrue
  BY DEF Inv, ReaderInv, ReportInv, LineOf, LinesTrue
<1>2. QED
  BY <1>1, ParserInvariance, PTL

\* The daemon loads what crontab(1) accepts, with every job, for every file and every limit.
THEOREM CheckedIsLoadedHolds == Spec => []CheckedIsLoaded
<1>1. Inv => CheckedIsLoaded
  <2> SUFFICES ASSUME Inv, diagnostics = << >>
               PROVE  /\ check_syntax_limit(IF check_syntax_counts = None THEN <<env_lines, entries>>
                                            ELSE check_syntax_counts) <=> (load_user_stop # None)
                      /\ entries = entry_lines
    BY DEF CheckedIsLoaded
  <2>1. /\ check_syntax_counts = None /\ entries = entry_lines
        /\ load_user_stop # None <=> (env_lines > MAX_USER_ENVS \/ entry_lines > MAX_USER_ENTRIES)
    BY DEF Inv, CountInv
  <2>2. QED
    BY <2>1 DEF check_syntax_limit
<1>2. QED
  BY <1>1, ParserInvariance, PTL

-----------------------------------------------------------------------------
(* Texts and their parts.                                                  *)

\* The characters that load_env tells apart are different ones.
LEMMA MarkFacts ==
    /\ Blank # Quote /\ Blank # "=" /\ Quote # "=" /\ Blank # NUL /\ Quote # NUL /\ "=" # NUL
    /\ Blank \in Chars /\ Quote \in Chars /\ "=" \in Chars /\ NUL \in Chars
BY DEF Blank, Quote, NUL, Chars

\* A part of a text.
LEMMA Part ==
    ASSUME NEW S, NEW l \in Seq(S), NEW i \in Nat \ {0}, NEW j \in Nat, j <= Len(l)
    PROVE  /\ SubSeq(l, i, j) \in Seq(S)
           /\ Len(SubSeq(l, i, j)) = IF i <= j THEN j - i + 1 ELSE 0
           /\ \A x \in 1 .. j - i + 1 : SubSeq(l, i, j)[x] = l[i + x - 1]
<1>1. Len(l) \in Nat /\ \A x \in 1 .. Len(l) : l[x] \in S
  BY LenProperties, ElementOfSeq
<1>2. \A x \in i .. j : l[x] \in S
  BY <1>1
<1>3. QED
  BY <1>2, SubSeqProperties

\* A part of a part.
LEMMA PartOfPart ==
    ASSUME NEW S, NEW l \in Seq(S), NEW i \in Nat \ {0}, NEW j \in Nat, j <= Len(l),
           NEW a \in Nat \ {0}, NEW b \in Nat, i + b - 1 <= j
    PROVE  SubSeq(SubSeq(l, i, j), a, b) = SubSeq(l, i + a - 1, i + b - 1)
<1> DEFINE p == SubSeq(l, i, j)
           u == SubSeq(p, a, b)
           w == SubSeq(l, i + a - 1, i + b - 1)
<1>1. Len(l) \in Nat
  BY LenProperties
<1>2. CASE b < a
  <2>1. u = << >> /\ w = << >>
    BY <1>2, SubSeqEmpty
  <2>2. QED
    BY <2>1
<1>3. CASE a <= b
  <2>1. /\ p \in Seq(S) /\ Len(p) = j - i + 1 /\ b <= Len(p)
        /\ \A x \in 1 .. j - i + 1 : p[x] = l[i + x - 1]
    BY <1>1, <1>3, Part
  <2> HIDE DEF p
  <2>2. /\ u \in Seq(S) /\ Len(u) = b - a + 1
        /\ \A x \in 1 .. b - a + 1 : u[x] = p[a + x - 1]
    <3>1. /\ SubSeq(p, a, b) \in Seq(S)
          /\ Len(SubSeq(p, a, b)) = IF a <= b THEN b - a + 1 ELSE 0
          /\ \A x \in 1 .. b - a + 1 : SubSeq(p, a, b)[x] = p[a + x - 1]
      BY <2>1, Part
    <3>2. QED
      BY <1>3, <3>1
  <2>3. /\ w \in Seq(S) /\ Len(w) = b - a + 1
        /\ \A x \in 1 .. b - a + 1 : w[x] = l[i + a - 1 + x - 1]
    <3>1. i + a - 1 \in Nat \ {0} /\ i + b - 1 \in Nat /\ i + b - 1 <= Len(l)
      BY <1>1, <1>3
    <3>2. (i + b - 1) - (i + a - 1) + 1 = b - a + 1 /\ i + a - 1 <= i + b - 1
      BY <1>3
    <3>3. QED
      BY <3>1, <3>2, Part
  <2> HIDE DEF u, w
  <2>4. ASSUME NEW x \in 1 .. Len(u) PROVE u[x] = w[x]
    <3>1. x \in 1 .. b - a + 1 /\ a + x - 1 \in 1 .. j - i + 1 /\ i + (a + x - 1) - 1 = i + a - 1 + x - 1
      BY <1>3, <2>1, <2>2
    <3>2. u[x] = p[a + x - 1] /\ p[a + x - 1] = l[i + (a + x - 1) - 1]
      BY <2>1, <2>2, <3>1
    <3>3. w[x] = l[i + a - 1 + x - 1]
      BY <2>3, <3>1
    <3>4. QED
      BY <3>1, <3>2, <3>3
  <2>5. u = w
    BY <2>2, <2>3, <2>4, SeqEqual
  <2>6. QED
    BY <2>5 DEF u, w, p
<1>4. QED
  BY <1>2, <1>3

\* Where a text first has c.
LEMMA BeforeAt ==
    ASSUME NEW S, NEW l \in Seq(S), NEW c, NEW q \in 0 .. Len(l),
           \A i \in 1 .. q : l[i] # c, q < Len(l) => l[q + 1] = c
    PROVE  UpTo(l, c) = SubSeq(l, 1, q)
<1> DEFINE P(k) == (\A i \in 1 .. k : l[i] # c) /\ (k < Len(l) => l[k + 1] = c)
<1>1. Len(l) \in Nat
  BY LenProperties
<1>2. ASSUME NEW k \in 0 .. Len(l), P(k) PROVE k = q
  <2>1. ~(k < q)
    <3>1. k < q => k < Len(l) /\ k + 1 \in 1 .. q
      BY <1>1
    <3>2. QED
      BY <1>2, <3>1
  <2>2. ~(q < k)
    <3>1. q < k => q < Len(l) /\ q + 1 \in 1 .. k
      BY <1>1
    <3>2. QED
      BY <1>2, <3>1
  <2>3. QED
    BY <1>1, <2>1, <2>2
<1>3. P(q)
  OBVIOUS
<1>4. (CHOOSE k \in 0 .. Len(l) : P(k)) = q
  <2> HIDE DEF P
  <2>1. QED
    BY <1>2, <1>3
<1>5. QED
  BY <1>4 DEF UpTo

\* Where the blanks at the end of a text begin.
LEMMA TrimAt ==
    ASSUME NEW S, NEW l \in Seq(S), NEW q \in 0 .. Len(l),
           Blanks(l, q + 1, Len(l)), q > 0 => l[q] # Blank
    PROVE  Trim(l) = SubSeq(l, 1, q)
<1> DEFINE P(k) == Blanks(l, k + 1, Len(l)) /\ (k > 0 => l[k] # Blank)
<1>1. Len(l) \in Nat
  BY LenProperties
<1>2. ASSUME NEW k \in 0 .. Len(l), P(k) PROVE k = q
  <2>1. ~(k < q)
    <3>1. k < q => q > 0 /\ q \in k + 1 .. Len(l)
      BY <1>1
    <3>2. QED
      BY <1>2, <3>1 DEF Blanks
  <2>2. ~(q < k)
    <3>1. q < k => k > 0 /\ k \in q + 1 .. Len(l)
      BY <1>1
    <3>2. QED
      BY <1>2, <3>1 DEF Blanks
  <2>3. QED
    BY <1>1, <2>1, <2>2
<1>3. P(q)
  OBVIOUS
<1>4. (CHOOSE k \in 0 .. Len(l) : P(k)) = q
  <2> HIDE DEF P
  <2>1. QED
    BY <1>2, <1>3
<1>5. QED
  BY <1>4 DEF Trim

\* Where those at its beginning end.
LEMMA StripAt ==
    ASSUME NEW S, NEW l \in Seq(S), NEW q \in 1 .. Len(l) + 1,
           Blanks(l, 1, q - 1), q <= Len(l) => l[q] # Blank
    PROVE  Strip(l) = SubSeq(l, q, Len(l))
<1> DEFINE P(k) == Blanks(l, 1, k - 1) /\ (k <= Len(l) => l[k] # Blank)
<1>1. Len(l) \in Nat
  BY LenProperties
<1>2. ASSUME NEW k \in 1 .. Len(l) + 1, P(k) PROVE k = q
  <2>1. ~(k < q)
    <3>1. k < q => k <= Len(l) /\ k \in 1 .. q - 1
      BY <1>1
    <3>2. QED
      BY <1>2, <3>1 DEF Blanks
  <2>2. ~(q < k)
    <3>1. q < k => q <= Len(l) /\ q \in 1 .. k - 1
      BY <1>1
    <3>2. QED
      BY <1>2, <3>1 DEF Blanks
  <2>3. QED
    BY <1>1, <2>1, <2>2
<1>3. P(q)
  OBVIOUS
<1>4. (CHOOSE k \in 1 .. Len(l) + 1 : P(k)) = q
  <2> HIDE DEF P
  <2>1. QED
    BY <1>2, <1>3
<1>5. QED
  BY <1>4 DEF Strip

\* There is such a place before any other.
LEMMA LastOther ==
    ASSUME NEW l, NEW i \in Nat, NEW j \in Nat, i <= j
    PROVE  \E k \in i .. j : Blanks(l, k + 1, j) /\ (k > i => l[k] # Blank)
<1> DEFINE T == {d \in Nat : d <= j - i /\ (d < j - i => l[j - d] # Blank)}
<1>1. j - i \in T /\ T \in SUBSET Nat
  OBVIOUS
<1>2. PICK d \in T : \A x \in T : d <= x
  <2> HIDE DEF T
  <2>1. QED
    BY <1>1, FirstOfNaturals
<1>3. d \in Nat /\ d <= j - i /\ (d < j - i => l[j - d] # Blank)
  OBVIOUS
<1>4. ASSUME NEW x \in j - d + 1 .. j PROVE l[x] = Blank
  <2>1. j - x \in Nat /\ j - x < d /\ j - (j - x) = x /\ j - x < j - i
    BY <1>3, <1>4
  <2>2. j - x \notin T
    <3> HIDE DEF T
    <3>1. QED
      BY <1>2, <1>3, <2>1
  <2>3. QED
    BY <1>3, <2>1, <2>2
<1>5. j - d \in i .. j /\ Blanks(l, j - d + 1, j) /\ (j - d > i => l[j - d] # Blank)
  BY <1>3, <1>4 DEF Blanks
<1>6. QED
  BY <1>5

\* The assignment that a line is, by the places of its parts.
LEMMA AssignmentAt ==
    ASSUME NEW S, NEW l \in Seq(S), NEW q \in 1 .. Len(l), l[q] = "=", \A i \in 1 .. q - 1 : l[i] # "=",
           NEW k \in 0 .. q - 1, Blanks(l, k + 1, q - 1), k > 0 => l[k] # Blank,
           NEW j \in q + 1 .. Len(l) + 1, Blanks(l, q + 1, j - 1), j <= Len(l) => l[j] # Blank,
           NEW m \in j - 1 .. Len(l), Blanks(l, m + 1, Len(l)), m >= j => l[m] # Blank
    PROVE  Assignment(l) = Assigned(NameSays(SubSeq(l, 1, k)), ValueSays(SubSeq(l, j, m)))
<1> DEFINE n == Len(l)
           before == SubSeq(l, 1, q - 1)
           rest == SubSeq(l, q + 1, n)
           value == SubSeq(l, j, n)
<1>1. n \in Nat /\ DOMAIN l = 1 .. n
  BY LenProperties
<1>2. Has(l, "=")
  BY <1>1 DEF Has
<1>3. UpTo(l, "=") = before
  <2>1. q - 1 \in 0 .. Len(l) /\ (q - 1) + 1 = q
    BY <1>1
  <2>2. QED
    BY <2>1, BeforeAt
<1>4. /\ before \in Seq(S) /\ Len(before) = q - 1
      /\ \A x \in 1 .. q - 1 : before[x] = l[x]
  <2>1. q - 1 \in Nat /\ q - 1 <= n /\ (1 <= q - 1 => (q - 1) - 1 + 1 = q - 1) /\ (~(1 <= q - 1) => q - 1 = 0)
    BY <1>1
  <2>2. /\ before \in Seq(S) /\ Len(before) = IF 1 <= q - 1 THEN (q - 1) - 1 + 1 ELSE 0
        /\ \A x \in 1 .. (q - 1) - 1 + 1 : before[x] = l[1 + x - 1]
    BY <2>1, Part
  <2> HIDE DEF before
  <2>3. QED
    BY <2>1, <2>2
<1>5. Trim(before) = SubSeq(l, 1, k)
  <2> HIDE DEF before
  <2>1. k \in 0 .. Len(before) /\ Blanks(before, k + 1, Len(before)) /\ (k > 0 => before[k] # Blank)
    BY <1>1, <1>4 DEF Blanks
  <2>2. Trim(before) = SubSeq(before, 1, k)
    BY <1>4, <2>1, TrimAt
  <2>3. SubSeq(before, 1, k) = SubSeq(l, 1, k)
    <3>1. k \in Nat /\ q - 1 \in Nat /\ q - 1 <= n /\ 1 + k - 1 <= q - 1 /\ 1 + k - 1 = k /\ 1 + 1 - 1 = 1
      BY <1>1
    <3>2. SubSeq(SubSeq(l, 1, q - 1), 1, k) = SubSeq(l, 1 + 1 - 1, 1 + k - 1)
      BY <3>1, PartOfPart
    <3>3. QED
      BY <3>1, <3>2 DEF before
  <2>4. QED
    BY <2>2, <2>3
<1>6. /\ rest \in Seq(S) /\ Len(rest) = n - q
      /\ \A x \in 1 .. n - q : rest[x] = l[q + x]
  <2>0. q \in Nat /\ q <= n
    BY <1>1
  <2>1. q + 1 \in Nat \ {0} /\ n - (q + 1) + 1 = n - q
    BY <1>1, <2>0
  <2>6. ~(q + 1 <= n) => n - q = 0
    <3> HIDE DEF n
    <3>1. QED
      BY <1>1, <2>0
  <2>7. /\ rest \in Seq(S) /\ Len(rest) = IF q + 1 <= n THEN n - (q + 1) + 1 ELSE 0
        /\ \A x \in 1 .. n - (q + 1) + 1 : rest[x] = l[q + 1 + x - 1]
    <3>1. n <= Len(l)
      BY <1>1
    <3>2. QED
      BY <1>1, <2>1, <3>1, Part
  <2>2. /\ rest \in Seq(S) /\ Len(rest) = n - q
        /\ \A x \in 1 .. n - (q + 1) + 1 : rest[x] = l[q + 1 + x - 1]
    <3> HIDE DEF n, rest
    <3>1. QED
      BY <2>1, <2>6, <2>7
  <2> HIDE DEF rest
  <2>3. \A x \in 1 .. n - q : rest[x] = l[q + x]
    <3>1. \A x \in 1 .. n - q : q + 1 + x - 1 = q + x
      BY <1>1
    <3>2. QED
      BY <2>1, <2>2, <3>1
  <2>4. QED
    BY <2>1, <2>2, <2>3
<1>7. Strip(rest) = value
  <2>1. j - q \in 1 .. Len(rest) + 1 /\ Blanks(rest, 1, j - q - 1) /\ (j - q <= Len(rest) => rest[j - q] # Blank)
    <3> HIDE DEF rest
    <3>1. j - q \in 1 .. Len(rest) + 1
      BY <1>1, <1>6
    <3>2. \A x \in 1 .. j - q - 1 : x \in 1 .. n - q /\ q + x \in q + 1 .. j - 1
      BY <1>1
    <3>3. j - q <= Len(rest) => j - q \in 1 .. n - q /\ q + (j - q) = j /\ j <= n
      BY <1>1, <1>6
    <3>4. QED
      BY <1>6, <3>1, <3>2, <3>3 DEF Blanks
  <2>2. Strip(rest) = SubSeq(rest, j - q, Len(rest))
    <3> HIDE DEF rest
    <3>1. QED
      BY <1>6, <2>1, StripAt
  <2>3. /\ q + 1 \in Nat \ {0} /\ j - q \in Nat \ {0} /\ n - q \in Nat /\ q + 1 + (n - q) - 1 <= n
        /\ q + 1 + (j - q) - 1 = j /\ q + 1 + (n - q) - 1 = n
    BY <1>1
  <2>4. SubSeq(rest, j - q, n - q) = SubSeq(l, q + 1 + (j - q) - 1, q + 1 + (n - q) - 1)
    BY <1>1, <2>3, PartOfPart
  <2> HIDE DEF rest
  <2>5. QED
    BY <1>6, <2>2, <2>3, <2>4
<1>8. Trim(value) = SubSeq(l, j, m)
  <2>1. j \in Nat \ {0} /\ n <= Len(l) /\ (~(j <= n) => n - j + 1 = 0)
    BY <1>1
  <2>2. /\ value \in Seq(S) /\ Len(value) = n - j + 1
        /\ \A x \in 1 .. n - j + 1 : value[x] = l[j + x - 1]
    <3>1. /\ value \in Seq(S) /\ Len(value) = IF j <= n THEN n - j + 1 ELSE 0
          /\ \A x \in 1 .. n - j + 1 : value[x] = l[j + x - 1]
      BY <1>1, <2>1, Part
    <3> HIDE DEF value
    <3>2. QED
      BY <2>1, <3>1
  <2>3. Trim(value) = SubSeq(value, 1, m - j + 1)
    <3> HIDE DEF value
    <3>1. m - j + 1 \in 0 .. Len(value)
      BY <1>1, <2>2
    <3>2. \A x \in m - j + 1 + 1 .. Len(value) : x \in 1 .. n - j + 1 /\ j + x - 1 \in m + 1 .. Len(l)
      BY <1>1, <2>2
    <3>3. m - j + 1 > 0 => m - j + 1 \in 1 .. n - j + 1 /\ j + (m - j + 1) - 1 = m /\ m >= j
      BY <1>1
    <3>4. Blanks(value, m - j + 1 + 1, Len(value)) /\ (m - j + 1 > 0 => value[m - j + 1] # Blank)
      BY <2>2, <3>2, <3>3 DEF Blanks
    <3>5. QED
      BY <2>2, <3>1, <3>4, TrimAt
  <2>4. m - j + 1 \in Nat /\ j + (m - j + 1) - 1 <= n /\ j + (m - j + 1) - 1 = m /\ j + 1 - 1 = j /\ 1 \in Nat \ {0}
    BY <1>1
  <2>5. SubSeq(SubSeq(l, j, n), 1, m - j + 1) = SubSeq(l, j + 1 - 1, j + (m - j + 1) - 1)
    BY <1>1, <2>1, <2>4, PartOfPart
  <2> HIDE DEF value
  <2>6. QED
    BY <2>3, <2>4, <2>5 DEF value
<1>9. Len(before) + 2 = q + 1
  BY <1>1, <1>4
<1> HIDE DEF before, rest, value
<1>10. SubSeq(l, Len(before) + 2, Len(l)) = rest
  BY <1>9 DEF rest
<1>11. Trim(UpTo(l, "=")) = SubSeq(l, 1, k)
  BY <1>3, <1>5
<1>12. Trim(Strip(SubSeq(l, Len(UpTo(l, "=")) + 2, Len(l)))) = SubSeq(l, j, m)
  BY <1>3, <1>7, <1>8, <1>10
<1>13. QED
  BY <1>2, <1>11, <1>12 DEF Assignment

\* What a name and a value make together.
LEMMA AssignedFacts ==
    ASSUME NEW N, NEW V
    PROVE  /\ N = {} \/ V = {} => Assigned(N, V) = {}
           /\ \A x \in N, y \in V : x \o <<"=">> \o y \in Assigned(N, V)
BY DEF Assigned

\* What a part of a text holds.
LEMMA HasPart ==
    ASSUME NEW S, NEW l \in Seq(S), NEW i \in Nat \ {0}, NEW j \in Nat, j <= Len(l), NEW c
    PROVE  Has(SubSeq(l, i, j), c) <=> \E x \in i .. j : l[x] = c
<1> DEFINE u == SubSeq(l, i, j)
<1>1. /\ u \in Seq(S) /\ Len(u) = IF i <= j THEN j - i + 1 ELSE 0
      /\ \A x \in 1 .. j - i + 1 : u[x] = l[i + x - 1]
  BY Part
<1>2. DOMAIN u = 1 .. Len(u)
  <2> HIDE DEF u
  <2>1. QED
    BY <1>1, LenProperties
<1> HIDE DEF u
<1>3. ASSUME NEW x \in i .. j, l[x] = c PROVE Has(u, c)
  <2>1. x - i + 1 \in 1 .. j - i + 1 /\ i + (x - i + 1) - 1 = x /\ Len(u) = j - i + 1
    BY <1>1
  <2>2. x - i + 1 \in DOMAIN u /\ u[x - i + 1] = c
    BY <1>1, <1>2, <1>3, <2>1
  <2>3. QED
    BY <2>2 DEF Has
<1>4. ASSUME Has(u, c) PROVE \E x \in i .. j : l[x] = c
  <2>1. PICK y \in DOMAIN u : u[y] = c
    BY <1>4 DEF Has
  <2>2. y \in 1 .. j - i + 1
    BY <1>1, <1>2
  <2>3. i + y - 1 \in i .. j /\ l[i + y - 1] = c
    BY <1>1, <2>1, <2>2
  <2>4. QED
    BY <2>3
<1>5. QED
  BY <1>3, <1>4 DEF u

\* What it says, by its first and last character.
LEMMA Says ==
    ASSUME NEW S, NEW l \in Seq(S), NEW i \in Nat \ {0}, NEW j \in Nat, j <= Len(l)
    PROVE  LET u == SubSeq(l, i, j)
               quoted == i < j /\ l[i] = Quote /\ l[j] = Quote /\ \A x \in i + 1 .. j - 1 : l[x] # Quote
           IN  /\ quoted => Quoted(u) = {SubSeq(l, i + 1, j - 1)} /\ Plain(u) = {}
               /\ ~quoted /\ i <= j /\ l[i] = Quote => Quoted(u) = {} /\ Plain(u) = {}
               /\ (i <= j => l[i] # Quote) => Quoted(u) = {} /\ Plain(u) = {u}
<1> DEFINE u == SubSeq(l, i, j)
           inner == SubSeq(u, 2, Len(u) - 1)
           quoted == i < j /\ l[i] = Quote /\ l[j] = Quote /\ \A x \in i + 1 .. j - 1 : l[x] # Quote
<1>1. /\ u \in Seq(S) /\ Len(u) = IF i <= j THEN j - i + 1 ELSE 0
      /\ \A x \in 1 .. j - i + 1 : u[x] = l[i + x - 1]
  BY Part
<1>2. Len(l) \in Nat
  BY LenProperties
<1>3. i < j => inner = SubSeq(l, i + 1, j - 1)
  <2> SUFFICES ASSUME i < j PROVE inner = SubSeq(l, i + 1, j - 1)
    OBVIOUS
  <2>1. Len(u) - 1 = j - i
    <3> HIDE DEF u
    <3>1. QED
      BY <1>1
  <2>2. /\ j - i \in Nat /\ i + (j - i) - 1 <= j /\ i + (j - i) - 1 = j - 1 /\ i + 2 - 1 = i + 1
        /\ 2 \in Nat \ {0}
    BY <1>2
  <2>3. SubSeq(SubSeq(l, i, j), 2, j - i) = SubSeq(l, i + 2 - 1, i + (j - i) - 1)
    BY <2>2, PartOfPart
  <2>4. QED
    BY <2>1, <2>2, <2>3
<1>4. i < j => (Has(inner, Quote) <=> \E x \in i + 1 .. j - 1 : l[x] = Quote)
  <2> SUFFICES ASSUME i < j PROVE Has(inner, Quote) <=> \E x \in i + 1 .. j - 1 : l[x] = Quote
    OBVIOUS
  <2>1. i + 1 \in Nat \ {0} /\ j - 1 \in Nat /\ j - 1 <= Len(l)
    BY <1>2
  <2>2. Has(SubSeq(l, i + 1, j - 1), Quote) <=> \E x \in i + 1 .. j - 1 : l[x] = Quote
    BY <2>1, HasPart
  <2>3. QED
    BY <1>3, <2>2
<1> HIDE DEF u
<1>5. /\ i <= j => u # << >> /\ u[1] = l[i] /\ u[Len(u)] = l[j] /\ Len(u) = j - i + 1
      /\ ~(i <= j) => u = << >>
  <2>1. CASE i <= j
    <3>1. Len(u) = j - i + 1 /\ j - i + 1 \in 1 .. j - i + 1 /\ 1 \in 1 .. j - i + 1 /\ Len(u) # 0
      BY <1>1, <2>1
    <3>2. i + 1 - 1 = i /\ i + (j - i + 1) - 1 = j
      BY <2>1
    <3>3. u # << >>
      BY <3>1
    <3>4. QED
      BY <1>1, <2>1, <3>1, <3>2, <3>3
  <2>2. CASE ~(i <= j)
    BY <2>2, SubSeqEmpty DEF u
  <2>3. QED
    BY <2>1, <2>2
<1>6. (Len(u) > 1 /\ u[1] = Quote /\ u[Len(u)] = Quote /\ ~Has(inner, Quote)) <=> quoted
  <2>1. CASE i < j
    <3> HIDE DEF inner
    <3>1. i <= j /\ Len(u) > 1
      BY <1>5, <2>1
    <3>2. QED
      BY <1>4, <1>5, <2>1, <3>1
  <2>2. CASE ~(i < j)
    <3>1. Len(u) <= 1 /\ Len(u) \in Nat
      BY <1>1, <2>2
    <3>2. QED
      BY <2>2, <3>1
  <2>3. QED
    BY <2>1, <2>2
<1>7. Quoted(u) = IF quoted THEN {inner} ELSE {}
  <2> HIDE DEF quoted
  <2>1. QED
    BY <1>6 DEF Quoted
<1>8. Plain(u) = IF i <= j /\ l[i] = Quote THEN {} ELSE {u}
  BY <1>5 DEF Plain
<1>9. /\ quoted => Quoted(u) = {SubSeq(l, i + 1, j - 1)} /\ Plain(u) = {}
      /\ ~quoted /\ i <= j /\ l[i] = Quote => Quoted(u) = {} /\ Plain(u) = {}
      /\ (i <= j => l[i] # Quote) => Quoted(u) = {} /\ Plain(u) = {u}
  <2>1. (quoted => i < j /\ i <= j /\ l[i] = Quote)
    OBVIOUS
  <2> HIDE DEF quoted, inner
  <2>2. QED
    BY <1>3, <1>7, <1>8, <2>1
<1>10. QED
  BY <1>9 DEF u

\* A name.
LEMMA NameText ==
    ASSUME NEW S, NEW l \in Seq(S), NEW k \in Nat, k <= Len(l)
    PROVE  /\ k > 0 /\ l[1] = Quote
                /\ ~(k > 1 /\ l[k] = Quote /\ \A x \in 2 .. k - 1 : l[x] # Quote)
                => NameSays(SubSeq(l, 1, k)) = {}
           /\ (k > 0 => l[1] # Quote) /\ (\E x \in 1 .. k : l[x] = Blank) => NameSays(SubSeq(l, 1, k)) = {}
           /\ (k > 0 => l[1] # Quote) /\ (\A x \in 1 .. k : l[x] # Blank)
                => SubSeq(l, 1, k) \in NameSays(SubSeq(l, 1, k))
           /\ k > 1 /\ l[1] = Quote /\ l[k] = Quote /\ (\A x \in 2 .. k - 1 : l[x] # Quote)
                => SubSeq(l, 2, k - 1) \in NameSays(SubSeq(l, 1, k))
<1> DEFINE u == SubSeq(l, 1, k)
           quoted == 1 < k /\ l[1] = Quote /\ l[k] = Quote /\ \A x \in 1 + 1 .. k - 1 : l[x] # Quote
<1>1. /\ quoted => Quoted(u) = {SubSeq(l, 1 + 1, k - 1)} /\ Plain(u) = {}
      /\ ~quoted /\ 1 <= k /\ l[1] = Quote => Quoted(u) = {} /\ Plain(u) = {}
      /\ (1 <= k => l[1] # Quote) => Quoted(u) = {} /\ Plain(u) = {u}
  <2>1. 1 \in Nat \ {0}
    OBVIOUS
  <2>2. QED
    BY <2>1, Says
<1>2. Has(u, Blank) <=> \E x \in 1 .. k : l[x] = Blank
  BY HasPart
<1>3. (1 <= k <=> k > 0) /\ (1 < k <=> k > 1) /\ 1 + 1 = 2
  OBVIOUS
<1> HIDE DEF u
<1>4. QED
  BY <1>1, <1>2, <1>3 DEF NameSays, u

\* A value.
LEMMA ValueText ==
    ASSUME NEW S, NEW l \in Seq(S), NEW j \in Nat \ {0}, NEW m \in Nat, m <= Len(l)
    PROVE  /\ j <= m /\ l[j] = Quote /\ ~(j < m /\ l[m] = Quote /\ \A x \in j + 1 .. m - 1 : l[x] # Quote)
                => ValueSays(SubSeq(l, j, m)) = {}
           /\ (j <= m => l[j] # Quote) => SubSeq(l, j, m) \in ValueSays(SubSeq(l, j, m))
           /\ j < m /\ l[j] = Quote /\ l[m] = Quote /\ (\A x \in j + 1 .. m - 1 : l[x] # Quote)
                => SubSeq(l, j + 1, m - 1) \in ValueSays(SubSeq(l, j, m))
<1> DEFINE u == SubSeq(l, j, m)
           quoted == j < m /\ l[j] = Quote /\ l[m] = Quote /\ \A x \in j + 1 .. m - 1 : l[x] # Quote
<1>1. /\ quoted => Quoted(u) = {SubSeq(l, j + 1, m - 1)} /\ Plain(u) = {}
      /\ ~quoted /\ j <= m /\ l[j] = Quote => Quoted(u) = {} /\ Plain(u) = {}
      /\ (j <= m => l[j] # Quote) => Quoted(u) = {} /\ Plain(u) = {u}
  BY Says
<1> HIDE DEF u
<1>2. QED
  BY <1>1 DEF ValueSays, u

-----------------------------------------------------------------------------
(* load_env.                                                               *)

\* The first k characters of l are a name, and the first s - 1 of b what it says.
NameRead(l, b, k, s) ==
    \/ /\ s = k + 1 /\ (k > 0 => l[1] # Quote)
       /\ \A i \in 1 .. k : l[i] \notin {Blank, "="} /\ b[i] = l[i]
    \/ /\ s = k - 1 /\ k >= 2 /\ l[1] = Quote /\ l[k] = Quote
       /\ \A i \in 2 .. k - 1 : l[i] \notin {Quote, "="} /\ b[i - 1] = l[i]

\* The name ends at k, the equals sign is at q, and v is where the value goes.
Named(l, b, k, q, v) ==
    /\ k \in 0 .. q - 1 /\ v \in Nat /\ v > 1
    /\ NameRead(l, b, k, v - 1) /\ Blanks(l, k + 1, q - 1) /\ l[q] = "=" /\ b[v - 1] = "="

\* The value begins at j, behind blanks.
Valued(l, b, v, q, j) ==
    /\ q \in 1 .. j - 1 /\ j <= Len(l) /\ (\E k \in 0 .. q - 1 : Named(l, b, k, q, v))
    /\ Blanks(l, q + 1, j - 1)

\* The m characters of l from i are in b from v.
Copied(l, b, v, i, m) == \A x \in 0 .. m - 1 : b[v + x] = l[i + x]

\* What has been read when load_env is at c, has written up to s and knows v as val.
PlainName(l, b, c, s) == s = c /\ (Len(l) > 0 => l[1] # Quote) /\ NameRead(l, b, c - 1, c)

QuotedName(l, b, c, s) ==
    /\ c > 1 /\ s = c - 1 /\ l[1] = Quote
    /\ \A i \in 2 .. c - 1 : l[i] \notin {Quote, "="} /\ b[i - 1] = l[i]

BehindName(l, b, c, s) ==
    \E k \in 0 .. c - 1 : /\ NameRead(l, b, k, s) /\ Blanks(l, k + 1, c - 1)
                          /\ s = k + 1 => c > s \/ (c <= Len(l) /\ l[c] = "=")

BehindEquals(l, b, c, s, v) ==
    s = v /\ \E q \in 1 .. c - 1 : (\E k \in 0 .. q - 1 : Named(l, b, k, q, v)) /\ Blanks(l, q + 1, c - 1)

PlainValue(l, b, c, s, v) ==
    \E j \in 2 .. c : /\ \E q \in 1 .. j - 1 : Valued(l, b, v, q, j)
                      /\ l[j] \notin {Blank, Quote} /\ s = v + (c - j) /\ Copied(l, b, v, j, c - j)

QuotedValue(l, b, c, s, v) ==
    \E j \in 2 .. c - 1 : /\ \E q \in 1 .. j - 1 : Valued(l, b, v, q, j)
                          /\ l[j] = Quote /\ s = v + (c - j - 1) /\ Copied(l, b, v, j + 1, c - j - 1)
                          /\ \A i \in j + 1 .. c - 1 : l[i] # Quote

BehindValue(l, b, c, s, v) ==
    \E j \in 2 .. c - 1 : /\ \E q \in 1 .. j - 1 : Valued(l, b, v, q, j)
                          /\ \E w \in j + 1 .. c - 1 :
                               /\ l[j] = Quote /\ l[w] = Quote
                               /\ s = v + (w - j - 1) /\ Copied(l, b, v, j + 1, w - j - 1)
                               /\ \A i \in j + 1 .. w - 1 : l[i] # Quote
                               /\ Blanks(l, w + 1, c - 1)

\* Blanks have an end.
LEMMA FirstOther ==
    ASSUME NEW l, NEW i \in Nat, NEW n \in Nat, i <= n + 1
    PROVE  \E j \in i .. n + 1 : Blanks(l, i, j - 1) /\ (j <= n => l[j] # Blank)
<1> DEFINE T == {d \in Nat : i + d <= n + 1 /\ (i + d <= n => l[i + d] # Blank)}
<1>1. n + 1 - i \in T /\ T \in SUBSET Nat
  OBVIOUS
<1>2. PICK d \in T : \A x \in T : d <= x
  <2> HIDE DEF T
  <2>1. QED
    BY <1>1, FirstOfNaturals
<1>3. d \in Nat /\ i + d <= n + 1 /\ (i + d <= n => l[i + d] # Blank)
  OBVIOUS
<1>4. ASSUME NEW x \in i .. i + d - 1 PROVE l[x] = Blank
  <2>1. x - i \in Nat /\ x - i < d /\ i + (x - i) = x /\ x <= n
    BY <1>3, <1>4
  <2>2. x - i \notin T
    <3> HIDE DEF T
    <3>1. QED
      BY <1>2, <1>3, <2>1
  <2>3. QED
    BY <1>3, <2>1, <2>2
<1>5. i + d \in i .. n + 1 /\ Blanks(l, i, i + d - 1) /\ (i + d <= n => l[i + d] # Blank)
  BY <1>3, <1>4 DEF Blanks
<1>6. QED
  BY <1>5

\* A line without an equals sign is no assignment.
LEMMA NoEquals ==
    ASSUME NEW S, NEW l \in Seq(S), \A i \in 1 .. Len(l) : l[i] # "="
    PROVE  Assignment(l) = {}
<1>1. DOMAIN l = 1 .. Len(l)
  BY LenProperties
<1>2. ~Has(l, "=")
  BY <1>1 DEF Has
<1>3. QED
  BY <1>2 DEF Assignment

\* Without a name, or without a value, there is none.
LEMMA NameFails ==
    ASSUME NEW S, NEW l \in Seq(S), NEW q \in 1 .. Len(l), l[q] = "=", \A i \in 1 .. q - 1 : l[i] # "=",
           \A k \in 0 .. q - 1 : Blanks(l, k + 1, q - 1) /\ (k > 0 => l[k] # Blank)
                                   => NameSays(SubSeq(l, 1, k)) = {}
    PROVE  Assignment(l) = {}
<1>1. Len(l) \in Nat /\ q \in Nat /\ q - 1 \in Nat /\ q + 1 \in Nat /\ q + 1 <= Len(l) + 1
  BY LenProperties
<1>2. PICK k \in 0 .. q - 1 : Blanks(l, k + 1, q - 1) /\ (k > 0 => l[k] # Blank)
  <2>1. 0 \in Nat /\ 0 <= q - 1
    BY <1>1
  <2>2. QED
    BY <1>1, <2>1, LastOther
<1>3. PICK j \in q + 1 .. Len(l) + 1 : Blanks(l, q + 1, j - 1) /\ (j <= Len(l) => l[j] # Blank)
  BY <1>1, FirstOther
<1>4. j - 1 \in Nat /\ j - 1 <= Len(l)
  BY <1>1
<1>5. PICK m \in j - 1 .. Len(l) : Blanks(l, m + 1, Len(l)) /\ (m > j - 1 => l[m] # Blank)
  BY <1>1, <1>4, LastOther
<1>6. m >= j => l[m] # Blank
  BY <1>1, <1>5
<1>7. Assignment(l) = Assigned(NameSays(SubSeq(l, 1, k)), ValueSays(SubSeq(l, j, m)))
  BY <1>2, <1>3, <1>5, <1>6, AssignmentAt
<1>8. QED
  BY <1>2, <1>7, AssignedFacts

\* Nor is one whose value says nothing, whatever blanks are cut behind it.
LEMMA ValueFails ==
    ASSUME NEW S, NEW l \in Seq(S), NEW q \in 1 .. Len(l), l[q] = "=", \A i \in 1 .. q - 1 : l[i] # "=",
           NEW j \in q + 1 .. Len(l) + 1, Blanks(l, q + 1, j - 1), j <= Len(l) => l[j] # Blank,
           \A m \in j - 1 .. Len(l) : Blanks(l, m + 1, Len(l)) /\ (m >= j => l[m] # Blank)
                                        => ValueSays(SubSeq(l, j, m)) = {}
    PROVE  Assignment(l) = {}
<1>1. Len(l) \in Nat /\ q \in Nat /\ q - 1 \in Nat
  BY LenProperties
<1>2. PICK k \in 0 .. q - 1 : Blanks(l, k + 1, q - 1) /\ (k > 0 => l[k] # Blank)
  <2>1. 0 \in Nat /\ 0 <= q - 1
    BY <1>1
  <2>2. QED
    BY <1>1, <2>1, LastOther
<1>4. j - 1 \in Nat /\ j - 1 <= Len(l)
  BY <1>1
<1>5. PICK m \in j - 1 .. Len(l) : Blanks(l, m + 1, Len(l)) /\ (m > j - 1 => l[m] # Blank)
  BY <1>1, <1>4, LastOther
<1>6. m >= j => l[m] # Blank
  BY <1>1, <1>5
<1>7. Assignment(l) = Assigned(NameSays(SubSeq(l, 1, k)), ValueSays(SubSeq(l, j, m)))
  BY <1>2, <1>5, <1>6, AssignmentAt
<1>8. QED
  BY <1>5, <1>6, <1>7, AssignedFacts

\* The equals sign behind a name is the first of the line, and the name no blank's.
LEMMA NamedPlace ==
    ASSUME NEW l, NEW b, NEW q \in Nat, NEW k, NEW v, Named(l, b, k, q, v)
    PROVE  /\ l[q] = "=" /\ \A i \in 1 .. q - 1 : l[i] # "="
           /\ k > 0 => l[k] # Blank
<1>1. k \in 0 .. q - 1 /\ v \in Nat /\ NameRead(l, b, k, v - 1) /\ Blanks(l, k + 1, q - 1) /\ l[q] = "="
  BY DEF Named
<1>2. CASE \A i \in 1 .. k : l[i] \notin {Blank, "="} /\ b[i] = l[i]
  <2>1. k > 0 => k \in 1 .. k
    BY <1>1
  <2>2. \A i \in 1 .. q - 1 : i \in 1 .. k \/ i \in k + 1 .. q - 1
    BY <1>1
  <2>3. QED
    BY <1>1, <1>2, <2>1, <2>2, MarkFacts DEF Blanks
<1>3. CASE /\ k >= 2 /\ l[1] = Quote /\ l[k] = Quote
           /\ \A i \in 2 .. k - 1 : l[i] \notin {Quote, "="} /\ b[i - 1] = l[i]
  <2>1. \A i \in 1 .. q - 1 : i = 1 \/ i = k \/ i \in 2 .. k - 1 \/ i \in k + 1 .. q - 1
    BY <1>1, <1>3
  <2>2. QED
    BY <1>1, <1>3, <2>1, MarkFacts DEF Blanks
<1>4. QED
  BY <1>1, <1>2, <1>3 DEF NameRead

\* What the first k characters of l say as a name, and b holds before the equals sign at v - 1.
NamesRead(S, l, b, k, v) ==
    {x \in NameSays(SubSeq(l, 1, k)) : x \in Seq(S) /\ Len(x) = v - 2 /\ \A i \in 1 .. v - 2 : b[i] = x[i]}

\* The name that has been read is that of the line.
LEMMA NamedText ==
    ASSUME NEW S, NEW l \in Seq(S), NEW b, NEW q \in 1 .. Len(l), NEW k, NEW v, Named(l, b, k, q, v)
    PROVE  NamesRead(S, l, b, k, v) # {}
<1>1. /\ k \in 0 .. q - 1 /\ v \in Nat /\ v > 1 /\ NameRead(l, b, k, v - 1) /\ Blanks(l, k + 1, q - 1)
      /\ l[q] = "=" /\ b[v - 1] = "="
  BY DEF Named
<1>2. Len(l) \in Nat /\ k \in Nat /\ k <= Len(l) /\ q <= Len(l) /\ q \in Nat
  BY <1>1, LenProperties
<1>3. CASE /\ v - 1 = k + 1 /\ (k > 0 => l[1] # Quote)
           /\ \A i \in 1 .. k : l[i] \notin {Blank, "="} /\ b[i] = l[i]
  <2> DEFINE x == SubSeq(l, 1, k)
  <2>3. x \in NameSays(SubSeq(l, 1, k))
    <3>1. (k > 0 => l[1] # Quote) /\ \A i \in 1 .. k : l[i] # Blank
      BY <1>3
    <3>2. QED
      BY <1>2, <3>1, NameText
  <2>4. x \in Seq(S) /\ Len(x) = k /\ \A i \in 1 .. k : x[i] = l[i]
    <3>1. /\ x \in Seq(S) /\ Len(x) = IF 1 <= k THEN k - 1 + 1 ELSE 0
          /\ \A i \in 1 .. k - 1 + 1 : x[i] = l[1 + i - 1]
      BY <1>2, Part
    <3> HIDE DEF x
    <3>2. QED
      BY <1>2, <3>1
  <2> HIDE DEF x
  <2>5. v - 2 = k
    BY <1>1, <1>2, <1>3
  <2>6. QED
    BY <1>1, <1>3, <2>3, <2>4, <2>5 DEF NamesRead
<1>4. CASE /\ v - 1 = k - 1 /\ k >= 2 /\ l[1] = Quote /\ l[k] = Quote
           /\ \A i \in 2 .. k - 1 : l[i] \notin {Quote, "="} /\ b[i - 1] = l[i]
  <2> DEFINE x == SubSeq(l, 2, k - 1)
  <2>3. x \in NameSays(SubSeq(l, 1, k))
    <3>1. k > 1 /\ l[1] = Quote /\ l[k] = Quote /\ (\A i \in 2 .. k - 1 : l[i] # Quote)
      BY <1>2, <1>4
    <3>2. QED
      BY <1>2, <3>1, NameText
  <2>5. v - 2 = k - 2 /\ k - 1 \in Nat /\ k - 1 <= Len(l) /\ 2 \in Nat \ {0}
    BY <1>1, <1>2, <1>4
  <2>4. x \in Seq(S) /\ Len(x) = k - 2 /\ \A i \in 1 .. k - 2 : x[i] = l[i + 1]
    <3>1. /\ x \in Seq(S) /\ Len(x) = IF 2 <= k - 1 THEN (k - 1) - 2 + 1 ELSE 0
          /\ \A i \in 1 .. (k - 1) - 2 + 1 : x[i] = l[2 + i - 1]
      BY <2>5, Part
    <3> HIDE DEF x
    <3>2. (k - 1) - 2 + 1 = k - 2 /\ (~(2 <= k - 1) => k - 2 = 0) /\ \A i \in 1 .. k - 2 : 2 + i - 1 = i + 1
      BY <1>2, <1>4
    <3>3. QED
      BY <3>1, <3>2
  <2> HIDE DEF x
  <2>6. ASSUME NEW i \in 1 .. v - 2 PROVE b[i] = x[i]
    <3>1. i + 1 \in 2 .. k - 1 /\ (i + 1) - 1 = i /\ i \in 1 .. k - 2
      BY <1>2, <2>5
    <3>2. QED
      BY <1>4, <2>4, <3>1
  <2>7. QED
    BY <2>3, <2>4, <2>5, <2>6 DEF NamesRead
<1>5. QED
  BY <1>1, <1>3, <1>4 DEF NameRead

\* Two texts, one after the other.
LEMMA Joint ==
    ASSUME NEW S, NEW s \in Seq(S), NEW t \in Seq(S)
    PROVE  /\ s \o t \in Seq(S) /\ Len(s \o t) = Len(s) + Len(t)
           /\ \A i \in 1 .. Len(s) : (s \o t)[i] = s[i]
           /\ \A i \in 1 .. Len(t) : (s \o t)[Len(s) + i] = t[i]
<1>1. s \o t \in Seq(S) /\ Len(s \o t) = Len(s) + Len(t)
  BY ConcatProperties
<1>2. Len(s) \in Nat /\ Len(t) \in Nat
  BY LenProperties
<1>3. ASSUME NEW i \in 1 .. Len(s) PROVE (s \o t)[i] = s[i]
  <2>1. i \in 1 .. Len(s) + Len(t) /\ i <= Len(s)
    BY <1>2
  <2>2. QED
    BY <2>1, ConcatProperties
<1>4. ASSUME NEW i \in 1 .. Len(t) PROVE (s \o t)[Len(s) + i] = t[i]
  <2>1. Len(s) + i \in 1 .. Len(s) + Len(t) /\ ~(Len(s) + i <= Len(s)) /\ (Len(s) + i) - Len(s) = i
    BY <1>2
  <2>2. QED
    BY <2>1, ConcatProperties
<1>5. QED
  BY <1>1, <1>3, <1>4

\* The buffer holds a name, the equals sign and a value, up to its first NUL.
LEMMA BufferIs ==
    ASSUME NEW b \in Seq(Chars), NEW x \in Seq(Chars \ {NUL}), NEW y \in Seq(Chars \ {NUL}),
           \A i \in 1 .. Len(x) : b[i] = x[i], b[Len(x) + 1] = "=",
           \A i \in 1 .. Len(y) : b[Len(x) + 1 + i] = y[i],
           Len(x) + Len(y) + 2 <= Len(b), b[Len(x) + Len(y) + 2] = NUL
    PROVE  UpTo(b, NUL) = x \o <<"=">> \o y
<1> DEFINE C == Chars \ {NUL}
           e == <<"=">>
           z == x \o e
           t == z \o y
           n == Len(x) + Len(y) + 1
           u == SubSeq(b, 1, n)
<1>1. /\ Len(x) \in Nat /\ Len(y) \in Nat /\ Len(b) \in Nat
      /\ \A i \in 1 .. Len(x) : x[i] \in C
      /\ \A i \in 1 .. Len(y) : y[i] \in C
  BY LenProperties, ElementOfSeq
<1>2. e \in Seq(C) /\ Len(e) = 1 /\ e[1] = "=" /\ x \in Seq(C) /\ y \in Seq(C)
  BY MarkFacts
<1> HIDE DEF C, e
<1>3. /\ z \in Seq(C) /\ Len(z) = Len(x) + 1
      /\ \A i \in 1 .. Len(x) : z[i] = x[i]
      /\ z[Len(x) + 1] = "="
  <2>5. x \in Seq(C) /\ e \in Seq(C)
    BY <1>2
  <2>6. Len(z) = Len(x) + Len(e) /\ z \in Seq(C)
    BY <2>5, Joint
  <2>7. \A i \in 1 .. Len(x) : z[i] = x[i]
    BY <2>5, Joint
  <2>8. \A i \in 1 .. Len(e) : z[Len(x) + i] = e[i]
    BY <2>5, Joint
  <2> HIDE DEF z
  <2>2. QED
    BY <1>1, <1>2, <2>6, <2>7, <2>8
<1> HIDE DEF z
<1>4. /\ t \in Seq(C) /\ Len(t) = n
      /\ \A i \in 1 .. Len(x) : t[i] = x[i]
      /\ t[Len(x) + 1] = "="
      /\ \A i \in 1 .. Len(y) : t[Len(x) + 1 + i] = y[i]
  <2>5. z \in Seq(C) /\ y \in Seq(C)
    BY <1>2, <1>3
  <2>6. Len(t) = Len(z) + Len(y) /\ t \in Seq(C)
    BY <2>5, Joint
  <2>7. \A i \in 1 .. Len(z) : t[i] = z[i]
    BY <2>5, Joint
  <2>8. \A i \in 1 .. Len(y) : t[Len(z) + i] = y[i]
    BY <2>5, Joint
  <2> HIDE DEF t
  <2>2. QED
    BY <1>1, <1>3, <2>6, <2>7, <2>8
<1> HIDE DEF t
<1>5. ASSUME NEW i \in 1 .. n PROVE b[i] = t[i] /\ b[i] # NUL
  <2>1. CASE i \in 1 .. Len(x)
    BY <1>1, <1>4, <2>1 DEF C
  <2>2. CASE i = Len(x) + 1
    BY <1>4, <2>2, MarkFacts
  <2>3. CASE i \in Len(x) + 2 .. n
    <3>1. PICK a \in 1 .. Len(y) : i = Len(x) + 1 + a
      <4>1. i - Len(x) - 1 \in 1 .. Len(y) /\ Len(x) + 1 + (i - Len(x) - 1) = i
        BY <1>1, <2>3
      <4>2. QED
        BY <4>1
    <3>2. b[i] = y[a] /\ t[i] = y[a] /\ y[a] \in C
      BY <1>1, <1>4, <3>1
    <3>3. QED
      BY <3>2 DEF C
  <2>4. QED
    BY <1>1, <2>1, <2>2, <2>3
<1>6. n \in 0 .. Len(b) /\ n + 1 = Len(x) + Len(y) + 2 /\ n \in Nat /\ 1 <= n /\ n - 1 + 1 = n
  BY <1>1
<1>7. UpTo(b, NUL) = u
  <2> HIDE DEF n
  <2>1. (\A i \in 1 .. n : b[i] # NUL) /\ (n < Len(b) => b[n + 1] = NUL)
    BY <1>5, <1>6
  <2>2. UpTo(b, NUL) = SubSeq(b, 1, n)
    BY <1>6, <2>1, BeforeAt
  <2>3. QED
    BY <2>2
<1>8. u \in Seq(Chars) /\ Len(u) = n /\ \A i \in 1 .. n : u[i] = b[i]
  <2> HIDE DEF n
  <2>1. /\ u \in Seq(Chars) /\ Len(u) = IF 1 <= n THEN n - 1 + 1 ELSE 0
        /\ \A i \in 1 .. n - 1 + 1 : u[i] = b[1 + i - 1]
    BY <1>6, Part
  <2> HIDE DEF u
  <2>2. \A i \in 1 .. n : 1 + i - 1 = i
    BY <1>6
  <2>3. QED
    BY <1>6, <2>1, <2>2
<1> HIDE DEF u, n
<1>9. t \in Seq(Chars)
  <2>1. C \subseteq Chars
    BY DEF C
  <2>2. QED
    BY <1>4, <2>1
<1>10. u = t
  <2>1. Len(u) = Len(t) /\ \A i \in 1 .. Len(u) : u[i] = t[i]
    BY <1>4, <1>5, <1>8
  <2>2. QED
    BY <1>8, <1>9, <2>1, SeqEqual
<1>11. QED
  BY <1>7, <1>10 DEF t, z, e

-----------------------------------------------------------------------------
(* What a turn of load_env does to what has been read.                     *)

\* Writing behind what is known leaves it known.
LEMMA NameKept ==
    ASSUME NEW l, NEW k \in Nat, NEW s \in Nat, NEW b, NameRead(l, b, k, s),
           NEW f, \A i \in 1 .. s - 1 : f[i] = b[i]
    PROVE  NameRead(l, f, k, s)
<1>1. CASE /\ s = k + 1 /\ (k > 0 => l[1] # Quote)
           /\ \A i \in 1 .. k : l[i] \notin {Blank, "="} /\ b[i] = l[i]
  <2>1. s - 1 = k
    BY <1>1
  <2>2. QED
    BY <1>1, <2>1 DEF NameRead
<1>2. CASE /\ s = k - 1 /\ k >= 2 /\ l[1] = Quote /\ l[k] = Quote
           /\ \A i \in 2 .. k - 1 : l[i] \notin {Quote, "="} /\ b[i - 1] = l[i]
  <2>1. \A i \in 2 .. k - 1 : i - 1 \in 1 .. s - 1
    BY <1>2
  <2>2. QED
    BY <1>2, <2>1 DEF NameRead
<1>3. QED
  BY <1>1, <1>2 DEF NameRead

\* A name that was read stays read while the buffer changes behind it.
LEMMA NamedKept ==
    ASSUME NEW l, NEW k, NEW q \in Nat, NEW v, NEW b, Named(l, b, k, q, v),
           NEW f, \A i \in 1 .. v - 1 : f[i] = b[i]
    PROVE  Named(l, f, k, q, v)
<1>1. k \in Nat /\ v \in Nat /\ v > 1 /\ v - 1 \in Nat /\ v - 1 \in 1 .. v - 1 /\ NameRead(l, b, k, v - 1)
  BY DEF Named
<1>2. \A i \in 1 .. (v - 1) - 1 : f[i] = b[i]
  BY <1>1
<1>3. NameRead(l, f, k, v - 1)
  BY <1>1, <1>2, NameKept
<1>4. QED
  BY <1>1, <1>3 DEF Named

\* And so does the name before a value.
LEMMA ValuedKept ==
    ASSUME NEW l, NEW j \in Nat, NEW q, NEW v, NEW b, Valued(l, b, v, q, j),
           NEW f, \A i \in 1 .. v - 1 : f[i] = b[i]
    PROVE  Valued(l, f, v, q, j) /\ v \in Nat /\ v > 1
<1>1. q \in Nat
  BY DEF Valued
<1>2. PICK k \in 0 .. q - 1 : Named(l, b, k, q, v)
  BY DEF Valued
<1>3. Named(l, f, k, q, v)
  BY <1>1, <1>2, NamedKept
<1>4. v \in Nat /\ v > 1
  BY <1>2 DEF Named
<1>5. QED
  BY <1>2, <1>3, <1>4 DEF Valued

\* A name.
LEMMA NameGoesOn ==
    ASSUME NEW l, Len(l) \in Nat, NEW c \in Nat \ {0}, c <= Len(l), NEW b, PlainName(l, b, c, c),
           l[c] \notin {Blank, "="},
           NEW f, \A i \in 1 .. c - 1 : f[i] = b[i], f[c] = l[c]
    PROVE  PlainName(l, f, c + 1, c + 1)
<1>1. /\ Len(l) > 0 /\ l[1] # Quote /\ \A i \in 1 .. c - 1 : l[i] \notin {Blank, "="} /\ b[i] = l[i]
  BY DEF PlainName, NameRead
<1>2. \A i \in 1 .. c : l[i] \notin {Blank, "="} /\ f[i] = l[i]
  <2>1. \A i \in 1 .. c : i \in 1 .. c - 1 \/ i = c
    OBVIOUS
  <2>2. QED
    BY <1>1, <2>1
<1>3. (c + 1) - 1 = c /\ c + 1 = c + 1
  OBVIOUS
<1>4. QED
  BY <1>1, <1>2, <1>3 DEF PlainName, NameRead

\* A plain name ends at a blank or at the equals sign.
LEMMA NameEnds ==
    ASSUME NEW l, NEW c \in Nat \ {0}, c <= Len(l), NEW b, PlainName(l, b, c, c)
    PROVE  /\ l[c] = Blank => BehindName(l, b, c + 1, c)
           /\ l[c] = "=" => BehindName(l, b, c, c)
<1>1. NameRead(l, b, c - 1, c)
  BY DEF PlainName
<1>2. /\ c - 1 \in 0 .. c - 1 /\ c - 1 \in 0 .. (c + 1) - 1 /\ (c - 1) + 1 = c /\ (c + 1) - 1 = c /\ c + 1 > c
  OBVIOUS
<1>3. l[c] = Blank => Blanks(l, c, c)
  BY DEF Blanks
<1>4. Blanks(l, c, c - 1)
  BY DEF Blanks
<1>5. QED
  BY <1>1, <1>2, <1>3, <1>4 DEF BehindName

\* A quoted one.
LEMMA QuotedNameGoesOn ==
    ASSUME NEW l, NEW c \in Nat, NEW s, NEW b, QuotedName(l, b, c, s), l[c] \notin {Quote, "="},
           NEW f, \A i \in 1 .. s - 1 : f[i] = b[i], f[s] = l[c]
    PROVE  QuotedName(l, f, c + 1, s + 1)
<1>1. /\ c > 1 /\ s = c - 1 /\ l[1] = Quote
      /\ \A i \in 2 .. c - 1 : l[i] \notin {Quote, "="} /\ b[i - 1] = l[i]
  BY DEF QuotedName
<1>2. ASSUME NEW i \in 2 .. (c + 1) - 1 PROVE l[i] \notin {Quote, "="} /\ f[i - 1] = l[i]
  <2>1. CASE i = c
    BY <1>1, <2>1
  <2>2. CASE i \in 2 .. c - 1
    <3>1. i - 1 \in 1 .. s - 1
      BY <1>1, <2>2
    <3>2. QED
      BY <1>1, <2>2, <3>1
  <2>3. QED
    BY <2>1, <2>2
<1>3. c + 1 > 1 /\ s + 1 = (c + 1) - 1
  BY <1>1
<1>4. QED
  BY <1>1, <1>2, <1>3 DEF QuotedName

\* A quoted one at its quote.
LEMMA QuotedNameEnds ==
    ASSUME NEW l, NEW c \in Nat, NEW s, NEW b, QuotedName(l, b, c, s), l[c] = Quote
    PROVE  BehindName(l, b, c + 1, s)
<1>1. /\ c > 1 /\ s = c - 1 /\ l[1] = Quote
      /\ \A i \in 2 .. c - 1 : l[i] \notin {Quote, "="} /\ b[i - 1] = l[i]
  BY DEF QuotedName
<1>2. NameRead(l, b, c, s)
  BY <1>1 DEF NameRead
<1>3. c \in 0 .. (c + 1) - 1 /\ s # c + 1
  BY <1>1
<1>4. Blanks(l, c + 1, (c + 1) - 1)
  BY DEF Blanks
<1>5. QED
  BY <1>2, <1>3, <1>4 DEF BehindName

\* An equals sign cannot be quoted.
LEMMA QuotedNameFails ==
    ASSUME NEW S, NEW l \in Seq(S), NEW c \in Nat, c <= Len(l), NEW s, NEW b, QuotedName(l, b, c, s), l[c] = "="
    PROVE  Assignment(l) = {}
<1>1. c > 1 /\ l[1] = Quote /\ \A i \in 2 .. c - 1 : l[i] \notin {Quote, "="}
  BY DEF QuotedName
<1>2. c \in 1 .. Len(l) /\ Len(l) \in Nat
  BY <1>1, LenProperties
<1>3. \A i \in 1 .. c - 1 : l[i] # "="
  <2>1. \A i \in 1 .. c - 1 : i = 1 \/ i \in 2 .. c - 1
    BY <1>1
  <2>2. QED
    BY <1>1, <2>1, MarkFacts
<1>4. ASSUME NEW k \in 0 .. c - 1, Blanks(l, k + 1, c - 1) PROVE NameSays(SubSeq(l, 1, k)) = {}
  <2>1. k > 0
    <3>1. 1 \in 1 .. c - 1
      BY <1>1
    <3>2. k = 0 => l[1] = Blank
      BY <1>4, <3>1 DEF Blanks
    <3>3. QED
      BY <1>1, <3>2, MarkFacts
  <2>2. ~(k > 1 /\ l[k] = Quote /\ \A x \in 2 .. k - 1 : l[x] # Quote)
    <3>1. k > 1 => k \in 2 .. c - 1
      OBVIOUS
    <3>2. QED
      BY <1>1, <3>1
  <2>3. k \in Nat /\ k <= Len(l)
    BY <1>2
  <2>4. QED
    BY <1>1, <2>1, <2>2, <2>3, NameText
<1>5. QED
  BY <1>2, <1>3, <1>4, NameFails

\* Behind a name come blanks and the equals sign.
LEMMA BehindNameGoesOn ==
    ASSUME NEW l, Len(l) \in Nat, NEW c \in Nat, c <= Len(l), NEW s \in Nat, NEW b, BehindName(l, b, c, s), l[c] = Blank
    PROVE  BehindName(l, b, c + 1, s)
<1>1. PICK k \in 0 .. c - 1 : /\ NameRead(l, b, k, s) /\ Blanks(l, k + 1, c - 1)
                              /\ s = k + 1 => c > s \/ (c <= Len(l) /\ l[c] = "=")
  BY DEF BehindName
<1>2. k \in 0 .. (c + 1) - 1 /\ (c > s => c + 1 > s) /\ (c + 1) - 1 = c
  OBVIOUS
<1>3. Blanks(l, k + 1, c)
  <2>1. \A x \in k + 1 .. c : x \in k + 1 .. c - 1 \/ x = c
    OBVIOUS
  <2>2. QED
    BY <1>1, <2>1 DEF Blanks
<1>4. s = k + 1 => c + 1 > s
  BY <1>1, <1>2, MarkFacts
<1>5. QED
  BY <1>1, <1>2, <1>3, <1>4 DEF BehindName

\* The equals sign ends the blanks behind a name.
LEMMA BehindNameEnds ==
    ASSUME NEW l, NEW c \in Nat \ {0}, NEW s \in Nat, NEW b, s > 0, BehindName(l, b, c, s), l[c] = "=",
           NEW f, \A i \in 1 .. s - 1 : f[i] = b[i], f[s] = "="
    PROVE  BehindEquals(l, f, c + 1, s + 1, s + 1)
<1>1. PICK k \in 0 .. c - 1 : NameRead(l, b, k, s) /\ Blanks(l, k + 1, c - 1)
  BY DEF BehindName
<1>2. NameRead(l, f, k, s)
  BY <1>1, NameKept
<1>3. (s + 1) - 1 = s /\ s + 1 > 1 /\ s + 1 \in Nat
  OBVIOUS
<1>4. Named(l, f, k, c, s + 1)
  BY <1>1, <1>2, <1>3 DEF Named
<1>5. c \in 1 .. (c + 1) - 1 /\ Blanks(l, c + 1, (c + 1) - 1)
  BY DEF Blanks
<1>6. QED
  BY <1>4, <1>5 DEF BehindEquals

\* Nothing else can.
LEMMA BehindNameFails ==
    ASSUME NEW S, NEW l \in Seq(S), NEW c \in Nat \ {0}, c <= Len(l), NEW s, NEW b, BehindName(l, b, c, s),
           l[c] \notin {Blank, "="}
    PROVE  Assignment(l) = {}
<1>1. PICK k \in 0 .. c - 1 : /\ NameRead(l, b, k, s) /\ Blanks(l, k + 1, c - 1)
                              /\ s = k + 1 => c > s
  BY DEF BehindName
<1>2. Len(l) \in Nat /\ k \in Nat
  BY LenProperties
<1>3. ASSUME NEW i \in 1 .. c PROVE l[i] # "="
  <2>1. CASE i \in 1 .. k
    <3>1. CASE \A x \in 1 .. k : l[x] \notin {Blank, "="} /\ b[x] = l[x]
      BY <2>1, <3>1
    <3>2. CASE /\ l[1] = Quote /\ l[k] = Quote
               /\ \A x \in 2 .. k - 1 : l[x] \notin {Quote, "="} /\ b[x - 1] = l[x]
      <4>1. i = 1 \/ i = k \/ i \in 2 .. k - 1
        BY <2>1
      <4>2. QED
        BY <3>2, <4>1, MarkFacts
    <3>3. QED
      BY <1>1, <3>1, <3>2 DEF NameRead
  <2>2. CASE i \in k + 1 .. c - 1
    BY <1>1, <2>2, MarkFacts DEF Blanks
  <2>3. CASE i = c
    BY <2>3
  <2>4. QED
    BY <1>2, <2>1, <2>2, <2>3
<1>4. CASE \A i \in 1 .. Len(l) : l[i] # "="
  BY <1>4, NoEquals
<1>5. CASE ~\A i \in 1 .. Len(l) : l[i] # "="
  <2> DEFINE T == {i \in 1 .. Len(l) : l[i] = "="}
  <2>1. T # {} /\ T \in SUBSET Nat
    BY <1>5
  <2>2. PICK q \in T : \A x \in T : q <= x
    <3> HIDE DEF T
    <3>1. QED
      BY <2>1, FirstOfNaturals
  <2>3. q \in 1 .. Len(l) /\ l[q] = "="
    OBVIOUS
  <2>4. \A i \in 1 .. q - 1 : l[i] # "="
    <3>1. \A i \in 1 .. q - 1 : i \in 1 .. Len(l) /\ ~(q <= i)
      BY <1>2, <2>3
    <3>2. QED
      BY <2>2, <3>1
  <2>5. c < q
    <3>1. q \notin 1 .. c
      BY <1>3, <2>3
    <3>2. QED
      BY <2>3, <3>1
  <2> HIDE DEF T
  <2>6. ASSUME NEW a \in 0 .. q - 1, Blanks(l, a + 1, q - 1) PROVE NameSays(SubSeq(l, 1, a)) = {}
    <3>1. c <= a
      <4>1. c \notin a + 1 .. q - 1
        BY <2>6 DEF Blanks
      <4>2. QED
        BY <2>3, <2>5, <4>1
    <3>2. a \in Nat /\ a <= Len(l) /\ a > 0
      BY <1>2, <2>3, <3>1
    <3>3. CASE s = k + 1 /\ (k > 0 => l[1] # Quote)
      <4>1. k + 1 \in k + 1 .. c - 1 /\ k + 1 \in 1 .. a
        BY <1>1, <1>2, <3>1, <3>3
      <4>2. l[k + 1] = Blank
        BY <1>1, <4>1 DEF Blanks
      <4>3. l[1] # Quote
        <5>1. k = 0 => l[1] = Blank
          BY <4>2
        <5>2. QED
          BY <1>2, <3>3, <5>1, MarkFacts
      <4>4. QED
        BY <3>2, <4>1, <4>2, <4>3, NameText
    <3>4. CASE k >= 2 /\ l[1] = Quote /\ l[k] = Quote
      <4>1. k \in 2 .. a - 1
        BY <1>2, <3>1, <3>4
      <4>2. ~(a > 1 /\ l[a] = Quote /\ \A x \in 2 .. a - 1 : l[x] # Quote)
        BY <3>4, <4>1
      <4>3. QED
        BY <3>2, <3>4, <4>2, NameText
    <3>5. QED
      BY <1>1, <3>3, <3>4 DEF NameRead
  <2>7. QED
    BY <2>3, <2>4, <2>6, NameFails
<1>6. QED
  BY <1>4, <1>5

\* Behind the equals sign come blanks and the value.
LEMMA BehindEqualsGoesOn ==
    ASSUME NEW l, NEW c \in Nat, NEW s, NEW v, NEW b, BehindEquals(l, b, c, s, v), l[c] = Blank
    PROVE  BehindEquals(l, b, c + 1, s, v)
<1>1. PICK q \in 1 .. c - 1 : (\E k \in 0 .. q - 1 : Named(l, b, k, q, v)) /\ Blanks(l, q + 1, c - 1)
  BY DEF BehindEquals
<1>2. q \in 1 .. (c + 1) - 1 /\ (c + 1) - 1 = c
  OBVIOUS
<1>3. Blanks(l, q + 1, c)
  <2>1. \A x \in q + 1 .. c : x \in q + 1 .. c - 1 \/ x = c
    OBVIOUS
  <2>2. QED
    BY <1>1, <2>1 DEF Blanks
<1>4. QED
  BY <1>1, <1>2, <1>3 DEF BehindEquals

\* The first character that is no blank begins the value.
LEMMA ValueBegins ==
    ASSUME NEW l, NEW c \in Nat, c <= Len(l), NEW s, NEW v, NEW b, BehindEquals(l, b, c, s, v), l[c] # Blank
    PROVE  /\ l[c] # Quote => PlainValue(l, b, c, s, v)
           /\ l[c] = Quote => QuotedValue(l, b, c + 1, s, v)
<1>1. PICK q \in 1 .. c - 1 : (\E k \in 0 .. q - 1 : Named(l, b, k, q, v)) /\ Blanks(l, q + 1, c - 1)
  BY DEF BehindEquals
<1>2. Valued(l, b, v, q, c)
  BY <1>1 DEF Valued
<1>3. s = v /\ v \in Nat
  BY <1>1 DEF BehindEquals, Named
<1>4. /\ c \in 2 .. c /\ c \in 2 .. (c + 1) - 1 /\ c - c = 0 /\ (c + 1) - c - 1 = 0 /\ s = v + 0
  BY <1>3
<1>5. Copied(l, b, v, c, 0) /\ Copied(l, b, v, c + 1, 0)
  BY DEF Copied
<1>6. \A i \in c + 1 .. (c + 1) - 1 : l[i] # Quote
  OBVIOUS
<1>7. QED
  BY <1>1, <1>2, <1>4, <1>5, <1>6 DEF PlainValue, QuotedValue

\* Its quote does not end the line.
LEMMA QuoteOpens ==
    ASSUME NEW S, NEW l \in Seq(S), ~OpensAtEnd(l), NEW c \in Nat, c <= Len(l), NEW s, NEW v, NEW b,
           BehindEquals(l, b, c, s, v), l[c] = Quote
    PROVE  c < Len(l)
<1> SUFFICES ASSUME c = Len(l) PROVE FALSE
  BY LenProperties
<1>1. PICK q \in 1 .. c - 1 : (\E k \in 0 .. q - 1 : Named(l, b, k, q, v)) /\ Blanks(l, q + 1, c - 1)
  BY DEF BehindEquals
<1>2. q \in 1 .. Len(l) /\ l # << >> /\ q - 1 \in 0 .. Len(l) /\ q - 1 \in Nat /\ (q - 1) + 1 = q /\ Len(l) \in Nat
      /\ q - 1 <= Len(l)
  BY <1>1
<1>3. l[q] = "=" /\ \A i \in 1 .. q - 1 : l[i] # "="
  <2>1. PICK k : Named(l, b, k, q, v)
    BY <1>1
  <2>2. q \in Nat
    BY <1>2
  <2>3. QED
    BY <2>1, <2>2, NamedPlace
<1>4. Has(l, "=")
  <2>1. q \in DOMAIN l
    BY <1>2, LenProperties
  <2>2. QED
    BY <1>3, <2>1 DEF Has
<1>5. UpTo(l, "=") = SubSeq(l, 1, q - 1)
  BY <1>2, <1>3, BeforeAt
<1>6. Len(SubSeq(l, 1, q - 1)) = q - 1
  <2>1. Len(SubSeq(l, 1, q - 1)) = IF 1 <= q - 1 THEN (q - 1) - 1 + 1 ELSE 0
    BY <1>2, Part
  <2>2. QED
    BY <1>2, <2>1
<1>7. (q - 1) + 2 = q + 1
  BY <1>2
<1>8. Len(UpTo(l, "=")) + 2 = q + 1
  BY <1>5, <1>6, <1>7
<1>9. QED
  BY <1>1, <1>2, <1>4, <1>8 DEF OpensAtEnd

\* A value.
LEMMA ValueGoesOn ==
    ASSUME NEW l, NEW c \in Nat, NEW s \in Nat, NEW v, NEW b, PlainValue(l, b, c, s, v),
           NEW f, \A i \in 1 .. s - 1 : f[i] = b[i], f[s] = l[c]
    PROVE  PlainValue(l, f, c + 1, s + 1, v)
<1>1. PICK j \in 2 .. c : /\ \E q \in 1 .. j - 1 : Valued(l, b, v, q, j)
                          /\ l[j] \notin {Blank, Quote} /\ s = v + (c - j) /\ Copied(l, b, v, j, c - j)
  BY DEF PlainValue
<1>2. PICK q \in 1 .. j - 1 : Valued(l, b, v, q, j)
  BY <1>1
<1>3. v \in Nat /\ v > 1
  BY <1>2 DEF Valued, Named
<1>4. \A i \in 1 .. v - 1 : i \in 1 .. s - 1
  BY <1>1, <1>3
<1>5. Valued(l, f, v, q, j)
  BY <1>2, <1>4, ValuedKept
<1>6. Copied(l, f, v, j, (c + 1) - j)
  <2> SUFFICES ASSUME NEW x \in 0 .. (c + 1) - j - 1 PROVE f[v + x] = l[j + x]
    BY DEF Copied
  <2>1. CASE x = c - j
    BY <1>1, <1>3, <2>1
  <2>2. CASE x \in 0 .. c - j - 1
    <3>1. v + x \in 1 .. s - 1
      BY <1>1, <1>3, <2>2
    <3>2. QED
      BY <1>1, <2>2, <3>1 DEF Copied
  <2>3. QED
    BY <2>1, <2>2
<1>7. j \in 2 .. c + 1 /\ s + 1 = v + ((c + 1) - j)
  BY <1>1, <1>3
<1>8. QED
  BY <1>1, <1>2, <1>5, <1>6, <1>7 DEF PlainValue

\* A quoted one.
LEMMA QuotedValueGoesOn ==
    ASSUME NEW l, NEW c \in Nat, NEW s \in Nat, NEW v, NEW b, QuotedValue(l, b, c, s, v), l[c] # Quote,
           NEW f, \A i \in 1 .. s - 1 : f[i] = b[i], f[s] = l[c]
    PROVE  QuotedValue(l, f, c + 1, s + 1, v)
<1>1. PICK j \in 2 .. c - 1 : /\ \E q \in 1 .. j - 1 : Valued(l, b, v, q, j)
                              /\ l[j] = Quote /\ s = v + (c - j - 1) /\ Copied(l, b, v, j + 1, c - j - 1)
                              /\ \A i \in j + 1 .. c - 1 : l[i] # Quote
  BY DEF QuotedValue
<1>2. PICK q \in 1 .. j - 1 : Valued(l, b, v, q, j)
  BY <1>1
<1>3. v \in Nat /\ v > 1
  BY <1>2 DEF Valued, Named
<1>4. \A i \in 1 .. v - 1 : i \in 1 .. s - 1
  BY <1>1, <1>3
<1>5. Valued(l, f, v, q, j)
  BY <1>2, <1>4, ValuedKept
<1>6. Copied(l, f, v, j + 1, (c + 1) - j - 1)
  <2> SUFFICES ASSUME NEW x \in 0 .. ((c + 1) - j - 1) - 1 PROVE f[v + x] = l[j + 1 + x]
    BY DEF Copied
  <2>1. CASE x = c - j - 1
    BY <1>1, <1>3, <2>1
  <2>2. CASE x \in 0 .. (c - j - 1) - 1
    <3>1. v + x \in 1 .. s - 1
      BY <1>1, <1>3, <2>2
    <3>2. QED
      BY <1>1, <2>2, <3>1 DEF Copied
  <2>3. QED
    BY <2>1, <2>2
<1>7. j \in 2 .. (c + 1) - 1 /\ s + 1 = v + ((c + 1) - j - 1)
  BY <1>1, <1>3
<1>8. \A i \in j + 1 .. (c + 1) - 1 : l[i] # Quote
  <2>1. \A i \in j + 1 .. (c + 1) - 1 : i = c \/ i \in j + 1 .. c - 1
    OBVIOUS
  <2>2. QED
    BY <1>1, <2>1
<1>9. QED
  BY <1>1, <1>2, <1>5, <1>6, <1>7, <1>8 DEF QuotedValue

\* A quoted value ends at its quote.
LEMMA QuotedValueEnds ==
    ASSUME NEW l, NEW c \in Nat, NEW s, NEW v, NEW b, QuotedValue(l, b, c, s, v), l[c] = Quote
    PROVE  BehindValue(l, b, c + 1, s, v)
<1>1. PICK j \in 2 .. c - 1 : /\ \E q \in 1 .. j - 1 : Valued(l, b, v, q, j)
                              /\ l[j] = Quote /\ s = v + (c - j - 1) /\ Copied(l, b, v, j + 1, c - j - 1)
                              /\ \A i \in j + 1 .. c - 1 : l[i] # Quote
  BY DEF QuotedValue
<1>2. j \in 2 .. (c + 1) - 1 /\ c \in j + 1 .. (c + 1) - 1
  OBVIOUS
<1>3. Blanks(l, c + 1, (c + 1) - 1)
  BY DEF Blanks
<1>4. QED
  BY <1>1, <1>2, <1>3 DEF BehindValue

\* Behind it come blanks only.
LEMMA BehindValueGoesOn ==
    ASSUME NEW l, NEW c \in Nat, NEW s, NEW v, NEW b, BehindValue(l, b, c, s, v), l[c] = Blank
    PROVE  BehindValue(l, b, c + 1, s, v)
<1>1. PICK j \in 2 .. c - 1 : /\ \E q \in 1 .. j - 1 : Valued(l, b, v, q, j)
                              /\ \E w \in j + 1 .. c - 1 :
                                   /\ l[j] = Quote /\ l[w] = Quote
                                   /\ s = v + (w - j - 1) /\ Copied(l, b, v, j + 1, w - j - 1)
                                   /\ \A i \in j + 1 .. w - 1 : l[i] # Quote
                                   /\ Blanks(l, w + 1, c - 1)
  BY DEF BehindValue
<1>2. PICK w \in j + 1 .. c - 1 :
                                   /\ l[j] = Quote /\ l[w] = Quote
                                   /\ s = v + (w - j - 1) /\ Copied(l, b, v, j + 1, w - j - 1)
                                   /\ \A i \in j + 1 .. w - 1 : l[i] # Quote
                                   /\ Blanks(l, w + 1, c - 1)
  BY <1>1
<1>3. j \in 2 .. (c + 1) - 1 /\ w \in j + 1 .. (c + 1) - 1 /\ (c + 1) - 1 = c
  OBVIOUS
<1>4. Blanks(l, w + 1, c)
  <2>1. \A x \in w + 1 .. c : x \in w + 1 .. c - 1 \/ x = c
    OBVIOUS
  <2>2. QED
    BY <1>2, <2>1 DEF Blanks
<1>5. QED
  BY <1>1, <1>2, <1>3, <1>4 DEF BehindValue

\* Behind a quoted value, anything but blanks makes the line no assignment.
LEMMA BehindValueFails ==
    ASSUME NEW S, NEW l \in Seq(S), NEW c \in Nat, c <= Len(l), NEW s, NEW v, NEW b, BehindValue(l, b, c, s, v),
           l[c] # Blank
    PROVE  Assignment(l) = {}
<1>1. PICK j \in 2 .. c - 1 : /\ \E q \in 1 .. j - 1 : Valued(l, b, v, q, j)
                              /\ \E w \in j + 1 .. c - 1 :
                                   /\ l[j] = Quote /\ l[w] = Quote
                                   /\ s = v + (w - j - 1) /\ Copied(l, b, v, j + 1, w - j - 1)
                                   /\ \A i \in j + 1 .. w - 1 : l[i] # Quote
                                   /\ Blanks(l, w + 1, c - 1)
  BY DEF BehindValue
<1>2. PICK w \in j + 1 .. c - 1 : l[j] = Quote /\ l[w] = Quote
  BY <1>1
<1>3. PICK q \in 1 .. j - 1 : Valued(l, b, v, q, j)
  BY <1>1
<1>4. Len(l) \in Nat /\ q \in 1 .. Len(l) /\ j \in q + 1 .. Len(l) + 1
  BY LenProperties
<1>5. PICK k \in 0 .. q - 1 : Named(l, b, k, q, v)
  BY <1>3 DEF Valued
<1>6. l[q] = "=" /\ \A i \in 1 .. q - 1 : l[i] # "="
  <2>1. q \in Nat
    BY <1>4
  <2>2. QED
    BY <1>5, <2>1, NamedPlace
<1>7. Blanks(l, q + 1, j - 1) /\ l[j] # Blank
  BY <1>2, <1>3, MarkFacts DEF Valued
<1>8. ASSUME NEW m \in j - 1 .. Len(l), Blanks(l, m + 1, Len(l)) PROVE ValueSays(SubSeq(l, j, m)) = {}
  <2>1. c <= m
    <3>1. c \notin m + 1 .. Len(l)
      BY <1>8 DEF Blanks
    <3>2. QED
      BY <1>4, <3>1
  <2>2. w \in j + 1 .. m - 1 /\ j <= m /\ j \in Nat \ {0} /\ m \in Nat /\ m <= Len(l)
    BY <1>4, <2>1
  <2>3. ~(j < m /\ l[m] = Quote /\ \A x \in j + 1 .. m - 1 : l[x] # Quote)
    BY <1>2, <2>2
  <2>4. QED
    BY <1>2, <2>2, <2>3, ValueText
<1>9. QED
  BY <1>4, <1>6, <1>7, <1>8, ValueFails

\* What env may be.
EnvStates  == {"NameI", "Name", "Eq1", "Eq2", "ValueI", "Value", "Fini", "Error"}
EnvRecords == [state : EnvStates, c : Nat, str : Nat, val : Nat, quote : {NUL, Quote}, buf : Seq(Chars)]

\* It has not overtaken what it reads, nor left the text.
Within(l, e) ==
    /\ e \in EnvRecords
    /\ e.c \in 1 .. Len(l) + 1 /\ e.str \in 1 .. e.c
    /\ Len(e.buf) > Len(l) /\ e.buf[Len(l) + 1] = NUL
    /\ \A i \in e.c .. Len(l) : e.buf[i] = l[i]

\* How its state relates to what it read.
EnvPlace(l, e) ==
    /\ e.state = "NameI" => e.c = 1 /\ e.str = 1 /\ e.quote = NUL
    /\ e.state = "Name" /\ e.quote = NUL => PlainName(l, e.buf, e.c, e.str)
    /\ e.state = "Name" /\ e.quote # NUL => QuotedName(l, e.buf, e.c, e.str)
    /\ e.state = "Eq1" => BehindName(l, e.buf, e.c, e.str)
    /\ e.state \in {"Eq2", "ValueI"} => BehindEquals(l, e.buf, e.c, e.str, e.val) /\ e.quote = NUL
    /\ e.state = "ValueI" => e.c <= Len(l) /\ l[e.c] # Blank
    /\ e.state = "Value" /\ e.quote = NUL => PlainValue(l, e.buf, e.c, e.str, e.val)
    /\ e.state = "Value" /\ e.quote # NUL => QuotedValue(l, e.buf, e.c, e.str, e.val)
    /\ e.state = "Fini" => BehindValue(l, e.buf, e.c, e.str, e.val)
    /\ e.state = "Error" => Assignment(l) = {}

\* Whatever the line, load_env stays in a buffer of its size.
EnvBuffer(e) == e \in EnvRecords /\ e.c > 0 /\ e.str > 0 /\ Len(e.buf) = MAX_ENVSTR

\* The line between two turns of load_env, and its buffer between two lines.
EnvInv ==
    /\ original \in Seq(Chars \ {NUL}) /\ EnvBuffer(env)
    /\ pc = "env" /\ ~OpensAtEnd(original) => Within(original, env) /\ EnvPlace(original, env)

-----------------------------------------------------------------------------
(* A turn of load_env.                                                     *)

Over(o, s) == [o EXCEPT !.c = @ + 1, !.state = s]
Goto(o, s) == [o EXCEPT !.state = s]

\* What load_env sees of the line, and how far it has come.
LEMMA EnvFacts ==
    ASSUME NEW l \in Seq(Chars \ {NUL}), NEW e, Within(l, e)
    PROVE  /\ Len(l) \in Nat /\ \A i \in 1 .. Len(l) : l[i] \in Chars /\ l[i] # NUL
           /\ e.c \in Nat \ {0} /\ e.str \in Nat \ {0} /\ e.str <= e.c /\ e.c <= Len(l) + 1
           /\ e.buf \in Seq(Chars) /\ Len(e.buf) \in Nat /\ e.str <= Len(e.buf)
           /\ e.c <= Len(l) => At(e.buf, e.c) = l[e.c] /\ l[e.c] # NUL /\ e.str <= Len(l)
           /\ At(e.buf, e.c) = NUL <=> e.c = Len(l) + 1
<1>1. Len(l) \in Nat /\ \A i \in 1 .. Len(l) : l[i] \in Chars \ {NUL}
  BY LenProperties, ElementOfSeq
<1>2. e.buf \in Seq(Chars) /\ e.c \in Nat /\ e.str \in Nat
  BY DEF Within, EnvRecords
<1>3. Len(e.buf) \in Nat
  BY <1>2, LenProperties
<1>4. /\ e.c \in 1 .. Len(l) + 1 /\ e.str \in 1 .. e.c /\ Len(e.buf) > Len(l) /\ e.buf[Len(l) + 1] = NUL
      /\ \A i \in e.c .. Len(l) : e.buf[i] = l[i]
  BY DEF Within
<1>5. At(e.buf, e.c) = e.buf[e.c]
  BY <1>1, <1>3, <1>4 DEF At
<1>6. e.c <= Len(l) => e.buf[e.c] = l[e.c] /\ l[e.c] # NUL /\ e.str <= Len(l)
  BY <1>1, <1>2, <1>4
<1>7. e.c = Len(l) + 1 \/ e.c <= Len(l)
  BY <1>1, <1>4
<1>8. e.str <= Len(e.buf)
  BY <1>1, <1>2, <1>3, <1>4
<1>9. At(e.buf, e.c) = NUL <=> e.c = Len(l) + 1
  BY <1>1, <1>4, <1>5, <1>6, <1>7
<1>10. QED
  BY <1>1, <1>2, <1>3, <1>4, <1>5, <1>6, <1>8, <1>9

\* The next character, or only another state.
LEMMA OverIs ==
    ASSUME NEW l \in Seq(Chars \ {NUL}), NEW o, Within(l, o), o.c <= Len(l), NEW s \in EnvStates
    PROVE  LET n == Over(o, s)
           IN  /\ Within(l, n)
               /\ n.state = s /\ n.c = o.c + 1 /\ n.str = o.str /\ n.val = o.val /\ n.quote = o.quote
               /\ n.buf = o.buf
<1> DEFINE n == Over(o, s)
<1>1. o \in EnvRecords /\ Len(l) \in Nat
  BY EnvFacts DEF Within
<1>2. /\ n.state = s /\ n.c = o.c + 1 /\ n.str = o.str /\ n.val = o.val /\ n.quote = o.quote
      /\ n.buf = o.buf
  BY <1>1 DEF EnvRecords, Over
<1>3. n \in EnvRecords
  <2>1. o.c + 1 \in Nat
    BY <1>1 DEF EnvRecords
  <2> HIDE DEF EnvStates
  <2>2. QED
    BY <1>1, <2>1 DEF EnvRecords, Over
<1> HIDE DEF n
<1>4. n.c \in 1 .. Len(l) + 1 /\ n.str \in 1 .. n.c /\ \A i \in n.c .. Len(l) : i \in o.c .. Len(l)
  BY <1>1, <1>2 DEF Within
<1>5. Within(l, n)
  BY <1>2, <1>3, <1>4 DEF Within
<1>6. QED
  BY <1>2, <1>5 DEF n

\* What a change of state leaves alone.
LEMMA GotoIs ==
    ASSUME NEW l \in Seq(Chars \ {NUL}), NEW o, Within(l, o), NEW s \in EnvStates
    PROVE  LET n == Goto(o, s)
           IN  /\ Within(l, n)
               /\ n.state = s /\ n.c = o.c /\ n.str = o.str /\ n.val = o.val /\ n.quote = o.quote
               /\ n.buf = o.buf
<1> DEFINE n == Goto(o, s)
<1>1. o \in EnvRecords
  BY DEF Within
<1>2. /\ n.state = s /\ n.c = o.c /\ n.str = o.str /\ n.val = o.val /\ n.quote = o.quote
      /\ n.buf = o.buf
  BY <1>1 DEF EnvRecords, Goto
<1>3. n \in EnvRecords
  <2> HIDE DEF EnvStates
  <2>1. QED
    BY <1>1 DEF EnvRecords, Goto
<1> HIDE DEF n
<1>4. Within(l, n)
  BY <1>2, <1>3 DEF Within
<1>5. QED
  BY <1>2, <1>4 DEF n

\* A character is written behind what has been read.
LEMMA PutIs ==
    ASSUME NEW b \in Seq(Chars), NEW s \in Nat \ {0}, s <= Len(b), NEW x \in Chars
    PROVE  LET f == Put(b, s, x)
           IN  /\ f \in Seq(Chars) /\ Len(f) = Len(b) /\ f[s] = x
               /\ \A i \in 1 .. Len(b) : i # s => f[i] = b[i]
<1>1. Len(b) \in Nat /\ s \in 1 .. Len(b)
  BY LenProperties
<1>2. Put(b, s, x) = [b EXCEPT ![s] = x]
  BY DEF Put
<1>3. [b EXCEPT ![s] = x] \in Seq(Chars) /\ Len([b EXCEPT ![s] = x]) = Len(b)
  BY <1>1, ExceptSeq
<1>4. /\ [b EXCEPT ![s] = x][s] = x
      /\ \A i \in 1 .. Len(b) : i # s => [b EXCEPT ![s] = x][i] = b[i]
  BY <1>1, LenProperties
<1>5. QED
  BY <1>2, <1>3, <1>4

\* The buffer after that.
LEMMA PutWithin ==
    ASSUME NEW l \in Seq(Chars \ {NUL}), NEW o, Within(l, o), o.c <= Len(l), NEW x \in Chars,
           NEW n \in EnvRecords, n.buf = Put(o.buf, o.str, x), n.c = o.c + 1, n.str = o.str + 1
    PROVE  /\ Within(l, n) /\ n.buf[o.str] = x
           /\ \A i \in 1 .. o.str - 1 : n.buf[i] = o.buf[i]
<1> DEFINE f == Put(o.buf, o.str, x)
<1>1. /\ Len(l) \in Nat /\ o.c \in Nat \ {0} /\ o.str \in Nat \ {0} /\ o.str <= o.c
      /\ o.buf \in Seq(Chars) /\ Len(o.buf) \in Nat /\ o.str <= Len(o.buf) /\ o.str <= Len(l)
  BY EnvFacts
<1>2. /\ f \in Seq(Chars) /\ Len(f) = Len(o.buf) /\ f[o.str] = x
      /\ \A i \in 1 .. Len(o.buf) : i # o.str => f[i] = o.buf[i]
  BY <1>1, PutIs
<1> HIDE DEF f
<1>3. /\ Len(o.buf) > Len(l) /\ o.buf[Len(l) + 1] = NUL
      /\ \A i \in o.c .. Len(l) : o.buf[i] = l[i]
  BY DEF Within
<1>4. n.buf = f
  BY DEF f
<1>5. f[Len(l) + 1] = NUL
  <2>1. Len(l) + 1 \in 1 .. Len(o.buf) /\ Len(l) + 1 # o.str
    BY <1>1, <1>3
  <2>2. QED
    BY <1>2, <1>3, <2>1
<1>6. ASSUME NEW i \in o.c + 1 .. Len(l) PROVE f[i] = l[i]
  <2>1. i \in 1 .. Len(o.buf) /\ i # o.str /\ i \in o.c .. Len(l)
    BY <1>1, <1>3
  <2>2. QED
    BY <1>2, <1>3, <2>1
<1>7. n.c \in 1 .. Len(l) + 1 /\ n.str \in 1 .. n.c
  BY <1>1
<1>8. Within(l, n)
  BY <1>2, <1>3, <1>4, <1>5, <1>6, <1>7 DEF Within
<1>9. ASSUME NEW i \in 1 .. o.str - 1 PROVE n.buf[i] = o.buf[i]
  <2>1. i \in 1 .. Len(o.buf) /\ i # o.str
    BY <1>1
  <2>2. QED
    BY <1>2, <1>4, <2>1
<1>10. QED
  BY <1>2, <1>4, <1>8, <1>9

\* What copying a character leaves alone.
LEMMA CopyIs ==
    ASSUME NEW l \in Seq(Chars \ {NUL}), NEW o, Within(l, o), o.c <= Len(l)
    PROVE  LET n == Copy(o)
           IN  /\ Within(l, n)
               /\ n.state = o.state /\ n.c = o.c + 1 /\ n.str = o.str + 1 /\ n.val = o.val /\ n.quote = o.quote
               /\ n.buf[o.str] = l[o.c] /\ \A i \in 1 .. o.str - 1 : n.buf[i] = o.buf[i]
<1> DEFINE n == Copy(o)
           f == Put(o.buf, o.str, At(o.buf, o.c))
<1>1. o \in EnvRecords
  BY DEF Within
<1>2. /\ Len(l) \in Nat /\ o.c \in Nat \ {0} /\ o.str \in Nat \ {0}
      /\ At(o.buf, o.c) = l[o.c] /\ l[o.c] \in Chars /\ o.buf \in Seq(Chars) /\ o.str <= Len(o.buf)
  BY EnvFacts
<1>3. f \in Seq(Chars)
  BY <1>2, PutIs
<1> HIDE DEF f
<1>4. /\ n.state = o.state /\ n.c = o.c + 1 /\ n.str = o.str + 1 /\ n.val = o.val /\ n.quote = o.quote
      /\ n.buf = f
  BY <1>1 DEF EnvRecords, Copy, f
<1>5. n \in EnvRecords
  <2>1. o.c + 1 \in Nat /\ o.str + 1 \in Nat
    BY <1>2
  <2>2. QED
    BY <1>1, <1>3, <2>1 DEF EnvRecords, Copy, f
<1> HIDE DEF n
<1>6. n.buf = Put(o.buf, o.str, l[o.c])
  BY <1>2, <1>4 DEF f
<1>7. Within(l, n) /\ n.buf[o.str] = l[o.c]
  BY <1>2, <1>4, <1>5, <1>6, PutWithin
<1>8. \A i \in 1 .. o.str - 1 : n.buf[i] = o.buf[i]
  BY <1>2, <1>4, <1>5, <1>6, PutWithin
<1>9. QED
  BY <1>4, <1>7, <1>8 DEF n

\* What reading the equals sign does.
LEMMA EqualsIs ==
    ASSUME NEW l \in Seq(Chars \ {NUL}), NEW o, Within(l, o), o.c <= Len(l)
    PROVE  LET n == Equals(o)
           IN  /\ Within(l, n)
               /\ n.state = "Eq2" /\ n.c = o.c + 1 /\ n.str = o.str + 1 /\ n.val = o.str + 1 /\ n.quote = NUL
               /\ n.buf[o.str] = "=" /\ \A i \in 1 .. o.str - 1 : n.buf[i] = o.buf[i]
<1> DEFINE n == Equals(o)
           f == Put(o.buf, o.str, "=")
<1>1. o \in EnvRecords
  BY DEF Within
<1>2. /\ Len(l) \in Nat /\ o.c \in Nat \ {0} /\ o.str \in Nat \ {0}
      /\ o.buf \in Seq(Chars) /\ o.str <= Len(o.buf)
  BY EnvFacts
<1>3. f \in Seq(Chars)
  BY <1>2, MarkFacts, PutIs
<1> HIDE DEF f
<1>4. /\ n.state = "Eq2" /\ n.c = o.c + 1 /\ n.str = o.str + 1 /\ n.val = o.str + 1 /\ n.quote = NUL
      /\ n.buf = f
  BY <1>1 DEF EnvRecords, Equals, EqualsKeepsQuote, f
<1>5. n \in EnvRecords
  <2>1. o.c + 1 \in Nat /\ o.str + 1 \in Nat /\ "Eq2" \in EnvStates /\ NUL \in {NUL, Quote}
    BY <1>2 DEF EnvStates
  <2> HIDE DEF EnvStates
  <2>2. QED
    BY <1>1, <1>3, <2>1 DEF EnvRecords, Equals, EqualsKeepsQuote, f
<1> HIDE DEF n
<1>6. n.buf = Put(o.buf, o.str, "=") /\ "=" \in Chars
  BY <1>4, MarkFacts DEF f
<1>7. Within(l, n) /\ n.buf[o.str] = "="
  BY <1>2, <1>4, <1>5, <1>6, PutWithin
<1>8. \A i \in 1 .. o.str - 1 : n.buf[i] = o.buf[i]
  BY <1>2, <1>4, <1>5, <1>6, PutWithin
<1>9. QED
  BY <1>4, <1>7, <1>8 DEF n

\* What a turn is, by the state and the character.
LEMMA MatchIs ==
    ASSUME NEW o
    PROVE  LET ch == At(o.buf, o.c)
           IN  /\ o.state = "Name" /\ o.quote = NUL =>
                    /\ ch = Blank => Match(o) = Over(o, "Eq1")
                    /\ ch = "=" => Match(o) = Goto(o, "Eq1")
                    /\ ch \notin {Blank, "="} => Match(o) = Copy(o)
               /\ o.state = "Name" /\ o.quote = Quote =>
                    /\ ch = Quote => Match(o) = Over(o, "Eq1")
                    /\ ch = "=" => Match(o) = Goto(o, "Error")
                    /\ ch \notin {Quote, "="} => Match(o) = Copy(o)
               /\ o.state = "Eq1" =>
                    /\ ch = "=" => Match(o) = Equals(o)
                    /\ ch = Blank => Match(o) = Over(o, "Eq1")
                    /\ ch \notin {Blank, "="} => Match(o) = Over(o, "Error")
               /\ o.state = "Eq2" =>
                    /\ ch = Blank => Match(o) = Over(o, "Eq2")
                    /\ ch # Blank => Match(o) = Goto(o, "ValueI")
               /\ o.state = "Value" /\ o.quote = NUL => Match(o) = Copy(o)
               /\ o.state = "Value" /\ o.quote = Quote =>
                    /\ ch = Quote => Match(o) = Over(o, "Fini")
                    /\ ch # Quote => Match(o) = Copy(o)
               /\ o.state = "Fini" =>
                    /\ ch = Blank => Match(o) = Over(o, "Fini")
                    /\ ch # Blank => Match(o) = Goto(o, "Error")
<1>1. /\ following["Name"] = "Eq1" /\ following["Eq2"] = "ValueI" /\ following["Value"] = "Fini"
      /\ following["Fini"] = "Error"
  BY DEF following
<1> DEFINE ch == At(o.buf, o.c)
<1>2. CASE o.state = "Name" /\ o.quote = NUL
  <2>1. /\ ch = Blank => Match(o) = Over(o, "Eq1")
        /\ ch = "=" => Match(o) = Goto(o, "Eq1")
        /\ ch \notin {Blank, "="} => Match(o) = Copy(o)
    <3> HIDE DEF ch
    <3>1. QED
      BY <1>2, MarkFacts DEF Match, Over, Goto, ch
  <2>2. QED
    BY <1>2, <2>1, MarkFacts
<1>3. CASE o.state = "Name" /\ o.quote = Quote
  <2>1. /\ ch = Quote => Match(o) = Over(o, "Eq1")
        /\ ch = "=" => Match(o) = Goto(o, "Error")
        /\ ch \notin {Quote, "="} => Match(o) = Copy(o)
    BY <1>1, <1>3, MarkFacts DEF Match, Over, Goto
  <2>2. QED
    BY <1>3, <2>1, MarkFacts
<1>4. CASE o.state = "Eq1"
  <2>1. /\ ch = "=" => Match(o) = Equals(o)
        /\ ch = Blank => Match(o) = Over(o, "Eq1")
        /\ ch \notin {Blank, "="} => Match(o) = Over(o, "Error")
    BY <1>4, MarkFacts DEF Match, Over, Goto
  <2>2. QED
    BY <1>4, <2>1
<1>5. CASE o.state = "Eq2"
  <2>1. /\ ch = Blank => Match(o) = Over(o, "Eq2")
        /\ ch # Blank => Match(o) = Goto(o, "ValueI")
    BY <1>1, <1>5 DEF Match, Over, Goto
  <2>2. QED
    BY <1>5, <2>1
<1>6. CASE o.state = "Value"
  <2>1. /\ o.quote = NUL => Match(o) = Copy(o)
        /\ o.quote = Quote /\ ch = Quote => Match(o) = Over(o, "Fini")
        /\ o.quote = Quote /\ ch # Quote => Match(o) = Copy(o)
    BY <1>1, <1>6, MarkFacts DEF Match, Over, Goto
  <2>2. QED
    BY <1>6, <2>1
<1>7. CASE o.state = "Fini"
  <2>1. /\ ch = Blank => Match(o) = Over(o, "Fini")
        /\ ch # Blank => Match(o) = Goto(o, "Error")
    BY <1>1, <1>7 DEF Match, Over, Goto
  <2>2. QED
    BY <1>7, <2>1
<1>8. QED
  BY <1>2, <1>3, <1>4, <1>5, <1>6, <1>7

\* Into a name or value: a quote never ends the line there.
LEMMA OpenedKeeps ==
    ASSUME NEW l \in Seq(Chars \ {NUL}), ~OpensAtEnd(l), NEW e, Within(l, e), EnvPlace(l, e), e.c <= Len(l)
    PROVE  LET o == Opened(e)
           IN  /\ Within(l, o) /\ EnvPlace(l, o) /\ o.c <= Len(l)
               /\ o.state \in EnvStates \ {"NameI", "ValueI"}
<1> DEFINE o == Opened(e)
<1>1. /\ Len(l) \in Nat /\ e.c \in Nat \ {0} /\ At(e.buf, e.c) = l[e.c]
  BY EnvFacts
<1>2. e \in EnvRecords /\ e.state \in EnvStates
  BY DEF Within, EnvRecords
<1>3. following["NameI"] = "Name" /\ following["ValueI"] = "Value"
  BY DEF following
<1>4. CASE e.state \notin {"NameI", "ValueI"}
  <2>1. o = e
    BY <1>4 DEF Opened
  <2>2. QED
    BY <1>2, <1>4, <2>1
<1>5. CASE e.state \in {"NameI", "ValueI"} /\ l[e.c] = Quote
  <2>1. e.c < Len(l)
    <3>1. CASE e.state = "NameI"
      <4>1. e.c = 1
        BY <3>1 DEF EnvPlace
      <4>2. Len(l) \in Nat /\ Len(l) >= 1
        BY <1>1, <4>1
      <4>6. l # << >>
        BY <4>2
      <4>3. Len(l) # 1
        BY <1>5, <4>1, <4>6 DEF OpensAtEnd
      <4>4. Len(l) > 1
        <5>1. \A n \in Nat : n >= 1 /\ n # 1 => n > 1
          OBVIOUS
        <5>2. QED
          BY <4>2, <4>3, <5>1
      <4>5. QED
        BY <4>1, <4>4
    <3>2. CASE e.state = "ValueI"
      <4>1. BehindEquals(l, e.buf, e.c, e.str, e.val)
        BY <3>2 DEF EnvPlace
      <4>2. QED
        BY <1>1, <1>5, <4>1, QuoteOpens
    <3>3. QED
      BY <1>5, <3>1, <3>2
  <2>2. /\ o.c = e.c + 1 /\ o.str = e.str /\ o.val = e.val /\ o.buf = e.buf /\ o.quote = Quote
        /\ o.state = following[e.state]
    BY <1>1, <1>2, <1>5 DEF EnvRecords, Opened
  <2>3. o \in EnvRecords
    <3>1. following[e.state] \in EnvStates /\ e.c + 1 \in Nat /\ Quote \in {NUL, Quote}
      BY <1>1, <1>3, <1>5 DEF EnvStates
    <3>2. o = [e EXCEPT !.state = following[@], !.quote = Quote, !.c = @ + 1]
      BY <1>1, <1>5 DEF Opened
    <3> HIDE DEF EnvStates, o
    <3>3. QED
      BY <1>2, <3>1, <3>2 DEF EnvRecords
  <2> HIDE DEF o
  <2>4. Within(l, o)
    <3>1. o.c \in 1 .. Len(l) + 1 /\ o.str \in 1 .. o.c /\ \A i \in o.c .. Len(l) : i \in e.c .. Len(l)
      BY <1>1, <2>1, <2>2 DEF Within
    <3>2. QED
      BY <2>2, <2>3, <3>1 DEF Within
  <2>5. CASE e.state = "NameI"
    <3>1. e.c = 1 /\ e.str = 1
      BY <2>5 DEF EnvPlace
    <3>2. QuotedName(l, o.buf, o.c, o.str)
      <4>1. \A i \in 2 .. o.c - 1 : FALSE
        BY <2>2, <3>1
      <4>2. QED
        BY <1>5, <2>2, <3>1, <4>1 DEF QuotedName
    <3>3. o.state = "Name" /\ o.state \in EnvStates \ {"NameI", "ValueI"}
      BY <1>3, <2>2, <2>5 DEF EnvStates
    <3>4. EnvPlace(l, o)
      BY <2>2, <3>2, <3>3, MarkFacts DEF EnvPlace
    <3>5. QED
      BY <1>1, <2>1, <2>2, <2>4, <3>3, <3>4 DEF o
  <2>6. CASE e.state = "ValueI"
    <3>1. BehindEquals(l, e.buf, e.c, e.str, e.val) /\ l[e.c] # Blank
      BY <2>6 DEF EnvPlace
    <3>2. QuotedValue(l, o.buf, o.c, o.str, o.val)
      BY <1>1, <1>5, <2>2, <3>1, ValueBegins
    <3>3. o.state = "Value" /\ o.state \in EnvStates \ {"NameI", "ValueI"}
      BY <1>3, <2>2, <2>6 DEF EnvStates
    <3>4. EnvPlace(l, o)
      BY <2>2, <3>2, <3>3, MarkFacts DEF EnvPlace
    <3>5. QED
      BY <1>1, <2>1, <2>2, <2>4, <3>3, <3>4 DEF o
  <2>7. QED
    BY <1>5, <2>5, <2>6 DEF o
<1>6. CASE e.state \in {"NameI", "ValueI"} /\ l[e.c] # Quote
  <2>1. following[e.state] \in EnvStates
    BY <1>3, <1>6 DEF EnvStates
  <2>2. o = Goto(e, following[e.state])
    <3>1. At(e.buf, e.c) # Quote
      BY <1>1, <1>6
    <3>2. o = [e EXCEPT !.state = following[@], !.quote = @, !.c = @]
      BY <1>6, <3>1 DEF Opened
    <3>3. QED
      BY <1>2, <3>2 DEF Goto, EnvRecords
  <2>3. /\ Within(l, o)
        /\ o.state = following[e.state] /\ o.c = e.c /\ o.str = e.str /\ o.val = e.val /\ o.quote = e.quote
        /\ o.buf = e.buf
    <3> HIDE DEF o
    <3> DEFINE s == following[e.state]
    <3>1. s \in EnvStates
      BY <2>1
    <3> HIDE DEF s
    <3>2. o = Goto(e, s)
      BY <2>2 DEF s
    <3>3. /\ Within(l, Goto(e, s))
          /\ Goto(e, s).state = s /\ Goto(e, s).c = e.c /\ Goto(e, s).str = e.str /\ Goto(e, s).val = e.val
          /\ Goto(e, s).quote = e.quote /\ Goto(e, s).buf = e.buf
      BY <3>1, GotoIs
    <3>4. QED
      BY <3>2, <3>3 DEF s
  <2> HIDE DEF o
  <2>4. e.quote = NUL
    BY <1>6 DEF EnvPlace
  <2>5. CASE e.state = "NameI"
    <3>1. e.c = 1 /\ e.str = 1
      BY <2>5 DEF EnvPlace
    <3>2. PlainName(l, o.buf, o.c, o.str)
      <4>1. NameRead(l, o.buf, 0, 1)
        BY DEF NameRead
      <4>2. QED
        BY <1>6, <2>3, <3>1, <4>1 DEF PlainName
    <3>3. o.state = "Name" /\ o.state \in EnvStates \ {"NameI", "ValueI"}
      BY <1>3, <2>3, <2>5 DEF EnvStates
    <3>4. EnvPlace(l, o)
      BY <2>3, <2>4, <3>2, <3>3 DEF EnvPlace
    <3>5. QED
      BY <2>3, <3>3, <3>4 DEF o
  <2>6. CASE e.state = "ValueI"
    <3>1. BehindEquals(l, e.buf, e.c, e.str, e.val) /\ l[e.c] # Blank
      BY <2>6 DEF EnvPlace
    <3>2. PlainValue(l, o.buf, o.c, o.str, o.val)
      BY <1>1, <1>6, <2>3, <3>1, ValueBegins
    <3>3. o.state = "Value" /\ o.state \in EnvStates \ {"NameI", "ValueI"}
      BY <1>3, <2>3, <2>6 DEF EnvStates
    <3>4. EnvPlace(l, o)
      BY <2>3, <2>4, <3>2, <3>3 DEF EnvPlace
    <3>5. QED
      BY <2>3, <3>3, <3>4 DEF o
  <2>7. QED
    BY <1>6, <2>5, <2>6 DEF o
<1>7. QED
  BY <1>1, <1>4, <1>5, <1>6

\* A turn in a name leaves load_env at its place.
LEMMA NameMatch ==
    ASSUME NEW l \in Seq(Chars \ {NUL}), NEW o, Within(l, o), EnvPlace(l, o), o.c <= Len(l), o.state = "Name"
    PROVE  Within(l, Match(o)) /\ EnvPlace(l, Match(o))
<1> DEFINE n == Match(o)
           ch == l[o.c]
<1>1. /\ Len(l) \in Nat /\ o.c \in Nat \ {0} /\ o.str \in Nat \ {0} /\ At(o.buf, o.c) = ch
  BY EnvFacts
<1>2. o \in EnvRecords /\ o.quote \in {NUL, Quote} /\ "Eq1" \in EnvStates /\ "Error" \in EnvStates
  BY DEF Within, EnvRecords, EnvStates
<1>3. CASE o.quote = NUL
  <2>1. /\ ch = Blank => n = Over(o, "Eq1")
        /\ ch = "=" => n = Goto(o, "Eq1")
        /\ ch \notin {Blank, "="} => n = Copy(o)
    BY <1>1, <1>3, MatchIs
  <2> HIDE DEF n
  <2>2. PlainName(l, o.buf, o.c, o.str) /\ o.str = o.c
    BY <1>3 DEF EnvPlace, PlainName
  <2>3. PlainName(l, o.buf, o.c, o.c)
    BY <2>2
  <2>4. CASE ch = Blank
    <3>1. Within(l, n) /\ n.state = "Eq1" /\ n.c = o.c + 1 /\ n.str = o.str /\ n.buf = o.buf
      BY <1>2, <2>1, <2>4, OverIs
    <3>2. BehindName(l, n.buf, n.c, n.str)
      BY <1>1, <2>2, <2>3, <2>4, <3>1, NameEnds
    <3>3. QED
      BY <3>1, <3>2 DEF EnvPlace, n
  <2>5. CASE ch = "="
    <3>1. Within(l, n) /\ n.state = "Eq1" /\ n.c = o.c /\ n.str = o.str /\ n.buf = o.buf
      <4> DEFINE g == Goto(o, "Eq1")
      <4>1. Within(l, g) /\ g.state = "Eq1" /\ g.c = o.c /\ g.str = o.str /\ g.buf = o.buf
        BY <1>2, GotoIs
      <4>2. n = g
        BY <2>1, <2>5
      <4> HIDE DEF g
      <4>3. QED
        BY <4>1, <4>2
    <3>2. BehindName(l, n.buf, n.c, n.str)
      BY <1>1, <2>2, <2>3, <2>5, <3>1, NameEnds
    <3>3. QED
      BY <3>1, <3>2 DEF EnvPlace, n
  <2>6. CASE ch \notin {Blank, "="}
    <3>1. /\ Within(l, n) /\ n.state = "Name" /\ n.c = o.c + 1 /\ n.str = o.str + 1 /\ n.quote = NUL
          /\ n.buf[o.c] = ch
      BY <1>3, <2>1, <2>2, <2>6, CopyIs
    <3>2. \A i \in 1 .. o.c - 1 : n.buf[i] = o.buf[i]
      BY <2>1, <2>2, <2>6, CopyIs
    <3>3. PlainName(l, n.buf, o.c + 1, o.c + 1)
      BY <1>1, <2>3, <2>6, <3>1, <3>2, NameGoesOn
    <3>4. PlainName(l, n.buf, n.c, n.str)
      BY <2>2, <3>1, <3>3
    <3>5. QED
      BY <3>1, <3>4 DEF EnvPlace, n
  <2>7. QED
    BY <2>4, <2>5, <2>6
<1>4. CASE o.quote = Quote
  <2>1. /\ ch = Quote => n = Over(o, "Eq1")
        /\ ch = "=" => n = Goto(o, "Error")
        /\ ch \notin {Quote, "="} => n = Copy(o)
    BY <1>1, <1>4, MatchIs
  <2> HIDE DEF n
  <2>2. QuotedName(l, o.buf, o.c, o.str)
    BY <1>4, MarkFacts DEF EnvPlace
  <2>4. CASE ch = Quote
    <3>1. Within(l, n) /\ n.state = "Eq1" /\ n.c = o.c + 1 /\ n.str = o.str /\ n.buf = o.buf
      BY <1>2, <2>1, <2>4, OverIs
    <3>2. BehindName(l, n.buf, n.c, n.str)
      BY <1>1, <2>2, <2>4, <3>1, QuotedNameEnds
    <3>3. QED
      BY <3>1, <3>2 DEF EnvPlace, n
  <2>5. CASE ch = "="
    <3>1. Within(l, n) /\ n.state = "Error"
      <4> DEFINE g == Goto(o, "Error")
      <4>1. Within(l, g) /\ g.state = "Error"
        BY <1>2, GotoIs
      <4>2. n = g
        BY <2>1, <2>5
      <4> HIDE DEF g
      <4>3. QED
        BY <4>1, <4>2
    <3>2. Assignment(l) = {}
      BY <1>1, <2>2, <2>5, QuotedNameFails
    <3>3. QED
      BY <3>1, <3>2 DEF EnvPlace, n
  <2>6. CASE ch \notin {Quote, "="}
    <3>1. /\ Within(l, n) /\ n.state = "Name" /\ n.c = o.c + 1 /\ n.str = o.str + 1 /\ n.quote = Quote
          /\ n.buf[o.str] = ch
      BY <1>4, <2>1, <2>6, CopyIs
    <3>2. \A i \in 1 .. o.str - 1 : n.buf[i] = o.buf[i]
      BY <2>1, <2>6, CopyIs
    <3>3. QuotedName(l, n.buf, n.c, n.str)
      BY <1>1, <2>2, <2>6, <3>1, <3>2, QuotedNameGoesOn
    <3>4. QED
      BY <3>1, <3>3, MarkFacts DEF EnvPlace, n
  <2>7. QED
    BY <2>4, <2>5, <2>6
<1>5. QED
  BY <1>2, <1>3, <1>4

\* A turn behind a name.
LEMMA Eq1Match ==
    ASSUME NEW l \in Seq(Chars \ {NUL}), NEW o, Within(l, o), EnvPlace(l, o), o.c <= Len(l), o.state = "Eq1"
    PROVE  Within(l, Match(o)) /\ EnvPlace(l, Match(o))
<1> DEFINE n == Match(o)
           ch == l[o.c]
<1>1. /\ Len(l) \in Nat /\ o.c \in Nat \ {0} /\ o.str \in Nat \ {0} /\ At(o.buf, o.c) = ch
  BY EnvFacts
<1>2. "Eq1" \in EnvStates /\ "Error" \in EnvStates
  BY DEF EnvStates
<1>3. /\ ch = "=" => n = Equals(o)
      /\ ch = Blank => n = Over(o, "Eq1")
      /\ ch \notin {Blank, "="} => n = Over(o, "Error")
  BY <1>1, MatchIs
<1> HIDE DEF n
<1>4. BehindName(l, o.buf, o.c, o.str)
  BY DEF EnvPlace
<1>5. CASE ch = "="
  <2>1. /\ Within(l, n) /\ n.state = "Eq2" /\ n.c = o.c + 1 /\ n.str = o.str + 1 /\ n.val = o.str + 1
        /\ n.quote = NUL /\ n.buf[o.str] = "="
    BY <1>3, <1>5, EqualsIs
  <2>2. \A i \in 1 .. o.str - 1 : n.buf[i] = o.buf[i]
    BY <1>3, <1>5, EqualsIs
  <2>3. o.str \in Nat /\ o.str > 0
    BY <1>1
  <2>4. BehindEquals(l, n.buf, o.c + 1, o.str + 1, o.str + 1)
    BY <1>1, <1>4, <1>5, <2>1, <2>2, <2>3, BehindNameEnds
  <2>5. BehindEquals(l, n.buf, n.c, n.str, n.val)
    BY <2>1, <2>4
  <2>6. QED
    BY <2>1, <2>5 DEF EnvPlace, n
<1>6. CASE ch = Blank
  <2>1. Within(l, n) /\ n.state = "Eq1" /\ n.c = o.c + 1 /\ n.str = o.str /\ n.buf = o.buf
    BY <1>2, <1>3, <1>6, OverIs
  <2>2. BehindName(l, n.buf, n.c, n.str)
    BY <1>1, <1>4, <1>6, <2>1, BehindNameGoesOn
  <2>3. QED
    BY <2>1, <2>2 DEF EnvPlace, n
<1>7. CASE ch \notin {Blank, "="}
  <2>1. Within(l, n) /\ n.state = "Error"
    BY <1>2, <1>3, <1>7, OverIs
  <2>2. Assignment(l) = {}
    BY <1>1, <1>4, <1>7, BehindNameFails
  <2>3. QED
    BY <2>1, <2>2 DEF EnvPlace, n
<1>8. QED
  BY <1>5, <1>6, <1>7

\* A turn behind the equals sign.
LEMMA Eq2Match ==
    ASSUME NEW l \in Seq(Chars \ {NUL}), NEW o, Within(l, o), EnvPlace(l, o), o.c <= Len(l), o.state = "Eq2"
    PROVE  Within(l, Match(o)) /\ EnvPlace(l, Match(o))
<1> DEFINE n == Match(o)
           ch == l[o.c]
<1>1. /\ Len(l) \in Nat /\ o.c \in Nat \ {0} /\ At(o.buf, o.c) = ch
  BY EnvFacts
<1>2. "Eq2" \in EnvStates /\ "ValueI" \in EnvStates
  BY DEF EnvStates
<1>3. /\ ch = Blank => n = Over(o, "Eq2")
      /\ ch # Blank => n = Goto(o, "ValueI")
  BY <1>1, MatchIs
<1> HIDE DEF n
<1>4. BehindEquals(l, o.buf, o.c, o.str, o.val) /\ o.quote = NUL
  BY DEF EnvPlace
<1>5. CASE ch = Blank
  <2>1. /\ Within(l, n) /\ n.state = "Eq2" /\ n.c = o.c + 1 /\ n.str = o.str /\ n.val = o.val /\ n.buf = o.buf
        /\ n.quote = o.quote
    BY <1>2, <1>3, <1>5, OverIs
  <2>2. BehindEquals(l, n.buf, n.c, n.str, n.val)
    BY <1>1, <1>4, <1>5, <2>1, BehindEqualsGoesOn
  <2>3. QED
    BY <1>4, <2>1, <2>2 DEF EnvPlace, n
<1>6. CASE ch # Blank
  <2>1. /\ Within(l, n) /\ n.state = "ValueI" /\ n.c = o.c /\ n.str = o.str /\ n.val = o.val /\ n.buf = o.buf
        /\ n.quote = o.quote
    <3> DEFINE g == Goto(o, "ValueI")
    <3>1. /\ Within(l, g) /\ g.state = "ValueI" /\ g.c = o.c /\ g.str = o.str /\ g.val = o.val /\ g.buf = o.buf
          /\ g.quote = o.quote
      BY <1>2, GotoIs
    <3>2. n = g
      BY <1>3, <1>6
    <3> HIDE DEF g
    <3>3. QED
      BY <3>1, <3>2
  <2>2. BehindEquals(l, n.buf, n.c, n.str, n.val) /\ n.c <= Len(l) /\ l[n.c] # Blank
    BY <1>4, <1>6, <2>1
  <2>3. QED
    BY <1>4, <2>1, <2>2 DEF EnvPlace, n
<1>7. QED
  BY <1>5, <1>6

\* A turn in a value.
LEMMA ValueMatch ==
    ASSUME NEW l \in Seq(Chars \ {NUL}), NEW o, Within(l, o), EnvPlace(l, o), o.c <= Len(l), o.state = "Value"
    PROVE  Within(l, Match(o)) /\ EnvPlace(l, Match(o))
<1> DEFINE n == Match(o)
           ch == l[o.c]
<1>1. /\ Len(l) \in Nat /\ o.c \in Nat \ {0} /\ o.str \in Nat \ {0} /\ At(o.buf, o.c) = ch
  BY EnvFacts
<1>2. o.quote \in {NUL, Quote} /\ "Fini" \in EnvStates
  BY DEF Within, EnvRecords, EnvStates
<1>3. CASE o.quote = NUL
  <2>1. n = Copy(o)
    BY <1>3, MatchIs
  <2> HIDE DEF n
  <2>2. PlainValue(l, o.buf, o.c, o.str, o.val)
    BY <1>3 DEF EnvPlace
  <2>3. /\ Within(l, n) /\ n.state = "Value" /\ n.c = o.c + 1 /\ n.str = o.str + 1 /\ n.val = o.val
        /\ n.quote = NUL /\ n.buf[o.str] = ch
    BY <1>3, <2>1, CopyIs
  <2>4. \A i \in 1 .. o.str - 1 : n.buf[i] = o.buf[i]
    BY <2>1, CopyIs
  <2>5. PlainValue(l, n.buf, n.c, n.str, n.val)
    BY <1>1, <2>2, <2>3, <2>4, ValueGoesOn
  <2>6. QED
    BY <2>3, <2>5 DEF EnvPlace, n
<1>4. CASE o.quote = Quote
  <2>1. /\ ch = Quote => n = Over(o, "Fini")
        /\ ch # Quote => n = Copy(o)
    BY <1>1, <1>4, MatchIs
  <2> HIDE DEF n
  <2>2. QuotedValue(l, o.buf, o.c, o.str, o.val)
    BY <1>4, MarkFacts DEF EnvPlace
  <2>3. CASE ch = Quote
    <3>1. Within(l, n) /\ n.state = "Fini" /\ n.c = o.c + 1 /\ n.str = o.str /\ n.val = o.val /\ n.buf = o.buf
      BY <1>2, <2>1, <2>3, OverIs
    <3>2. BehindValue(l, n.buf, n.c, n.str, n.val)
      BY <1>1, <2>2, <2>3, <3>1, QuotedValueEnds
    <3>3. QED
      BY <3>1, <3>2 DEF EnvPlace, n
  <2>4. CASE ch # Quote
    <3>1. /\ Within(l, n) /\ n.state = "Value" /\ n.c = o.c + 1 /\ n.str = o.str + 1 /\ n.val = o.val
          /\ n.quote = Quote /\ n.buf[o.str] = ch
      BY <1>4, <2>1, <2>4, CopyIs
    <3>2. \A i \in 1 .. o.str - 1 : n.buf[i] = o.buf[i]
      BY <2>1, <2>4, CopyIs
    <3>3. QuotedValue(l, n.buf, n.c, n.str, n.val)
      BY <1>1, <2>2, <2>4, <3>1, <3>2, QuotedValueGoesOn
    <3>4. QED
      BY <3>1, <3>3, MarkFacts DEF EnvPlace, n
  <2>5. QED
    BY <2>3, <2>4
<1>5. QED
  BY <1>2, <1>3, <1>4

\* A turn behind a quoted value.
LEMMA FiniMatch ==
    ASSUME NEW l \in Seq(Chars \ {NUL}), NEW o, Within(l, o), EnvPlace(l, o), o.c <= Len(l), o.state = "Fini"
    PROVE  Within(l, Match(o)) /\ EnvPlace(l, Match(o))
<1> DEFINE n == Match(o)
           ch == l[o.c]
<1>1. /\ Len(l) \in Nat /\ o.c \in Nat \ {0} /\ At(o.buf, o.c) = ch
  BY EnvFacts
<1>2. "Fini" \in EnvStates /\ "Error" \in EnvStates
  BY DEF EnvStates
<1>3. /\ ch = Blank => n = Over(o, "Fini")
      /\ ch # Blank => n = Goto(o, "Error")
  BY <1>1, MatchIs
<1> HIDE DEF n
<1>4. BehindValue(l, o.buf, o.c, o.str, o.val)
  BY DEF EnvPlace
<1>5. CASE ch = Blank
  <2>1. Within(l, n) /\ n.state = "Fini" /\ n.c = o.c + 1 /\ n.str = o.str /\ n.val = o.val /\ n.buf = o.buf
    BY <1>2, <1>3, <1>5, OverIs
  <2>2. BehindValue(l, n.buf, n.c, n.str, n.val)
    BY <1>1, <1>4, <1>5, <2>1, BehindValueGoesOn
  <2>3. QED
    BY <2>1, <2>2 DEF EnvPlace, n
<1>6. CASE ch # Blank
  <2>1. Within(l, n) /\ n.state = "Error"
    <3> DEFINE g == Goto(o, "Error")
    <3>1. Within(l, g) /\ g.state = "Error"
      BY <1>2, GotoIs
    <3>2. n = g
      BY <1>3, <1>6
    <3> HIDE DEF g
    <3>3. QED
      BY <3>1, <3>2
  <2>2. Assignment(l) = {}
    BY <1>1, <1>4, <1>6, BehindValueFails
  <2>3. QED
    BY <2>1, <2>2 DEF EnvPlace, n
<1>7. QED
  BY <1>5, <1>6

\* Until it is over, a turn leaves it where it says it is.
LEMMA TurnKeeps ==
    ASSUME NEW l \in Seq(Chars \ {NUL}), ~OpensAtEnd(l), NEW e, Within(l, e), EnvPlace(l, e), ~EnvOver(e)
    PROVE  Within(l, EnvStep(e)) /\ EnvPlace(l, EnvStep(e))
<1> DEFINE o == Opened(e)
<1>1. e.c <= Len(l) /\ e.state # "Error"
  <2>1. At(e.buf, e.c) # NUL /\ e.state # "Error"
    BY DEF EnvOver
  <2>2. /\ At(e.buf, e.c) = NUL <=> e.c = Len(l) + 1
        /\ e.c \in Nat /\ Len(l) \in Nat /\ e.c <= Len(l) + 1
    BY EnvFacts
  <2>3. QED
    BY <2>1, <2>2
<1>2. Within(l, o) /\ EnvPlace(l, o) /\ o.c <= Len(l) /\ o.state \in EnvStates \ {"NameI", "ValueI"}
  BY <1>1, OpenedKeeps
<1>3. o.state # "Error"
  <2>1. e.state \notin {"NameI", "ValueI"} => o = e
    BY DEF Opened
  <2>2. e.state \in {"NameI", "ValueI"} => o.state = following[e.state]
    <3>1. e \in EnvRecords
      BY DEF Within
    <3>2. QED
      BY <3>1 DEF Opened, EnvRecords
  <2>3. following["NameI"] = "Name" /\ following["ValueI"] = "Value"
    BY DEF following
  <2>4. QED
    BY <1>1, <2>1, <2>2, <2>3
<1> HIDE DEF o
<1>4. o.state \in {"Name", "Eq1", "Eq2", "Value", "Fini"}
  BY <1>2, <1>3 DEF EnvStates
<1>5. Within(l, Match(o)) /\ EnvPlace(l, Match(o))
  BY <1>2, <1>4, NameMatch, Eq1Match, Eq2Match, ValueMatch, FiniMatch
<1>6. QED
  BY <1>5 DEF EnvStep, o

-----------------------------------------------------------------------------
(* What load_env has in the end.                                           *)

\* Where the text in the buffer is cut.
LEMMA TrimmedIs ==
    ASSUME NEW e, e.buf \in Seq(Chars), e.str \in Nat \ {0}, e.str <= Len(e.buf), NEW d \in 1 .. e.str,
           e.state # "Value" => d = e.str,
           e.state = "Value" => /\ e.val \in Nat \ {0} /\ e.val <= d
                                /\ \A i \in d .. e.str - 1 : e.buf[i] = Blank
                                /\ d > e.val => e.buf[d - 1] # Blank
    PROVE  /\ Trimmed(e) \in Seq(Chars) /\ Len(Trimmed(e)) = Len(e.buf) /\ Trimmed(e)[d] = NUL
           /\ \A i \in 1 .. d - 1 : Trimmed(e)[i] = e.buf[i]
<1> DEFINE IsEnd(k) == \A i \in k .. e.str - 1 : At(e.buf, i) = Blank
           P(k) == IsEnd(k) /\ \A j \in e.val .. k - 1 : ~IsEnd(j)
           end == IF e.state = "Value" THEN CHOOSE k \in e.val .. e.str : P(k) ELSE e.str
           t == [i \in DOMAIN e.buf |-> IF i \in end .. e.str THEN NUL ELSE e.buf[i]]
<1>1. Len(e.buf) \in Nat /\ DOMAIN e.buf = 1 .. Len(e.buf) /\ \A i \in 1 .. Len(e.buf) : e.buf[i] \in Chars
  BY LenProperties, ElementOfSeq
<1>2. Trimmed(e) = t
  BY DEF Trimmed
<1>3. end = d
  <2>1. CASE e.state # "Value"
    BY <2>1
  <2>2. CASE e.state = "Value"
    <3>1. /\ e.val \in Nat \ {0} /\ e.val <= d
          /\ \A i \in d .. e.str - 1 : e.buf[i] = Blank
          /\ d > e.val => e.buf[d - 1] # Blank
      BY <2>2
    <3>2. \A i \in 1 .. e.str : At(e.buf, i) = e.buf[i]
      BY <1>1 DEF At
    <3>3. IsEnd(d)
      <4>1. \A i \in d .. e.str - 1 : i \in 1 .. e.str
        OBVIOUS
      <4>2. QED
        BY <3>1, <3>2, <4>1
    <3>4. ASSUME NEW j \in e.val .. d - 1 PROVE ~IsEnd(j)
      <4>1. d - 1 \in j .. e.str - 1 /\ d - 1 \in 1 .. e.str /\ d > e.val
        BY <3>1
      <4>2. QED
        BY <3>1, <3>2, <4>1
    <3> HIDE DEF IsEnd
    <3>5. ASSUME NEW k \in e.val .. e.str, P(k) PROVE k = d
      <4>1. ~(k < d)
        <5>1. k < d => k \in e.val .. d - 1
          BY <3>1
        <5>2. QED
          BY <3>4, <3>5, <5>1
      <4>2. ~(d < k)
        <5>1. d < k => d \in e.val .. k - 1
          BY <3>1
        <5>2. QED
          BY <3>3, <3>5, <5>1
      <4>3. QED
        BY <3>1, <4>1, <4>2
    <3>6. d \in e.val .. e.str /\ P(d)
      BY <3>1, <3>3, <3>4
    <3>7. (CHOOSE k \in e.val .. e.str : P(k)) = d
      <4> HIDE DEF P
      <4>1. QED
        BY <3>5, <3>6
    <3>8. QED
      BY <2>2, <3>7
  <2>3. QED
    BY <2>1, <2>2
<1> HIDE DEF end
<1>4. t \in Seq(Chars) /\ Len(t) = Len(e.buf)
  <2>1. t = [i \in 1 .. Len(e.buf) |-> IF i \in end .. e.str THEN NUL ELSE e.buf[i]]
    BY <1>1
  <2>2. \A i \in 1 .. Len(e.buf) : (IF i \in end .. e.str THEN NUL ELSE e.buf[i]) \in Chars
    BY <1>1, MarkFacts
  <2> HIDE DEF t
  <2>3. QED
    BY <1>1, <2>1, <2>2, LenProperties
<1>5. t[d] = NUL
  <2>1. d \in 1 .. Len(e.buf) /\ d \in end .. e.str
    BY <1>1, <1>3
  <2>2. QED
    BY <1>1, <2>1
<1>6. ASSUME NEW i \in 1 .. d - 1 PROVE t[i] = e.buf[i]
  <2>1. i \in 1 .. Len(e.buf) /\ i \notin end .. e.str
    BY <1>1, <1>3
  <2>2. QED
    BY <1>1, <2>1
<1> HIDE DEF t
<1>7. QED
  BY <1>2, <1>4, <1>5, <1>6

\* In b, from v, is the value y that the line has from j to m, behind its name and the equals
\* sign at q; t is cut behind it, at d.
Complete(l, b, v, t, q, k, j, m, y, d) ==
    /\ v \in Nat /\ t \in Seq(Chars)
    /\ q \in 1 .. Len(l) /\ k \in 0 .. q - 1 /\ Named(l, b, k, q, v)
    /\ j \in q + 1 .. Len(l) + 1 /\ Blanks(l, q + 1, j - 1) /\ (j <= Len(l) => l[j] # Blank)
    /\ m \in j - 1 .. Len(l) /\ Blanks(l, m + 1, Len(l)) /\ (m >= j => l[m] # Blank)
    /\ y \in ValueSays(SubSeq(l, j, m)) /\ y \in Seq(Chars \ {NUL})
    /\ \A i \in 1 .. Len(y) : b[v - 1 + i] = y[i]
    /\ d \in Nat /\ d = v + Len(y) /\ d <= Len(t) /\ t[d] = NUL /\ \A i \in 1 .. d - 1 : t[i] = b[i]

\* Such a line is an assignment, of that name and value.
LEMMA Assigns ==
    ASSUME NEW l \in Seq(Chars \ {NUL}), NEW b, NEW v, NEW t, NEW q, NEW k, NEW j, NEW m, NEW y, NEW d,
           Complete(l, b, v, t, q, k, j, m, y, d)
    PROVE  UpTo(t, NUL) \in Assignment(l)
<1>1. /\ v \in Nat /\ t \in Seq(Chars)
      /\ q \in 1 .. Len(l) /\ k \in 0 .. q - 1 /\ Named(l, b, k, q, v)
      /\ j \in q + 1 .. Len(l) + 1 /\ Blanks(l, q + 1, j - 1) /\ (j <= Len(l) => l[j] # Blank)
      /\ m \in j - 1 .. Len(l) /\ Blanks(l, m + 1, Len(l)) /\ (m >= j => l[m] # Blank)
  BY DEF Complete
<1>2. /\ y \in ValueSays(SubSeq(l, j, m)) /\ y \in Seq(Chars \ {NUL})
      /\ \A i \in 1 .. Len(y) : b[v - 1 + i] = y[i]
  BY DEF Complete
<1>3. d \in Nat /\ d = v + Len(y) /\ d <= Len(t) /\ t[d] = NUL /\ \A i \in 1 .. d - 1 : t[i] = b[i]
  BY DEF Complete
<1>4. PICK x \in NamesRead(Chars \ {NUL}, l, b, k, v) : TRUE
  BY <1>1, NamedText
<1>5. /\ q \in Nat /\ Len(l) \in Nat /\ v > 1 /\ b[v - 1] = "=" /\ Len(y) \in Nat
      /\ Blanks(l, k + 1, q - 1)
  BY <1>1, <1>2, LenProperties DEF Named
<1>6. l[q] = "=" /\ (\A i \in 1 .. q - 1 : l[i] # "=") /\ (k > 0 => l[k] # Blank)
  <2>1. l[q] = "=" /\ \A i \in 1 .. q - 1 : l[i] # "="
    BY <1>1, <1>5, NamedPlace
  <2>2. k > 0 => l[k] # Blank
    BY <1>1, <1>5, NamedPlace
  <2>3. QED
    BY <2>1, <2>2
<1>7. Assignment(l) = Assigned(NameSays(SubSeq(l, 1, k)), ValueSays(SubSeq(l, j, m)))
  BY <1>1, <1>5, <1>6, AssignmentAt
<1>8. /\ x \in NameSays(SubSeq(l, 1, k)) /\ x \in Seq(Chars \ {NUL}) /\ Len(x) = v - 2
      /\ \A i \in 1 .. v - 2 : b[i] = x[i]
  BY DEF NamesRead
<1>9. \A i \in 1 .. Len(x) : t[i] = x[i]
  <2>1. \A i \in 1 .. Len(x) : i \in 1 .. v - 2 /\ i \in 1 .. d - 1
    <3>1. Len(x) = v - 2
      BY <1>8
    <3>2. v - 2 <= d - 1
      <4>1. Len(y) \in Nat
        BY <1>5
      <4>2. v \in Nat /\ d = v + Len(y)
        BY <1>1, <1>3
      <4>3. QED
        BY <4>1, <4>2
    <3>3. v \in Nat /\ d \in Nat
      BY <1>1, <1>3
    <3>4. QED
      BY <3>1, <3>2, <3>3
  <2>2. QED
    BY <1>8, <1>3, <2>1
<1>10. t[Len(x) + 1] = "="
  <2>1. Len(x) + 1 = v - 1 /\ v - 1 \in 1 .. d - 1
    BY <1>1, <1>3, <1>5, <1>8
  <2>2. QED
    BY <1>5, <1>3, <2>1
<1>11. \A i \in 1 .. Len(y) : t[Len(x) + 1 + i] = y[i]
  <2>1. \A i \in 1 .. Len(y) : Len(x) + 1 + i = v - 1 + i /\ v - 1 + i \in 1 .. d - 1
    BY <1>1, <1>3, <1>5, <1>8
  <2>2. QED
    BY <1>2, <1>3, <2>1
<1>12. Len(x) + Len(y) + 2 = d
  BY <1>1, <1>3, <1>5, <1>8
<1>13. Len(x) + Len(y) + 2 <= Len(t) /\ t[Len(x) + Len(y) + 2] = NUL
  BY <1>3, <1>12
<1>14. UpTo(t, NUL) = x \o <<"=">> \o y
  BY <1>1, <1>2, <1>8, <1>9, <1>10, <1>11, <1>13, BufferIs
<1>15. x \o <<"=">> \o y \in Assignment(l)
  <2>1. x \in NameSays(SubSeq(l, 1, k)) /\ y \in ValueSays(SubSeq(l, j, m))
    BY <1>8, <1>2
  <2>2. x \o <<"=">> \o y \in Assigned(NameSays(SubSeq(l, 1, k)), ValueSays(SubSeq(l, j, m)))
    BY <2>1, AssignedFacts
  <2>3. QED
    BY <1>7, <2>2
<1>16. QED
  BY <1>14, <1>15

\* Without an equals sign so far.
LEMMA NameOver ==
    ASSUME NEW l \in Seq(Chars \ {NUL}), NEW e, Within(l, e), EnvPlace(l, e), e.c = Len(l) + 1,
           e.state \in {"NameI", "Name", "Eq1"}
    PROVE  Assignment(l) = {}
<1>1. Len(l) \in Nat /\ e.quote \in {NUL, Quote}
  BY EnvFacts DEF Within, EnvRecords
<1>2. \A i \in 1 .. Len(l) : l[i] # "="
  <2>1. CASE e.state = "NameI"
    <3>1. Len(l) = 0
      BY <1>1, <2>1 DEF EnvPlace
    <3>2. QED
      BY <3>1
  <2>2. CASE e.state = "Name" /\ e.quote = NUL
    <3>1. NameRead(l, e.buf, e.c - 1, e.c)
      BY <2>2 DEF EnvPlace, PlainName
    <3>2. e.c - 1 = Len(l) /\ e.c # (e.c - 1) - 1
      BY <1>1
    <3>3. QED
      BY <3>1, <3>2 DEF NameRead
  <2>3. CASE e.state = "Name" /\ e.quote = Quote
    <3>1. l[1] = Quote /\ \A i \in 2 .. e.c - 1 : l[i] \notin {Quote, "="}
      BY <2>3, MarkFacts DEF EnvPlace, QuotedName
    <3>2. \A i \in 1 .. Len(l) : i = 1 \/ i \in 2 .. e.c - 1
      BY <1>1
    <3>3. QED
      BY <3>1, <3>2, MarkFacts
  <2>4. CASE e.state = "Eq1"
    <3>1. BehindName(l, e.buf, e.c, e.str)
      BY <2>4 DEF EnvPlace
    <3>2. PICK k \in 0 .. e.c - 1 : NameRead(l, e.buf, k, e.str) /\ Blanks(l, k + 1, e.c - 1)
      BY <3>1 DEF BehindName
    <3>3. e.c - 1 = Len(l)
      BY <1>1
    <3>4. ASSUME NEW i \in 1 .. Len(l) PROVE l[i] # "="
      <4>1. CASE i \in k + 1 .. Len(l)
        BY <3>2, <3>3, <4>1, MarkFacts DEF Blanks
      <4>2. CASE i \in 1 .. k
        <5>1. CASE \A x \in 1 .. k : l[x] \notin {Blank, "="} /\ e.buf[x] = l[x]
          BY <4>2, <5>1
        <5>2. CASE /\ l[1] = Quote /\ l[k] = Quote
                   /\ \A x \in 2 .. k - 1 : l[x] \notin {Quote, "="} /\ e.buf[x - 1] = l[x]
          <6>1. i = 1 \/ i = k \/ i \in 2 .. k - 1
            BY <4>2
          <6>2. QED
            BY <5>2, <6>1, MarkFacts
        <5>3. QED
          BY <3>2, <5>1, <5>2 DEF NameRead
      <4>3. i \in 1 .. k \/ i \in k + 1 .. Len(l)
        BY <1>1, <3>2, <3>3, <3>4
      <4>4. QED
        BY <4>1, <4>2, <4>3
    <3>5. QED
      BY <3>4
  <2>5. QED
    BY <1>1, <2>1, <2>2, <2>3, <2>4
<1>3. QED
  BY <1>2, NoEquals

\* Behind the equals sign: an empty value.
LEMMA Eq2Over ==
    ASSUME NEW l \in Seq(Chars \ {NUL}), NEW e, Within(l, e), EnvPlace(l, e), e.c = Len(l) + 1, e.state = "Eq2"
    PROVE  UpTo(Trimmed(e), NUL) \in Assignment(l)
<1> DEFINE b == e.buf
           v == e.val
           t == Trimmed(e)
           s == e.str
           c == e.c
           y == SubSeq(l, Len(l) + 1, Len(l))
<1>1. /\ Len(l) \in Nat /\ b \in Seq(Chars) /\ s \in Nat \ {0} /\ s <= Len(b) /\ Len(b) \in Nat
  BY EnvFacts
<1>2. BehindEquals(l, b, c, s, v)
  BY DEF EnvPlace
<1>3. /\ t \in Seq(Chars) /\ Len(t) = Len(b) /\ t[s] = NUL
      /\ \A i \in 1 .. s - 1 : t[i] = b[i]
  <2>1. e.state # "Value" /\ s \in 1 .. s
    BY <1>1
  <2>2. QED
    BY <1>1, <2>1, TrimmedIs
<1>4. c = Len(l) + 1
  OBVIOUS
<1> HIDE DEF b, v, t, s, c
<1>5. PICK q \in 1 .. c - 1 : (\E k \in 0 .. q - 1 : Named(l, b, k, q, v)) /\ Blanks(l, q + 1, c - 1)
  BY <1>2 DEF BehindEquals
<1>6. PICK k \in 0 .. q - 1 : Named(l, b, k, q, v)
  BY <1>5
<1>7. s = v /\ v \in Nat /\ q \in 1 .. Len(l) /\ c - 1 = Len(l)
  BY <1>1, <1>2, <1>4, <1>5, <1>6 DEF BehindEquals, Named
<1>9. y \in ValueSays(SubSeq(l, Len(l) + 1, Len(l)))
  <2>1. Len(l) + 1 \in Nat \ {0} /\ ~(Len(l) + 1 <= Len(l)) /\ Len(l) <= Len(l)
    BY <1>1
  <2>2. QED
    BY <1>1, <2>1, ValueText
<1>10. y = << >> /\ Len(y) = 0 /\ y \in Seq(Chars \ {NUL})
  <2>1. y = << >>
    BY <1>1, SubSeqEmpty
  <2>2. QED
    BY <2>1
<1> HIDE DEF y
<1>11. /\ Len(l) + 1 \in q + 1 .. Len(l) + 1 /\ (Len(l) + 1) - 1 = Len(l) /\ ~(Len(l) + 1 <= Len(l))
       /\ Len(l) \in (Len(l) + 1) - 1 .. Len(l) /\ ~(Len(l) >= Len(l) + 1)
  BY <1>1, <1>7
<1>12. Blanks(l, q + 1, (Len(l) + 1) - 1) /\ Blanks(l, Len(l) + 1, Len(l))
  BY <1>1, <1>5, <1>7, <1>11 DEF Blanks
<1>13. /\ \A i \in 1 .. Len(y) : b[v - 1 + i] = y[i]
       /\ s \in Nat /\ s = v + Len(y) /\ s <= Len(t)
  BY <1>1, <1>3, <1>7, <1>10
<1>14. Complete(l, b, v, t, q, k, Len(l) + 1, Len(l), y, s)
  BY <1>3, <1>6, <1>7, <1>9, <1>10, <1>11, <1>12, <1>13 DEF Complete
<1>15. QED
  BY <1>14, Assigns DEF t

\* A plain value, whose blanks at the end are cut.
LEMMA ValueOver ==
    ASSUME NEW l \in Seq(Chars \ {NUL}), NEW e, Within(l, e), EnvPlace(l, e), e.c = Len(l) + 1,
           e.state = "Value", e.quote = NUL
    PROVE  UpTo(Trimmed(e), NUL) \in Assignment(l)
<1> DEFINE b == e.buf
           v == e.val
           t == Trimmed(e)
           s == e.str
           c == e.c
<1>1. /\ Len(l) \in Nat /\ b \in Seq(Chars) /\ s \in Nat \ {0} /\ s <= Len(b) /\ Len(b) \in Nat
  BY EnvFacts
<1>2. PlainValue(l, b, c, s, v) /\ c = Len(l) + 1
  BY DEF EnvPlace
<1>3. ASSUME NEW d \in 1 .. s, v \in Nat \ {0}, v <= d, \A i \in d .. s - 1 : b[i] = Blank,
             d > v => b[d - 1] # Blank
      PROVE  /\ t \in Seq(Chars) /\ Len(t) = Len(b) /\ t[d] = NUL
             /\ \A i \in 1 .. d - 1 : t[i] = b[i]
  BY <1>1, <1>3, TrimmedIs
<1> HIDE DEF b, v, t, s, c
<1>4. PICK j \in 2 .. c : /\ \E q \in 1 .. j - 1 : Valued(l, b, v, q, j)
                          /\ l[j] \notin {Blank, Quote} /\ s = v + (c - j) /\ Copied(l, b, v, j, c - j)
  BY <1>2 DEF PlainValue
<1>5. PICK q \in 1 .. j - 1 : Valued(l, b, v, q, j)
  BY <1>4
<1>6. PICK k \in 0 .. q - 1 : Named(l, b, k, q, v)
  BY <1>5 DEF Valued
<1>7. v \in Nat /\ v > 1 /\ j <= Len(l) /\ Blanks(l, q + 1, j - 1) /\ j \in Nat /\ q \in Nat
  BY <1>5, <1>6 DEF Valued, Named
<1>8. PICK m \in j .. Len(l) : Blanks(l, m + 1, Len(l)) /\ (m > j => l[m] # Blank)
  BY <1>1, <1>7, LastOther
<1>9. l[m] # Blank
  BY <1>1, <1>4, <1>7, <1>8
<1> DEFINE d == v + (m - j + 1)
           y == SubSeq(l, j, m)
<1>10. /\ d \in 1 .. s /\ v <= d /\ d > v /\ d \in Nat /\ d <= Len(b)
  BY <1>1, <1>2, <1>4, <1>7, <1>8
<1>11. ASSUME NEW x \in 0 .. Len(l) - j PROVE b[v + x] = l[j + x]
  <2>1. x \in 0 .. (c - j) - 1
    BY <1>1, <1>2, <1>7
  <2>2. QED
    BY <1>4, <2>1 DEF Copied
<1>12. ASSUME NEW i \in d .. s - 1 PROVE b[i] = Blank
  <2>1. i - v \in 0 .. Len(l) - j /\ v + (i - v) = i /\ j + (i - v) \in m + 1 .. Len(l)
    BY <1>1, <1>2, <1>4, <1>7, <1>8, <1>10, <1>12
  <2>2. QED
    BY <1>8, <1>11, <2>1 DEF Blanks
<1>13. b[d - 1] # Blank
  <2>1. m - j \in 0 .. Len(l) - j /\ v + (m - j) = d - 1 /\ j + (m - j) = m
    BY <1>1, <1>7, <1>8
  <2>2. QED
    BY <1>9, <1>11, <2>1
<1>14. /\ t \in Seq(Chars) /\ Len(t) = Len(b) /\ t[d] = NUL
       /\ \A i \in 1 .. d - 1 : t[i] = b[i]
  <2> HIDE DEF d
  <2>1. v \in Nat \ {0}
    BY <1>7
  <2>2. QED
    BY <1>3, <1>10, <1>12, <1>13, <2>1
<1>15. y \in ValueSays(SubSeq(l, j, m))
  <2>1. j \in Nat \ {0} /\ m \in Nat /\ m <= Len(l) /\ l[j] # Quote
    BY <1>1, <1>4, <1>7, <1>8
  <2>2. QED
    BY <2>1, ValueText
<1>16. /\ y \in Seq(Chars \ {NUL}) /\ Len(y) = m - j + 1
       /\ \A i \in 1 .. m - j + 1 : y[i] = l[j + i - 1]
  <2>1. j \in Nat \ {0} /\ m \in Nat /\ m <= Len(l) /\ j <= m
    BY <1>1, <1>4, <1>7, <1>8
  <2>2. /\ y \in Seq(Chars \ {NUL}) /\ Len(y) = IF j <= m THEN m - j + 1 ELSE 0
        /\ \A i \in 1 .. m - j + 1 : y[i] = l[j + i - 1]
    BY <2>1, Part
  <2> HIDE DEF y
  <2>3. QED
    BY <2>1, <2>2
<1> HIDE DEF y
<1>17. ASSUME NEW i \in 1 .. Len(y) PROVE b[v - 1 + i] = y[i]
  <2>1. i \in 1 .. m - j + 1 /\ i - 1 \in 0 .. Len(l) - j /\ v + (i - 1) = v - 1 + i /\ j + (i - 1) = j + i - 1
    BY <1>1, <1>7, <1>8, <1>16
  <2>2. QED
    BY <1>11, <1>16, <2>1
<1>18. d = v + Len(y) /\ d <= Len(t)
  BY <1>10, <1>14, <1>16
<1>19. q \in 1 .. Len(l) /\ j \in q + 1 .. Len(l) + 1 /\ m \in j - 1 .. Len(l) /\ l[j] # Blank
  BY <1>1, <1>4, <1>5, <1>7, <1>8
<1> HIDE DEF d
<1>20. Complete(l, b, v, t, q, k, j, m, y, d)
  BY <1>6, <1>7, <1>8, <1>9, <1>10, <1>14, <1>15, <1>16, <1>17, <1>18, <1>19 DEF Complete
<1>21. QED
  BY <1>20, Assigns DEF t

\* A quoted value whose quote stays open is none.
LEMMA QuotedValueOver ==
    ASSUME NEW l \in Seq(Chars \ {NUL}), NEW e, Within(l, e), EnvPlace(l, e), e.c = Len(l) + 1,
           e.state = "Value", e.quote # NUL
    PROVE  Assignment(l) = {}
<1> DEFINE b == e.buf
           v == e.val
           s == e.str
           c == e.c
<1>1. Len(l) \in Nat
  BY EnvFacts
<1>2. QuotedValue(l, b, c, s, v) /\ c = Len(l) + 1
  BY DEF EnvPlace
<1> HIDE DEF b, v, s, c
<1>3. PICK j \in 2 .. c - 1 : /\ \E q \in 1 .. j - 1 : Valued(l, b, v, q, j)
                              /\ l[j] = Quote /\ \A i \in j + 1 .. c - 1 : l[i] # Quote
  BY <1>2 DEF QuotedValue
<1>4. PICK q \in 1 .. j - 1 : Valued(l, b, v, q, j)
  BY <1>3
<1>5. PICK k \in 0 .. q - 1 : Named(l, b, k, q, v)
  BY <1>4 DEF Valued
<1>6. j <= Len(l) /\ Blanks(l, q + 1, j - 1) /\ j \in Nat /\ q \in Nat
  BY <1>4 DEF Valued
<1>7. l[q] = "=" /\ \A i \in 1 .. q - 1 : l[i] # "="
  BY <1>5, <1>6, NamedPlace
<1>8. q \in 1 .. Len(l) /\ j \in q + 1 .. Len(l) + 1 /\ l[j] # Blank
  BY <1>1, <1>3, <1>4, <1>6, MarkFacts
<1>9. ASSUME NEW m \in j - 1 .. Len(l), Blanks(l, m + 1, Len(l)) PROVE ValueSays(SubSeq(l, j, m)) = {}
  <2>1. j <= m
    <3>1. j \notin m + 1 .. Len(l)
      BY <1>8, <1>9 DEF Blanks
    <3>2. QED
      BY <1>6, <3>1
  <2>2. ~(j < m /\ l[m] = Quote /\ \A x \in j + 1 .. m - 1 : l[x] # Quote)
    <3>1. j < m => m \in j + 1 .. c - 1
      BY <1>1, <1>2, <1>6
    <3>2. QED
      BY <1>3, <3>1
  <2>3. j \in Nat \ {0} /\ m \in Nat /\ m <= Len(l)
    BY <1>1, <1>6, <2>1
  <2>4. QED
    BY <1>3, <2>1, <2>2, <2>3, ValueText
<1>10. QED
  BY <1>6, <1>7, <1>8, <1>9, ValueFails

\* A quoted value and blanks.
LEMMA FiniOver ==
    ASSUME NEW l \in Seq(Chars \ {NUL}), NEW e, Within(l, e), EnvPlace(l, e), e.c = Len(l) + 1, e.state = "Fini"
    PROVE  UpTo(Trimmed(e), NUL) \in Assignment(l)
<1> DEFINE b == e.buf
           v == e.val
           t == Trimmed(e)
           s == e.str
           c == e.c
<1>1. /\ Len(l) \in Nat /\ b \in Seq(Chars) /\ s \in Nat \ {0} /\ s <= Len(b) /\ Len(b) \in Nat
  BY EnvFacts
<1>2. BehindValue(l, b, c, s, v) /\ c = Len(l) + 1
  BY DEF EnvPlace
<1>3. /\ t \in Seq(Chars) /\ Len(t) = Len(b) /\ t[s] = NUL
      /\ \A i \in 1 .. s - 1 : t[i] = b[i]
  <2>1. e.state # "Value" /\ s \in 1 .. s
    BY <1>1
  <2>2. QED
    BY <1>1, <2>1, TrimmedIs
<1> HIDE DEF b, v, t, s, c
<1>4. PICK j \in 2 .. c - 1 : /\ \E q \in 1 .. j - 1 : Valued(l, b, v, q, j)
                              /\ \E w \in j + 1 .. c - 1 :
                                   /\ l[j] = Quote /\ l[w] = Quote
                                   /\ s = v + (w - j - 1) /\ Copied(l, b, v, j + 1, w - j - 1)
                                   /\ \A i \in j + 1 .. w - 1 : l[i] # Quote
                                   /\ Blanks(l, w + 1, c - 1)
  BY <1>2 DEF BehindValue
<1>5. PICK w \in j + 1 .. c - 1 :
                                   /\ l[j] = Quote /\ l[w] = Quote
                                   /\ s = v + (w - j - 1) /\ Copied(l, b, v, j + 1, w - j - 1)
                                   /\ \A i \in j + 1 .. w - 1 : l[i] # Quote
                                   /\ Blanks(l, w + 1, c - 1)
  BY <1>4
<1>6. PICK q \in 1 .. j - 1 : Valued(l, b, v, q, j)
  BY <1>4
<1>7. PICK k \in 0 .. q - 1 : Named(l, b, k, q, v)
  BY <1>6 DEF Valued
<1>8. v \in Nat /\ v > 1 /\ j <= Len(l) /\ Blanks(l, q + 1, j - 1) /\ j \in Nat /\ q \in Nat
  BY <1>6, <1>7 DEF Valued, Named
<1>9. c - 1 = Len(l)
  BY <1>1, <1>2
<1> DEFINE y == SubSeq(l, j + 1, w - 1)
<1>10. y \in ValueSays(SubSeq(l, j, w))
  <2>1. j \in Nat \ {0} /\ w \in Nat /\ w <= Len(l) /\ j < w
    BY <1>1, <1>4, <1>5, <1>8, <1>9
  <2>2. QED
    BY <1>5, <2>1, ValueText
<1>11. /\ y \in Seq(Chars \ {NUL}) /\ Len(y) = w - j - 1
       /\ \A i \in 1 .. w - j - 1 : y[i] = l[j + i]
  <2>1. /\ j + 1 \in Nat \ {0} /\ w - 1 \in Nat /\ w - 1 <= Len(l) /\ (w - 1) - (j + 1) + 1 = w - j - 1
        /\ (~(j + 1 <= w - 1) => w - j - 1 = 0)
        /\ \A i \in 1 .. w - j - 1 : (j + 1) + i - 1 = j + i
    BY <1>1, <1>5, <1>8, <1>9
  <2>2. /\ y \in Seq(Chars \ {NUL}) /\ Len(y) = IF j + 1 <= w - 1 THEN (w - 1) - (j + 1) + 1 ELSE 0
        /\ \A i \in 1 .. (w - 1) - (j + 1) + 1 : y[i] = l[(j + 1) + i - 1]
    BY <2>1, Part
  <2> HIDE DEF y
  <2>3. Len(y) = w - j - 1
    BY <2>1, <2>2
  <2>4. ASSUME NEW i \in 1 .. w - j - 1 PROVE y[i] = l[j + i]
    <3>1. (j + 1) + i - 1 = j + i /\ i \in 1 .. (w - 1) - (j + 1) + 1
      BY <2>1
    <3>2. y[i] = l[(j + 1) + i - 1]
      BY <2>2, <3>1
    <3>3. QED
      BY <3>1, <3>2
  <2>5. QED
    BY <2>2, <2>3, <2>4
<1> HIDE DEF y
<1>12. ASSUME NEW i \in 1 .. Len(y) PROVE b[v - 1 + i] = y[i]
  <2>1. i \in 1 .. w - j - 1 /\ i - 1 \in 0 .. (w - j - 1) - 1 /\ v + (i - 1) = v - 1 + i /\ j + 1 + (i - 1) = j + i
    BY <1>5, <1>8, <1>11
  <2>2. QED
    BY <1>5, <1>11, <2>1 DEF Copied
<1>13. s \in Nat /\ s = v + Len(y) /\ s <= Len(t)
  BY <1>1, <1>3, <1>5, <1>11
<1>14. q \in 1 .. Len(l) /\ j \in q + 1 .. Len(l) + 1 /\ w \in j - 1 .. Len(l)
  BY <1>1, <1>5, <1>6, <1>8, <1>9
<1>15. l[j] # Blank /\ l[w] # Blank /\ Blanks(l, w + 1, Len(l))
  BY <1>5, <1>9, MarkFacts
<1>16. Complete(l, b, v, t, q, k, j, w, y, s)
  BY <1>3, <1>7, <1>8, <1>10, <1>11, <1>12, <1>13, <1>14, <1>15 DEF Complete
<1>17. QED
  BY <1>16, Assigns DEF t

\* load_env has found the assignment of the line, or that there is none.
LEMMA EnvEnds ==
    ASSUME NEW l \in Seq(Chars \ {NUL}), ~OpensAtEnd(l), NEW e, Within(l, e), EnvPlace(l, e), EnvOver(e)
    PROVE  /\ IsAssignment(e) <=> (Assignment(l) # {})
           /\ IsAssignment(e) => UpTo(Trimmed(e), NUL) \in Assignment(l)
<1>1. e.state \in EnvStates /\ e.quote \in {NUL, Quote}
  BY DEF Within, EnvRecords
<1>2. CASE e.state = "Error"
  <2>1. Assignment(l) = {}
    BY <1>2 DEF EnvPlace
  <2>2. ~IsAssignment(e)
    BY <1>2 DEF IsAssignment
  <2>3. QED
    BY <2>1, <2>2
<1>3. CASE e.state # "Error"
  <2>1. e.c = Len(l) + 1
    <3>1. At(e.buf, e.c) = NUL
      BY <1>3 DEF EnvOver
    <3>2. QED
      BY <3>1, EnvFacts
  <2>2. CASE e.state \in {"NameI", "Name", "Eq1"}
    <3>1. Assignment(l) = {}
      BY <2>1, <2>2, NameOver
    <3>2. ~IsAssignment(e)
      BY <2>2 DEF IsAssignment
    <3>3. QED
      BY <3>1, <3>2
  <2>3. CASE e.state = "Eq2"
    <3>1. IsAssignment(e)
      BY <2>3 DEF IsAssignment
    <3>2. QED
      BY <2>1, <2>3, <3>1, Eq2Over
  <2>4. CASE e.state = "ValueI"
    <3>1. e.c <= Len(l) /\ Len(l) \in Nat
      BY <2>4, EnvFacts DEF EnvPlace
    <3>2. QED
      BY <2>1, <3>1
  <2>5. CASE e.state = "Value" /\ e.quote = NUL
    <3>1. IsAssignment(e)
      BY <2>5 DEF IsAssignment
    <3>2. QED
      BY <2>1, <2>5, <3>1, ValueOver
  <2>6. CASE e.state = "Value" /\ e.quote # NUL
    <3>1. Assignment(l) = {}
      BY <2>1, <2>6, QuotedValueOver
    <3>2. ~IsAssignment(e)
      BY <2>6 DEF IsAssignment
    <3>3. QED
      BY <3>1, <3>2
  <2>7. CASE e.state = "Fini"
    <3>1. IsAssignment(e)
      BY <2>7 DEF IsAssignment
    <3>2. QED
      BY <2>1, <2>7, <3>1, FiniOver
  <2>8. e.state \in {"NameI", "Name", "Eq1"} \/ e.state \in {"Eq2", "ValueI", "Value", "Fini"}
    BY <1>1, <1>3 DEF EnvStates
  <2>9. QED
    BY <2>2, <2>3, <2>4, <2>5, <2>6, <2>7, <2>8
<1>4. QED
  BY <1>2, <1>3

-----------------------------------------------------------------------------
(* load_env over the lines of a file.                                      *)

\* A character of the buffer, or of none behind it.
LEMMA AtChars ==
    ASSUME NEW b \in Seq(Chars), NEW i \in Nat \ {0}
    PROVE  At(b, i) \in Chars
<1>1. Len(b) \in Nat /\ \A x \in 1 .. Len(b) : b[x] \in Chars
  BY LenProperties, ElementOfSeq
<1>2. i <= Len(b) => i \in 1 .. Len(b)
  BY <1>1
<1>3. QED
  BY <1>1, <1>2, MarkFacts DEF At

\* Put keeps the buffer one of its size, and writes nothing behind it.
LEMMA PutChars ==
    ASSUME NEW b \in Seq(Chars), NEW i \in Nat \ {0}, NEW x \in Chars
    PROVE  Put(b, i, x) \in Seq(Chars) /\ Len(Put(b, i, x)) = Len(b)
<1>1. CASE i <= Len(b)
  BY <1>1, PutIs
<1>2. CASE ~(i <= Len(b))
  BY <1>2 DEF Put
<1>3. QED
  BY <1>1, <1>2

\* A turn does so for any text.
LEMMA TurnStays ==
    ASSUME NEW e, EnvBuffer(e)
    PROVE  EnvBuffer(EnvStep(e))
<1> DEFINE o == Opened(e)
<1>1. /\ e \in EnvRecords /\ e.c \in Nat \ {0} /\ e.str \in Nat \ {0} /\ Len(e.buf) = MAX_ENVSTR
      /\ e.state \in EnvStates /\ e.buf \in Seq(Chars) /\ e.quote \in {NUL, Quote} /\ e.val \in Nat
  BY DEF EnvBuffer, EnvRecords
<1>2. \A s \in DOMAIN following : following[s] \in EnvStates
  BY DEF following, EnvStates
<1>3. {"NameI", "ValueI", "Name", "Value", "Eq2", "Fini"} \subseteq DOMAIN following
  BY DEF following
<1>4. EnvBuffer(o)
  <2>1. CASE e.state \notin {"NameI", "ValueI"}
    BY <2>1 DEF Opened
  <2>2. CASE e.state \in {"NameI", "ValueI"}
    <3> DEFINE s == following[e.state]
               q == IF At(e.buf, e.c) = Quote THEN Quote ELSE e.quote
               c == IF At(e.buf, e.c) = Quote THEN e.c + 1 ELSE e.c
    <3>1. s \in EnvStates
      BY <1>2, <1>3, <2>2
    <3>2. q \in {NUL, Quote}
      BY <1>1
    <3>3. c \in Nat \ {0}
      BY <1>1
    <3>4. o = [e EXCEPT !.state = s, !.quote = q, !.c = c]
      BY <2>2 DEF Opened
    <3> HIDE DEF s, q, c, o, EnvStates
    <3>5. o \in EnvRecords
      BY <1>1, <3>1, <3>2, <3>3, <3>4 DEF EnvRecords
    <3>6. o.c = c /\ o.str = e.str /\ o.buf = e.buf
      BY <1>1, <3>4 DEF EnvRecords
    <3>7. QED
      BY <1>1, <3>3, <3>5, <3>6 DEF EnvBuffer, o
  <2>3. QED
    BY <2>1, <2>2
<1> HIDE DEF o
<1>5. /\ o \in EnvRecords /\ o.c \in Nat \ {0} /\ o.str \in Nat \ {0} /\ Len(o.buf) = MAX_ENVSTR
      /\ o.state \in EnvStates /\ o.buf \in Seq(Chars) /\ o.quote \in {NUL, Quote} /\ o.val \in Nat
      /\ o.c + 1 \in Nat \ {0} /\ o.str + 1 \in Nat \ {0}
  BY <1>4 DEF EnvBuffer, EnvRecords
<1>6. ASSUME NEW s \in EnvStates PROVE EnvBuffer(Over(o, s)) /\ EnvBuffer(Goto(o, s))
  <2> HIDE DEF EnvStates
  <2>1. Over(o, s) \in EnvRecords /\ Over(o, s).c = o.c + 1 /\ Over(o, s).str = o.str /\ Over(o, s).buf = o.buf
    BY <1>5 DEF Over, EnvRecords
  <2>2. Goto(o, s) \in EnvRecords /\ Goto(o, s).c = o.c /\ Goto(o, s).str = o.str /\ Goto(o, s).buf = o.buf
    BY <1>5 DEF Goto, EnvRecords
  <2>3. QED
    BY <1>5, <2>1, <2>2 DEF EnvBuffer
<1>7. EnvBuffer(Copy(o))
  <2> DEFINE f == Put(o.buf, o.str, At(o.buf, o.c))
  <2>1. At(o.buf, o.c) \in Chars
    BY <1>5, AtChars
  <2>2. f \in Seq(Chars) /\ Len(f) = Len(o.buf)
    BY <1>5, <2>1, PutChars
  <2>3. Copy(o) = [o EXCEPT !.buf = f, !.str = @ + 1, !.c = @ + 1]
    BY DEF Copy
  <2> HIDE DEF f, EnvStates
  <2>4. Copy(o) \in EnvRecords /\ Copy(o).c = o.c + 1 /\ Copy(o).str = o.str + 1 /\ Copy(o).buf = f
    BY <1>5, <2>2, <2>3 DEF EnvRecords
  <2>5. QED
    BY <1>5, <2>2, <2>4 DEF EnvBuffer
<1>8. EnvBuffer(Equals(o))
  <2> DEFINE f == Put(o.buf, o.str, "=")
             g == EqualsKeepsQuote(o)
  <2>1. f \in Seq(Chars) /\ Len(f) = Len(o.buf)
    BY <1>5, MarkFacts, PutChars
  <2>2. "Eq2" \in EnvStates
    BY DEF EnvStates
  <2>3. g = [o EXCEPT !.state = "Eq2", !.buf = f, !.str = @ + 1, !.val = o.str + 1, !.c = @ + 1]
    BY DEF EqualsKeepsQuote
  <2> HIDE DEF f, EnvStates, g
  <2>4. g \in EnvRecords /\ g.c = o.c + 1 /\ g.str = o.str + 1 /\ g.buf = f
    BY <1>5, <2>1, <2>2, <2>3 DEF EnvRecords
  <2>5. Equals(o) = [g EXCEPT !.quote = NUL]
    BY DEF Equals, g
  <2>6. Equals(o) \in EnvRecords /\ Equals(o).c = g.c /\ Equals(o).str = g.str /\ Equals(o).buf = g.buf
    BY <2>4, <2>5 DEF EnvRecords
  <2>7. QED
    BY <1>5, <2>1, <2>4, <2>6 DEF EnvBuffer
<1>9. /\ "Eq1" \in EnvStates /\ "Error" \in EnvStates
      /\ o.state \in DOMAIN following => following[o.state] \in EnvStates
  BY <1>2 DEF EnvStates
<1>10. \/ Match(o) = Copy(o) \/ Match(o) = Equals(o)
       \/ \E s \in EnvStates : Match(o) = Over(o, s) \/ Match(o) = Goto(o, s)
  <2> HIDE DEF EnvStates
  <2>1. CASE o.state \in {"Name", "Value", "Eq2", "Fini"}
    <3>1. following[o.state] \in EnvStates
      BY <1>3, <1>9, <2>1
    <3>2. \/ Match(o) = Copy(o)
          \/ Match(o) = Over(o, following[o.state]) \/ Match(o) = Goto(o, following[o.state])
          \/ Match(o) = Over(o, "Eq1") \/ Match(o) = Goto(o, "Eq1") \/ Match(o) = Goto(o, "Error")
          \/ Match(o) = Over(o, o.state)
      BY <2>1 DEF Match, Over, Goto
    <3>3. QED
      BY <1>5, <1>9, <3>1, <3>2
  <2>2. CASE o.state \notin {"Name", "Value", "Eq2", "Fini"}
    <3>1. \/ Match(o) = Copy(o) \/ Match(o) = Equals(o)
          \/ Match(o) = Over(o, "Eq1") \/ Match(o) = Over(o, "Error")
      BY <2>2 DEF Match, Over
    <3>2. QED
      BY <1>9, <3>1
  <2>3. QED
    BY <2>1, <2>2
<1>11. QED
  BY <1>6, <1>7, <1>8, <1>10 DEF EnvStep, o

\* So does what LoadEnv leaves of it.
LEMMA TrimmedStays ==
    ASSUME NEW e, EnvBuffer(e)
    PROVE  EnvBuffer([e EXCEPT !.buf = Trimmed(e)])
<1> DEFINE t == Trimmed(e)
<1>1. e \in EnvRecords /\ e.buf \in Seq(Chars) /\ e.c > 0 /\ e.str > 0 /\ Len(e.buf) = MAX_ENVSTR
  BY DEF EnvBuffer, EnvRecords
<1>2. Len(e.buf) \in Nat /\ DOMAIN e.buf = 1 .. Len(e.buf) /\ \A i \in 1 .. Len(e.buf) : e.buf[i] \in Chars
  BY <1>1, LenProperties, ElementOfSeq
<1>3. PICK end : t = [i \in DOMAIN e.buf |-> IF i \in end .. e.str THEN NUL ELSE e.buf[i]]
  BY DEF Trimmed
<1> HIDE DEF t
<1>4. t = [i \in 1 .. Len(e.buf) |-> IF i \in end .. e.str THEN NUL ELSE e.buf[i]]
  BY <1>2, <1>3
<1>5. \A i \in 1 .. Len(e.buf) : (IF i \in end .. e.str THEN NUL ELSE e.buf[i]) \in Chars
  BY <1>2, MarkFacts
<1>6. t \in Seq(Chars) /\ Len(t) = Len(e.buf)
  BY <1>2, <1>4, <1>5, LenProperties
<1> DEFINE n == [e EXCEPT !.buf = t]
<1>7. n \in EnvRecords /\ n.c = e.c /\ n.str = e.str /\ n.buf = t
  BY <1>1, <1>6 DEF EnvRecords
<1> HIDE DEF n
<1>8. EnvBuffer(n)
  BY <1>1, <1>6, <1>7 DEF EnvBuffer
<1>9. QED
  BY <1>8 DEF n, t

\* What get_string takes up to a newline holds none, and no NUL.
LEMMA EnvstrText ==
    ASSUME data \in Seq(Chars), Placed(r)
    PROVE  get_string(r, {NL}).s \in Seq(Chars \ {NUL})
<1> DEFINE S == Chars \ ({NL} \cup {NUL})
           f == get_char(r)
           read == ReadWhile(S, f, 0, Unlimited)
           N == Len(data)
<1>1. r.pos \in Nat /\ N \in Nat /\ r.pos <= N
  BY PlacedFacts
<1>2. EOF \notin S /\ Unlimited \in Int
  BY <1>1, CharFacts DEF Unlimited
<1>3. /\ Placed(f)
      /\ f.ch = IF r.pos < N THEN data[r.pos + 1] ELSE EOF
      /\ f.pos = IF r.pos < N THEN r.pos + 1 ELSE r.pos
  BY GetPlaced
<1>4. get_string(r, {NL}).s = SubSeq(Ahead(r), 1, read.n)
  BY DEF get_string
<1> HIDE DEF f, S
<1>5. PICK k \in Nat : read.n = 0 + k /\ \A j \in 0 .. k - 1 : Char(f, j) \in S
  <2>1. Placed(f) /\ EOF \notin S /\ 0 \in Int /\ Unlimited \in Int
    BY <1>2, <1>3
  <2>2. \E k \in Nat : /\ ReadWhile(S, f, 0, Unlimited).r = Reads(f, k)
                       /\ ReadWhile(S, f, 0, Unlimited).n = 0 + k
                       /\ \A j \in 0 .. k - 1 : Char(f, j) \in S
                       /\ Char(f, k) \notin S \/ 0 + k > Unlimited
    BY <2>1, WhileReads
  <2>3. QED
    BY <2>2
<1> HIDE DEF read
<1>6. read.n = k
  BY <1>5
<1>7. ASSUME NEW i \in 1 .. k PROVE r.pos + i <= N /\ data[r.pos + i] \in S
  <2>1. i - 1 \in 0 .. k - 1 /\ i - 1 \in Nat
    OBVIOUS
  <2>2. Char(f, i - 1) \in S
    BY <1>5, <2>1
  <2>3. Char(f, i - 1) = IF i - 1 = 0 THEN f.ch ELSE IF f.pos + (i - 1) <= N THEN data[f.pos + (i - 1)] ELSE EOF
    BY <1>3, <2>1, AheadFacts
  <2>4. CASE i = 1
    <3>1. f.ch \in S
      BY <2>2, <2>3, <2>4
    <3>2. r.pos < N
      BY <1>2, <1>3, <3>1
    <3>3. QED
      BY <1>1, <1>3, <2>4, <3>1, <3>2
  <2>5. CASE i # 1
    <3>1. f.pos + (i - 1) <= N /\ data[f.pos + (i - 1)] \in S
      BY <1>2, <2>2, <2>3, <2>5
    <3>2. r.pos < N
      BY <1>1, <1>3, <2>5, <3>1
    <3>3. f.pos + (i - 1) = r.pos + i
      BY <1>1, <1>3, <3>2
    <3>4. QED
      BY <3>1, <3>3
  <2>6. QED
    BY <2>4, <2>5
<1> DEFINE a == Ahead(r)
<1>8. Len(a) = N - r.pos /\ \A i \in 1 .. N - r.pos : a[i] = data[r.pos + i]
  BY AheadFacts
<1>9. ASSUME NEW i \in 1 .. k PROVE i \in 1 .. Len(a) /\ a[i] \in Chars \ {NUL}
  <2>1. i \in 1 .. N - r.pos
    BY <1>1, <1>7
  <2>2. QED
    BY <1>7, <1>8, <2>1 DEF S
<1> HIDE DEF a
<1>10. SubSeq(a, 1, k) \in Seq(Chars \ {NUL})
  BY <1>9, SubSeqProperties
<1>11. QED
  BY <1>4, <1>6, <1>10 DEF a

\* The line is over whatever the line before left in the buffer.
LEMMA ReadEnvstrEnv ==
    ASSUME ParserAssumption, ReaderInv, EnvInv, ReadEnvstr
    PROVE  EnvInv'
<1> DEFINE s == get_string(r, {NL}).s
           m == IF Len(s) < MAX_ENVSTR THEN Len(s) ELSE MAX_ENVSTR - 1
           x == SubSeq(s, 1, m)
           rest == SubSeq(env.buf, Len(x) + 2, MAX_ENVSTR)
           b == x \o <<NUL>> \o rest
           n == [state |-> "NameI", c |-> 1, str |-> 1, val |-> 1, quote |-> NUL, buf |-> b]
<1>1. original' = x /\ env' = n
  BY DEF ReadEnvstr
<1>2. MAX_ENVSTR \in Nat \ {0} /\ env.buf \in Seq(Chars) /\ Len(env.buf) = MAX_ENVSTR
  BY DEF ParserAssumption, EnvInv, EnvBuffer, EnvRecords
<1>3. s \in Seq(Chars \ {NUL}) /\ Len(s) \in Nat
  <2>1. s \in Seq(Chars \ {NUL})
    BY EnvstrText DEF ReaderInv
  <2> HIDE DEF s
  <2>2. QED
    BY <2>1, LenProperties
<1> HIDE DEF s
<1>4. m \in Nat /\ m <= Len(s) /\ m < MAX_ENVSTR
  BY <1>2, <1>3
<1>5. x \in Seq(Chars \ {NUL}) /\ Len(x) = m
  <2> HIDE DEF m
  <2>1. /\ x \in Seq(Chars \ {NUL}) /\ Len(x) = IF 1 <= m THEN m - 1 + 1 ELSE 0
    BY <1>3, <1>4, Part
  <2> HIDE DEF x
  <2>2. QED
    BY <1>4, <2>1
<1> HIDE DEF m, x
<1>6. x \in Seq(Chars) /\ <<NUL>> \in Seq(Chars) /\ Len(<<NUL>>) = 1 /\ <<NUL>>[1] = NUL
  BY <1>5, MarkFacts
<1>7. rest \in Seq(Chars) /\ Len(rest) = MAX_ENVSTR - m - 1
  <2>1. /\ m + 2 \in Nat \ {0} /\ MAX_ENVSTR \in Nat /\ MAX_ENVSTR <= Len(env.buf)
        /\ (m + 2 <= MAX_ENVSTR => MAX_ENVSTR - (m + 2) + 1 = MAX_ENVSTR - m - 1)
        /\ (~(m + 2 <= MAX_ENVSTR) => MAX_ENVSTR - m - 1 = 0)
    BY <1>2, <1>4
  <2>2. /\ SubSeq(env.buf, m + 2, MAX_ENVSTR) \in Seq(Chars)
        /\ Len(SubSeq(env.buf, m + 2, MAX_ENVSTR)) =
             IF m + 2 <= MAX_ENVSTR THEN MAX_ENVSTR - (m + 2) + 1 ELSE 0
    BY <1>2, <2>1, Part
  <2>3. QED
    BY <1>5, <2>1, <2>2
<1> HIDE DEF rest
<1> DEFINE z == x \o <<NUL>>
<1>8. z \in Seq(Chars) /\ Len(z) = m + 1
  BY <1>5, <1>6, Joint
<1>9. \A i \in 1 .. m : z[i] = x[i]
  BY <1>5, <1>6, Joint
<1>10. z[m + 1] = NUL
  <2>1. 1 \in 1 .. Len(<<NUL>>)
    BY <1>6
  <2>2. z[Len(x) + 1] = <<NUL>>[1]
    BY <1>6, <2>1, Joint
  <2>3. QED
    BY <1>5, <1>6, <2>2
<1> HIDE DEF z
<1>11. b = z \o rest
  BY DEF z
<1> HIDE DEF b
<1>12. b \in Seq(Chars) /\ Len(b) = MAX_ENVSTR
  <2>1. z \o rest \in Seq(Chars) /\ Len(z \o rest) = Len(z) + Len(rest)
    BY <1>7, <1>8, Joint
  <2>2. QED
    BY <1>2, <1>4, <1>7, <1>8, <1>11, <2>1
<1>13. \A i \in 1 .. m + 1 : b[i] = z[i]
  <2>1. \A i \in 1 .. Len(z) : (z \o rest)[i] = z[i]
    BY <1>7, <1>8, Joint
  <2>2. QED
    BY <1>8, <1>11, <2>1
<1>14. n.state = "NameI" /\ n.c = 1 /\ n.str = 1 /\ n.quote = NUL /\ n.buf = b
  OBVIOUS
<1>15. n \in EnvRecords
  <2>1. "NameI" \in EnvStates /\ 1 \in Nat /\ NUL \in {NUL, Quote}
    BY DEF EnvStates
  <2> HIDE DEF EnvStates
  <2>2. QED
    BY <1>12, <2>1 DEF EnvRecords
<1> HIDE DEF n
<1>16. EnvBuffer(n)
  BY <1>12, <1>14, <1>15 DEF EnvBuffer
<1>17. Within(x, n)
  <2>1. 1 \in 1 .. m + 1 /\ 1 \in 1 .. 1 /\ Len(b) > m /\ m + 1 \in 1 .. m + 1
    BY <1>2, <1>4, <1>12
  <2>2. \A i \in 1 .. m : b[i] = x[i]
    <3>1. \A i \in 1 .. m : i \in 1 .. m + 1
      BY <1>4
    <3>2. QED
      BY <1>9, <1>13, <3>1
  <2>3. b[m + 1] = NUL
    BY <1>10, <1>13, <2>1
  <2>4. QED
    BY <1>5, <1>14, <1>15, <2>1, <2>2, <2>3 DEF Within
<1>18. EnvPlace(x, n)
  BY <1>14 DEF EnvPlace
<1>19. QED
  BY <1>1, <1>5, <1>16, <1>17, <1>18 DEF EnvInv

\* load_env knows what it has read of the line, after every turn and at every line.
LEMMA EnvNext ==
    ASSUME ParserAssumption, ReaderInv, EnvInv, [Next]_vars
    PROVE  EnvInv'
<1>1. CASE SkipLine \/ EndOfComments \/ TooMuchGarbage
  <2>1. UNCHANGED <<original, env>> /\ pc' # "env"
    BY <1>1 DEF SkipLine, EndOfComments, TooMuchGarbage
  <2>2. QED
    BY <2>1 DEF EnvInv
<1>2. CASE ReadEnvstr
  BY <1>2, ReadEnvstrEnv
<1>3. CASE EnvTurn
  <2>1. pc = "env" /\ ~EnvOver(env) /\ env' = EnvStep(env) /\ UNCHANGED <<original, pc>>
    BY <1>3 DEF EnvTurn
  <2>2. original \in Seq(Chars \ {NUL}) /\ EnvBuffer(EnvStep(env))
    BY TurnStays DEF EnvInv
  <2>3. ~OpensAtEnd(original) => Within(original, EnvStep(env)) /\ EnvPlace(original, EnvStep(env))
    <3>1. ~OpensAtEnd(original) => Within(original, env) /\ EnvPlace(original, env)
      BY <2>1 DEF EnvInv
    <3>2. QED
      BY <2>1, <2>2, <3>1, TurnKeeps
  <2>4. QED
    BY <2>1, <2>2, <2>3 DEF EnvInv
<1>4. CASE LoadEnv
  <2>1. env' = [env EXCEPT !.buf = Trimmed(env)] /\ pc' # "env" /\ original' = original
    BY <1>4 DEF LoadEnv
  <2>2. EnvBuffer([env EXCEPT !.buf = Trimmed(env)])
    BY TrimmedStays DEF EnvInv
  <2>3. QED
    BY <2>1, <2>2 DEF EnvInv
<1>5. CASE LoadEntry
  <2>1. UNCHANGED <<original, env>> /\ pc' # "env"
    BY <1>5 DEF LoadEntry
  <2>2. QED
    BY <2>1 DEF EnvInv
<1>6. CASE UNCHANGED vars
  BY <1>6 DEF EnvInv, vars
<1>7. QED
  BY <1>1, <1>2, <1>3, <1>4, <1>5, <1>6 DEF Next

\* Between lines, and before the first.
LEMMA EnvInit ==
    ASSUME ParserAssumption, Init
    PROVE  EnvInv
<1> DEFINE b == [i \in 1 .. MAX_ENVSTR |-> NUL]
<1>1. MAX_ENVSTR \in Nat
  BY DEF ParserAssumption
<1>2. b \in Seq(Chars) /\ Len(b) = MAX_ENVSTR
  BY <1>1, MarkFacts, LenProperties
<1>3. env = [state |-> "NameI", c |-> 1, str |-> 1, val |-> 1, quote |-> NUL, buf |-> b]
  BY DEF Init
<1> HIDE DEF b
<1>4. env \in EnvRecords /\ env.c = 1 /\ env.str = 1 /\ env.buf = b
  <2>1. "NameI" \in EnvStates /\ 1 \in Nat /\ NUL \in {NUL, Quote}
    BY DEF EnvStates
  <2> HIDE DEF EnvStates
  <2>2. QED
    BY <1>2, <1>3, <2>1 DEF EnvRecords
<1>5. EnvBuffer(env)
  BY <1>2, <1>4 DEF EnvBuffer
<1>6. original \in Seq(Chars \ {NUL}) /\ pc # "env"
  BY DEF Init
<1>7. QED
  BY <1>5, <1>6 DEF EnvInv

\* A line is the assignment that the documented grammar makes of it, or none (crontab.rs:933),
\* whatever the lines before left in the buffer, for every file and every limit.
THEOREM EnvMeaningHolds == Spec => []EnvMeaning
<1>1. Init => EnvInv
  BY ParserAssumption, EnvInit
<1>2. Inv /\ EnvInv /\ [Next]_vars => EnvInv'
  BY ParserAssumption, EnvNext DEF Inv
<1>3. EnvInv => EnvMeaning
  BY EnvEnds DEF EnvInv, EnvMeaning
<1>4. QED
  BY <1>1, <1>2, <1>3, ParserInvariance, PTL DEF Spec

-----------------------------------------------------------------------------
(* Selected.                                                               *)

CInts == -C_INT .. C_INT - 1

\* The bounds of a field and of a C int.
LEMMA Bounds ==
    ASSUME ScheduleAssumption
    PROVE  /\ Low \in Nat /\ High \in Nat /\ C_INT \in Nat /\ C_LONG_MAX \in Nat
           /\ Low < High /\ High + 1 < C_INT /\ C_INT <= C_LONG_MAX
           /\ Rejected \in Int /\ Rejected < -C_INT /\ Rejected \notin Low .. High
           /\ Low .. High \subseteq CInts
BY DEF ScheduleAssumption, Rejected, CInts

\* Wrap yields a C int, and leaves one alone.
LEMMA WrapFacts ==
    ASSUME ScheduleAssumption
    PROVE  /\ \A n \in Int : Wrap(n) \in CInts
           /\ \A n \in CInts : Wrap(n) = n
<1>1. C_INT \in Nat /\ C_INT > 0
  BY Bounds
<1> DEFINE m == 2 * C_INT
<1>2. m \in Nat /\ m > 0
  BY <1>1
<1>3. \A n \in Int : n % m \in 0 .. m - 1
  <2> HIDE DEF m
  <2>1. QED
    BY <1>2
<1>4. \A n \in 0 .. m - 1 : n % m = n
  <2> HIDE DEF m
  <2>1. QED
    BY <1>2
<1>5. ASSUME NEW n \in Int PROVE Wrap(n) \in CInts
  <2>1. n + C_INT \in Int
    BY <1>1
  <2>2. (n + C_INT) % m \in 0 .. m - 1
    BY <1>3, <2>1
  <2>3. Wrap(n) = ((n + C_INT) % m) - C_INT
    BY DEF Wrap
  <2> DEFINE y == (n + C_INT) % m
  <2> HIDE DEF y
  <2>4. y \in 0 .. m - 1 /\ Wrap(n) = y - C_INT
    BY <2>2, <2>3 DEF y
  <2>5. QED
    BY <1>1, <2>4 DEF CInts
<1>6. ASSUME NEW n \in CInts PROVE Wrap(n) = n
  <2>1. n + C_INT \in 0 .. m - 1 /\ n \in Int
    BY <1>1 DEF CInts
  <2>2. (n + C_INT) % m = n + C_INT
    BY <1>4, <2>1
  <2>3. Wrap(n) = (n + C_INT) - C_INT
    BY <2>2 DEF Wrap
  <2>4. QED
    BY <1>1, <2>1, <2>3
<1>7. QED
  BY <1>5, <1>6

\* Products, in the forms that the loop needs.
LEMMA Products ==
    /\ \A k \in Nat, s \in Nat \ {0} : k * s \in Nat /\ k * s >= k
    /\ \A k \in Nat, s \in Int : s < 0 => k * s \in Int /\ k * s <= -k
    /\ \A k, s \in Int : (k + 1) * s = k * s + s /\ k * s \in Int /\ 0 * s = 0
    /\ \A k, f \in Nat, s \in Nat : f <= k => f * s <= k * s
<1>1. ASSUME NEW k \in Nat, NEW s \in Nat \ {0} PROVE k * s \in Nat /\ k * s >= k
  <2>1. k * (s - 1) >= 0
    OBVIOUS
  <2>2. QED
    BY <2>1
<1>2. ASSUME NEW k \in Nat, NEW s \in Int, s < 0 PROVE k * s \in Int /\ k * s <= -k
  <2>1. k * ((-s) - 1) >= 0
    BY <1>2
  <2>2. QED
    BY <2>1
<1>3. ASSUME NEW k \in Nat, NEW f \in Nat, NEW s \in Nat, f <= k PROVE f * s <= k * s
  <2>1. (k - f) * s >= 0
    BY <1>3
  <2>2. QED
    BY <2>1
<1>4. \A k, s \in Int : (k + 1) * s = k * s + s /\ k * s \in Int /\ 0 * s = 0
  OBVIOUS
<1>5. QED
  BY <1>1, <1>2, <1>3, <1>4

\* The loop of get_list, while no element and the step leave the C ints.
LEMMA Turns ==
    ASSUME ScheduleAssumption, NEW a \in CInts, NEW b \in CInts, NEW s \in CInts \ {0}, s + High < C_INT
    PROVE  \E f \in Nat :
              /\ \A k \in 0 .. f - 1 : a + k * s \in Low .. High /\ a + k * s <= b
              /\ a + f * s > b \/ a + f * s \notin Low .. High
              /\ Selected(RangeAt("Finish", a, b, s)) =
                   {a + k * s : k \in 0 .. f - 1} \cup (IF a + f * s > b THEN {} ELSE {Rejected})
<1> DEFINE x(k) == a + k * s
           Out(k) == x(k) > b \/ x(k) \notin Low .. High
           T == {k \in 0 .. High + 1 : Out(k)}
<1>1. /\ a \in Int /\ b \in Int /\ s \in Int /\ s # 0 /\ Low \in Nat /\ High \in Nat /\ C_INT \in Nat
      /\ -C_INT <= s /\ -C_INT <= a /\ a < C_INT
  BY Bounds DEF CInts
<1>2. \A k \in Nat : x(k) \in Int /\ x(k + 1) = x(k) + s
  <2>1. \A k \in Nat : k * s \in Int /\ (k + 1) * s = k * s + s
    BY <1>1, Products
  <2>2. QED
    BY <1>1, <2>1
<1>3. x(0) = a
  BY <1>1, Products
<1>4. x(High + 1) \notin Low .. High \/ a \notin Low .. High
  <2>1. CASE s > 0
    <3>1. (High + 1) * s \in Nat /\ (High + 1) * s >= High + 1
      BY <1>1, <2>1, Products
    <3>2. QED
      BY <1>1, <3>1
  <2>2. CASE s < 0
    <3>1. (High + 1) * s \in Int /\ (High + 1) * s <= -(High + 1)
      BY <1>1, <2>2, Products
    <3>2. QED
      BY <1>1, <3>1
  <2>3. QED
    BY <1>1, <2>1, <2>2
<1> HIDE DEF x
<1>5. T \in SUBSET Nat /\ T # {}
  BY <1>1, <1>3, <1>4
<1>6. PICK f \in T : \A y \in T : f <= y
  BY <1>5, FirstOfNaturals
<1>7. f \in 0 .. High + 1 /\ f \in Nat /\ Out(f) /\ \A j \in 0 .. f - 1 : ~Out(j)
  <2>1. f \in 0 .. High + 1 /\ Out(f) /\ f \in Nat
    BY <1>1, <1>6
  <2>2. ASSUME NEW j \in 0 .. f - 1 PROVE ~Out(j)
    <3>1. j \in 0 .. High + 1 /\ ~(f <= j)
      BY <1>1, <2>1
    <3>2. QED
      BY <1>6, <3>1
  <2>3. QED
    BY <2>1, <2>2
<1>8. ASSUME NEW k \in 0 .. f PROVE Wrap(x(k)) = x(k)
  <2>1. CASE k = 0
    BY <1>3, <2>1, WrapFacts
  <2>2. CASE k # 0
    <3>1. k - 1 \in 0 .. f - 1 /\ k - 1 \in Nat /\ (k - 1) + 1 = k
      BY <1>7, <2>2
    <3>2. x(k - 1) \in Low .. High
      BY <1>7, <3>1
    <3>3. x(k) = x(k - 1) + s
      BY <1>2, <3>1
    <3>4. x(k) \in CInts
      BY <1>1, <3>2, <3>3 DEF CInts
    <3>5. QED
      BY <3>4, WrapFacts
  <2>3. QED
    BY <2>1, <2>2
<1> DEFINE i(k) == Wrap(x(k))
           Stops(k) == i(k) > b \/ i(k) \notin Low .. High
           First(k) == Stops(k) /\ \A j \in 0 .. k - 1 : ~Stops(j)
           last == CHOOSE k \in 0 .. High + 1 : First(k)
<1>9. \A k \in 0 .. f : Stops(k) <=> Out(k)
  BY <1>8
<1>10. First(f)
  <2>1. f \in 0 .. f /\ \A j \in 0 .. f - 1 : j \in 0 .. f
    BY <1>7
  <2>2. QED
    BY <1>7, <1>9, <2>1
<1>11. last \in 0 .. High + 1 /\ First(last)
  BY <1>7, <1>10
<1>12. last = f
  <2> HIDE DEF last, Stops
  <2>1. last \in Nat /\ f \in Nat
    BY <1>1, <1>7, <1>11
  <2>2. ~(last < f)
    <3>1. last < f => last \in 0 .. f - 1
      BY <2>1
    <3>2. QED
      BY <1>10, <1>11, <3>1
  <2>3. ~(f < last)
    <3>1. f < last => f \in 0 .. last - 1
      BY <2>1
    <3>2. QED
      BY <1>10, <1>11, <3>1
  <2>4. QED
    BY <2>1, <2>2, <2>3
<1>13. Selected(RangeAt("Finish", a, b, s)) =
         {i(k) : k \in 0 .. last - 1} \cup (IF i(last) > b THEN {} ELSE {Rejected})
  BY DEF Selected, RangeAt, x
<1> HIDE DEF last
<1>14. {i(k) : k \in 0 .. last - 1} = {x(k) : k \in 0 .. f - 1} /\ i(last) = x(f)
  <2>1. \A k \in 0 .. f - 1 : i(k) = x(k)
    BY <1>7, <1>8
  <2>2. i(f) = x(f)
    BY <1>7, <1>8
  <2> HIDE DEF i
  <2>3. QED
    BY <1>12, <2>1, <2>2
<1>15. Selected(RangeAt("Finish", a, b, s)) =
         {x(k) : k \in 0 .. f - 1} \cup (IF x(f) > b THEN {} ELSE {Rejected})
  BY <1>13, <1>14
<1>16. /\ \A k \in 0 .. f - 1 : x(k) \in Low .. High /\ x(k) <= b
       /\ x(f) > b \/ x(f) \notin Low .. High
  <2>1. \A k \in 0 .. f - 1 : k \in Nat
    BY <1>7
  <2>2. \A k \in 0 .. f - 1 : ~(x(k) > b) /\ x(k) \in Int
    BY <1>2, <1>7, <2>1
  <2>3. \A k \in 0 .. f - 1 : x(k) <= b
    BY <1>1, <2>2
  <2>4. QED
    BY <1>7, <2>3
<1>17. QED
  BY <1>7, <1>15, <1>16 DEF x

\* Two selections that a list does not tell apart.
Same(new, m) == (Rejected \in new <=> Rejected \in m) /\ (Rejected \notin new => new = m)

\* The loop selects the elements of the range, or rejects it when one leaves the field.
LEMMA LoopMeaning ==
    ASSUME ScheduleAssumption, NEW a \in CInts, NEW b \in CInts, NEW s \in CInts \ {0}, s + High < C_INT
    PROVE  Same(Selected(RangeAt("Finish", a, b, s)), Every(a, b, s))
<1> DEFINE x(k) == a + k * s
           new == Selected(RangeAt("Finish", a, b, s))
           field == Low .. High
<1>1. /\ a \in Int /\ b \in Int /\ s \in Int /\ s # 0 /\ Low \in Nat /\ High \in Nat
      /\ Rejected \notin field
  BY Bounds DEF CInts
<1>2. PICK f \in Nat : /\ \A k \in 0 .. f - 1 : x(k) \in field /\ x(k) <= b
                       /\ x(f) > b \/ x(f) \notin field
                       /\ new = {x(k) : k \in 0 .. f - 1} \cup (IF x(f) > b THEN {} ELSE {Rejected})
  BY Turns
<1>3. \A k \in Nat : x(k) \in Int
  <2>1. \A k \in Nat : k * s \in Int
    BY <1>1, Products
  <2>2. QED
    BY <1>1, <2>1
<1>4. x(0) = a
  BY <1>1, Products
<1> HIDE DEF new
<1>5. CASE s > 0
  <2> DEFINE E == {i \in a .. b : \E k \in 0 .. b - a : i = a + k * s}
  <2>1. Every(a, b, s) = InField(E)
    BY <1>5 DEF Every
  <2>2. \A k \in Nat : k * s \in Nat /\ k * s >= k
    BY <1>1, <1>5, Products
  <2>3. \A k \in Nat : x(k) <= b => x(k) \in E
    <3>1. SUFFICES ASSUME NEW k \in Nat, x(k) <= b PROVE x(k) \in E
      OBVIOUS
    <3>2. k * s \in Nat /\ k <= k * s
      BY <2>2
    <3>3. k \in 0 .. b - a /\ x(k) \in a .. b
      BY <1>1, <3>1, <3>2
    <3>4. QED
      BY <3>3
  <2>4. CASE x(f) > b
    <3>1. new = {x(k) : k \in 0 .. f - 1}
      BY <1>2, <2>4
    <3>2. \A k \in 0 .. f - 1 : x(k) \in E
      BY <1>2, <2>3
    <3>3. ASSUME NEW i \in E PROVE \E k \in 0 .. f - 1 : i = x(k)
      <4>1. PICK k \in 0 .. b - a : i = x(k)
        OBVIOUS
      <4>2. i <= b /\ k \in Nat
        BY <1>1
      <4>3. f <= k => f * s <= k * s
        BY <1>1, <1>5, <4>2, Products
      <4>4. f * s \in Int /\ k * s \in Int
        BY <1>1, <4>2, Products
      <4>5. ~(f <= k)
        BY <1>1, <2>4, <4>1, <4>2, <4>3, <4>4
      <4>6. k \in 0 .. f - 1
        BY <4>2, <4>5
      <4>7. QED
        BY <4>1, <4>6
    <3> HIDE DEF E
    <3>4. new = E
      <4> HIDE DEF x
      <4>1. QED
        BY <3>1, <3>2, <3>3
    <3>5. E \subseteq field
      BY <1>2, <3>1, <3>4
    <3>6. Every(a, b, s) = E
      BY <2>1, <3>5 DEF InField
    <3>7. QED
      BY <1>1, <3>4, <3>5, <3>6 DEF Same, new
  <2>5. CASE ~(x(f) > b)
    <3>1. x(f) \in E
      BY <1>1, <1>3, <2>3, <2>5
    <3>2. x(f) \notin field
      BY <1>2, <2>5
    <3> HIDE DEF E
    <3>3. Every(a, b, s) = {Rejected}
      BY <2>1, <3>1, <3>2 DEF InField
    <3>4. Rejected \in new
      BY <1>2, <2>5
    <3>5. QED
      BY <3>3, <3>4 DEF Same, new
  <2>6. QED
    BY <2>4, <2>5
<1>6. CASE s < 0
  <2>1. Every(a, b, s) = InField(IF a <= b THEN {a, Low - 1} ELSE {})
    <3>1. ~(s > 0)
      BY <1>1, <1>6
    <3>2. QED
      BY <3>1 DEF Every
  <2>2. CASE a <= b
    <3>1. Low - 1 \notin field
      BY <1>1
    <3>2. Every(a, b, s) = {Rejected}
      BY <2>1, <2>2, <3>1 DEF InField
    <3>3. f * s \in Int /\ f * s <= -f
      BY <1>1, <1>6, Products
    <3>4. ~(x(f) > b)
      BY <1>1, <2>2, <3>3
    <3>5. Rejected \in new
      BY <1>2, <3>4
    <3>6. QED
      BY <3>2, <3>5 DEF Same, new
  <2>3. CASE ~(a <= b)
    <3>1. Every(a, b, s) = {}
      BY <2>1, <2>3 DEF InField
    <3>2. f = 0
      <4>1. f # 0 => 0 \in 0 .. f - 1
        OBVIOUS
      <4>2. ~(x(0) <= b)
        BY <1>4, <2>3
      <4>3. QED
        BY <1>2, <4>1, <4>2
    <3>3. x(f) > b
      BY <1>1, <1>4, <2>3, <3>2
    <3>4. 0 .. f - 1 = {}
      BY <3>2
    <3>5. new = {}
      BY <1>2, <3>3, <3>4
    <3>6. QED
      BY <3>1, <3>5 DEF Same, new
  <2>4. QED
    BY <2>2, <2>3
<1>7. QED
  BY <1>1, <1>5, <1>6

\* Without a step a range is all that lies between its ends.
LEMMA EveryOne ==
    ASSUME NEW a \in Int, NEW b \in Int
    PROVE  Every(a, b, 1) = InField(a .. b)
<1>1. {i \in a .. b : \E k \in 0 .. b - a : i = a + k * 1} = a .. b
  <2>1. \A i \in a .. b : i - a \in 0 .. b - a /\ i = a + (i - a) * 1
    OBVIOUS
  <2>2. QED
    BY <2>1
<1> DEFINE E == {i \in a .. b : \E k \in 0 .. b - a : i = a + k * 1}
<1>2. Every(a, b, 1) = InField(IF 1 > 0 THEN E ELSE IF a <= b THEN {a, Low - 1} ELSE {})
  BY DEF Every
<1> HIDE DEF E
<1>3. (IF 1 > 0 THEN E ELSE IF a <= b THEN {a, Low - 1} ELSE {}) = E
  OBVIOUS
<1>4. QED
  BY <1>1, <1>2, <1>3 DEF E

-----------------------------------------------------------------------------
(* How far a range is understood.                                          *)

Kind(c)  == IF Number(c) # {} THEN "n" ELSE c[1]
Kinds(t) == [i \in DOMAIN t |-> Kind(t[i])]
Value(c) == CHOOSE x \in Number(c) : TRUE
StepsOf(c) == get_number(c, 0, FALSE) \ {0}

\* What can go on.
Open == {<< >>, <<"*">>, <<"*", "/">>, <<"n">>, <<"n", "-">>, <<"n", "-", "n">>, <<"n", "-", "n", "/">>,
         <<"~">>, <<"n", "~">>}

Picked(p) == RangeAt("Terms", p, p, 1)

\* What get_range knows at its state is what it has read.
Understood(t, g) ==
    LET k == Kinds(t)
        v(i) == Value(t[i])
    IN  \/ k = << >> /\ g = Start
        \/ k = <<"*">> /\ g = RangeAt("Ast", Low, High, 1)
        \/ k = <<"*", "/">> /\ g = RangeAt("Step", Low, High, 1)
        \/ k = <<"*", "/", "n">> /\ \E s \in StepsOf(t[3]) : g = RangeAt("Terms", Low, High, s)
        \/ k = <<"n">> /\ g = RangeAt("Num1", v(1), 0, 1)
        \/ k = <<"n", "-">> /\ g = RangeAt("Range", v(1), 0, 1)
        \/ k = <<"n", "-", "n">> /\ g = RangeAt("RangeNum2", v(1), v(3), 1)
        \/ k = <<"n", "-", "n", "/">> /\ g = RangeAt("Step", v(1), v(3), 1)
        \/ k = <<"n", "-", "n", "/", "n">> /\ \E s \in StepsOf(t[5]) : g = RangeAt("Terms", v(1), v(3), s)
        \/ k = <<"~">> /\ g = RangeAt("Random", Low, 0, 1)
        \/ k = <<"n", "~">> /\ g = RangeAt("Random", v(1), 0, 1)
        \/ k = <<"~", "n">> /\ \E p \in Low .. v(2) : g = Picked(p)
        \/ k = <<"n", "~", "n">> /\ \E p \in v(1) .. v(3) : g = Picked(p)
        \/ g = Failure /\ k \notin Open /\ Meaning(t) = {{Rejected}}

ListInv ==
    /\ text \in Seq(Tokens) /\ Understood(text, range)
    /\ ~overflow => bits \in wanted

-----------------------------------------------------------------------------
(* What the documentation says of each form.                               *)

\* The forms that select.
Closed == {<<"*">>, <<"*", "/", "n">>, <<"n">>, <<"n", "-", "n">>, <<"n", "-", "n", "/", "n">>,
           <<"~">>, <<"n", "~">>, <<"~", "n">>, <<"n", "~", "n">>}

OrNone(C) == IF C = {} THEN {{Rejected}} ELSE C

\* The meaning of a range, form by form.
LEMMA MeaningByForm ==
    ASSUME NEW t
    PROVE  LET v(i) == Value(t[i])
               By(a, b, i) == OrNone({Every(a, b, s) : s \in StepsOf(t[i])})
               Pick(a, b) == OrNone({InField({i}) : i \in a .. b})
           IN  /\ Kinds(t) = <<"*">> => Meaning(t) = {Low .. High}
               /\ Kinds(t) = <<"*", "/", "n">> => Meaning(t) = By(Low, High, 3)
               /\ Kinds(t) = <<"n">> => Meaning(t) = {Every(v(1), v(1), 1)}
               /\ Kinds(t) = <<"n", "-", "n">> => Meaning(t) = {Every(v(1), v(3), 1)}
               /\ Kinds(t) = <<"n", "-", "n", "/", "n">> => Meaning(t) = By(v(1), v(3), 5)
               /\ Kinds(t) = <<"~">> => Meaning(t) = Pick(Low, High)
               /\ Kinds(t) = <<"n", "~">> => Meaning(t) = Pick(v(1), High)
               /\ Kinds(t) = <<"~", "n">> => Meaning(t) = Pick(Low, v(2))
               /\ Kinds(t) = <<"n", "~", "n">> => Meaning(t) = Pick(v(1), v(3))
               /\ Kinds(t) \notin Closed => Meaning(t) = {{Rejected}}
<1> DEFINE k == Kinds(t)
           v(i) == Value(t[i])
           By_(a, b, i) == {Every(a, b, s) : s \in StepsOf(t[i])}
           Pick_(a, b)  == {InField({i}) : i \in a .. b}
           Choice ==
            CASE k = <<"*">>                -> {Low .. High}
              [] k = <<"*", "/", "n">>      -> By_(Low, High, 3)
              [] k = <<"n">>                -> {Every(v(1), v(1), 1)}
              [] k = <<"n", "-", "n">>      -> {Every(v(1), v(3), 1)}
              [] k = <<"n", "-", "n", "/", "n">> -> By_(v(1), v(3), 5)
              [] k = <<"~">>                -> Pick_(Low, High)
              [] k = <<"n", "~">>           -> Pick_(v(1), High)
              [] k = <<"~", "n">>           -> Pick_(Low, v(2))
              [] k = <<"n", "~", "n">>      -> Pick_(v(1), v(3))
              [] OTHER                      -> {}
<1>1. Meaning(t) = OrNone(Choice)
  BY DEF Meaning, OrNone, Kinds, Kind, Value, StepsOf
<1> HIDE DEF k, v, By_, Pick_
<1>2. \A S : OrNone({S}) = {S}
  BY DEF OrNone
<1>3. OrNone({}) = {{Rejected}}
  BY DEF OrNone
<1>4. k = <<"*">> => Choice = {Low .. High}
  OBVIOUS
<1>5. k = <<"*", "/", "n">> => Choice = By_(Low, High, 3)
  OBVIOUS
<1>6. k = <<"n">> => Choice = {Every(v(1), v(1), 1)}
  OBVIOUS
<1>7. k = <<"n", "-", "n">> => Choice = {Every(v(1), v(3), 1)}
  OBVIOUS
<1>8. k = <<"n", "-", "n", "/", "n">> => Choice = By_(v(1), v(3), 5)
  OBVIOUS
<1>9. k = <<"~">> => Choice = Pick_(Low, High)
  OBVIOUS
<1>10. k = <<"n", "~">> => Choice = Pick_(v(1), High)
  OBVIOUS
<1>11. k = <<"~", "n">> => Choice = Pick_(Low, v(2))
  OBVIOUS
<1>12. k = <<"n", "~", "n">> => Choice = Pick_(v(1), v(3))
  OBVIOUS
<1>13. k \notin Closed => Choice = {}
  BY DEF Closed
<1> HIDE DEF Choice
<1>14. QED
  BY <1>1, <1>2, <1>3, <1>4, <1>5, <1>6, <1>7, <1>8, <1>9, <1>10, <1>11, <1>12, <1>13 DEF k, v, By_, Pick_

-----------------------------------------------------------------------------
(* One more character.                                                     *)

KindSet == {"n", "num", "name", "*", "~", "-", "/", ",", "blank", "junk"}

\* A number is one C int; what is no number is what it looks like.
LEMMA TokenFacts ==
    ASSUME ScheduleAssumption, NEW c \in Tokens
    PROVE  /\ Kind(c) \in KindSet
           /\ Number(c) \subseteq CInts /\ StepsOf(c) \subseteq CInts \ {0}
           /\ \A n \in Number(c) : n = Value(c)
           /\ Kind(c) = "n" => Number(c) = {Value(c)} /\ Value(c) \in CInts
           /\ Kind(c) # "n" => Number(c) = {} /\ Kind(c) = c[1] /\ StepsOf(c) = {}
           /\ c[1] \in {"*", "~", "-", "/"} => Kind(c) = c[1]
<1>1. /\ c[1] \in {"num", "name", "*", "~", "-", "/", ",", "blank", "junk"}
      /\ c[1] = "num" => c[2] \in Nat
      /\ c[1] = "name" => c[2] \in {0, 1}
  BY DEF Tokens, ScheduleAssumption
<1>2. c[1] = "num" => c_int_from_digits(c[2]) \in CInts
  <2>1. c[1] = "num" => (IF c[2] > C_LONG_MAX THEN C_LONG_MAX ELSE c[2]) \in Int
    BY <1>1, Bounds
  <2>2. QED
    BY <2>1, WrapFacts DEF c_int_from_digits
<1>3. c[1] = "name" => Low + c[2] \in CInts
  BY <1>1, Bounds DEF CInts
<1> DEFINE x == IF c[1] = "num" THEN c_int_from_digits(c[2]) ELSE Low + c[2]
           y == IF c[1] = "num" THEN c_int_from_digits(c[2]) ELSE 0 + c[2]
<1>4. Number(c) = IF c[1] = "num" \/ (c[1] = "name" /\ HasNames) THEN {x} ELSE {}
  BY DEF Number, get_number
<1>5. StepsOf(c) = IF c[1] = "num" THEN {y} \ {0} ELSE {}
  BY DEF StepsOf, get_number
<1>6. c[1] = "num" => x \in CInts /\ y \in CInts
  BY <1>2
<1>7. c[1] = "name" => x \in CInts
  BY <1>3
<1> HIDE DEF x, y
<1>8. Number(c) \subseteq CInts /\ StepsOf(c) \subseteq CInts \ {0}
  BY <1>4, <1>5, <1>6, <1>7
<1>9. \A n \in Number(c) : n = Value(c)
  BY <1>4 DEF Value
<1>10. Number(c) # {} => Number(c) = {Value(c)}
  BY <1>9
<1>11. Kind(c) = "n" => Number(c) # {}
  BY <1>1 DEF Kind
<1>12. Kind(c) # "n" => Number(c) = {} /\ Kind(c) = c[1]
  BY DEF Kind
<1>13. Number(c) = {} => StepsOf(c) = {}
  BY <1>4, <1>5
<1>14. c[1] \in {"*", "~", "-", "/"} => Kind(c) = c[1]
  BY <1>4 DEF Kind
<1>15. Kind(c) \in KindSet
  BY <1>1 DEF Kind, KindSet
<1>16. QED
  BY <1>8, <1>9, <1>10, <1>11, <1>12, <1>13, <1>14, <1>15

\* The kinds of a longer range.
LEMMA KindsAppend ==
    ASSUME ScheduleAssumption, NEW t \in Seq(Tokens), NEW c \in Tokens
    PROVE  /\ Kinds(t) \in Seq(KindSet) /\ Len(Kinds(t)) = Len(t)
           /\ Kinds(Append(t, c)) = Append(Kinds(t), Kind(c))
           /\ Append(t, c) \in Seq(Tokens)
           /\ \A i \in 1 .. Len(t) : Append(t, c)[i] = t[i]
           /\ Append(t, c)[Len(t) + 1] = c
<1> DEFINE T == Append(t, c)
<1>1. /\ Len(t) \in Nat /\ DOMAIN t = 1 .. Len(t) /\ \A i \in 1 .. Len(t) : t[i] \in Tokens
  BY LenProperties, ElementOfSeq
<1>2. /\ T \in Seq(Tokens) /\ Len(T) = Len(t) + 1 /\ T[Len(t) + 1] = c
      /\ \A i \in 1 .. Len(t) : T[i] = t[i]
  BY AppendProperties
<1>3. DOMAIN T = 1 .. Len(t) + 1
  BY <1>2, LenProperties
<1> HIDE DEF T
<1>4. \A i \in 1 .. Len(t) : Kind(t[i]) \in KindSet
  BY <1>1, TokenFacts
<1>5. Kind(c) \in KindSet
  BY TokenFacts
<1>6. Kinds(t) = [i \in 1 .. Len(t) |-> Kind(t[i])]
  BY <1>1 DEF Kinds
<1>7. Kinds(T) = [i \in 1 .. Len(t) + 1 |-> Kind(T[i])]
  BY <1>3 DEF Kinds
<1>8. Kinds(t) \in Seq(KindSet) /\ Len(Kinds(t)) = Len(t)
  <2> DEFINE l == Len(t)
             k == [i \in 1 .. l |-> Kind(t[i])]
  <2>1. l \in Nat /\ k \in [1 .. l -> KindSet]
    BY <1>1, <1>4
  <2> HIDE DEF k, l
  <2>2. k \in Seq(KindSet)
    BY <2>1, SeqDef
  <2>3. Len(k) = l
    BY <2>1, <2>2, LenProperties
  <2>4. QED
    BY <1>6, <2>2, <2>3 DEF k, l
<1> DEFINE K == Kinds(t)
           x == Kind(c)
           L == Len(t)
           A == Append(K, x)
<1>9. /\ A \in Seq(KindSet) /\ Len(A) = L + 1 /\ A[L + 1] = x /\ \A i \in 1 .. L : A[i] = K[i]
  <2> HIDE DEF K, x
  <2>1. K \in Seq(KindSet) /\ Len(K) = L /\ x \in KindSet
    BY <1>5, <1>8 DEF K, x
  <2>2. QED
    BY <2>1, AppendProperties
<1>10. Kinds(T) = A
  <2> HIDE DEF A, K, x
  <2>1. DOMAIN A = 1 .. L + 1 /\ A = [i \in 1 .. L + 1 |-> A[i]]
    BY <1>1, <1>9, LenProperties, SeqDef
  <2>2. \A i \in 1 .. L + 1 : A[i] = Kind(T[i])
    <3>1. ASSUME NEW i \in 1 .. L + 1 PROVE A[i] = Kind(T[i])
      <4>1. CASE i = L + 1
        BY <1>2, <1>9, <4>1 DEF x
      <4>2. CASE i # L + 1
        <5>1. i \in 1 .. L
          BY <1>1, <4>2
        <5>2. K[i] = Kind(t[i])
          BY <1>6, <5>1 DEF K
        <5>3. QED
          BY <1>2, <1>9, <5>1, <5>2
      <4>3. QED
        BY <4>1, <4>2
    <3>2. QED
      BY <3>1
  <2>3. QED
    BY <1>7, <2>1, <2>2
<1>11. QED
  BY <1>2, <1>8, <1>10 DEF T

\* Behind what cannot go on nothing can.
LEMMA NothingBehind ==
    ASSUME NEW k \in Seq(KindSet), NEW x \in KindSet, k \notin Open
    PROVE  Append(k, x) \notin Open \cup Closed
<1>1. /\ Len(k) \in Nat /\ k = [i \in 1 .. Len(k) |-> k[i]]
  BY LenProperties, SeqDef
<1>2. /\ Len(Append(k, x)) = Len(k) + 1 /\ Append(k, x)[Len(k) + 1] = x
      /\ \A i \in 1 .. Len(k) : Append(k, x)[i] = k[i]
  BY AppendProperties
<1>3. Append(k, x) # << >>
  BY <1>1, <1>2
<1>4. \A a : Append(k, x) = <<a>> => k = << >>
  BY <1>1, <1>2
<1>5. \A a, b : Append(k, x) = <<a, b>> => k = <<a>>
  BY <1>1, <1>2
<1>6. \A a, b, c : Append(k, x) = <<a, b, c>> => k = <<a, b>>
  BY <1>1, <1>2
<1>7. \A a, b, c, d : Append(k, x) = <<a, b, c, d>> => k = <<a, b, c>>
  BY <1>1, <1>2
<1>8. \A a, b, c, d, e : Append(k, x) = <<a, b, c, d, e>> => k = <<a, b, c, d>>
  BY <1>1, <1>2
<1> DEFINE K == Append(k, x)
<1> HIDE DEF K
<1>9. ASSUME K \in Open PROVE FALSE
  BY <1>3, <1>4, <1>5, <1>6, <1>7, <1>9 DEF Open, K
<1>10. ASSUME K \in Closed PROVE FALSE
  BY <1>4, <1>5, <1>6, <1>8, <1>10 DEF Open, Closed, K
<1>11. QED
  BY <1>9, <1>10 DEF K

OrFailure(S) == IF S = {} THEN {Failure} ELSE S

\* What get_range does in its first state.
LEMMA ScanOfStart ==
    ASSUME NEW c
    PROVE  Scan(Start, c) = IF c[1] = "*" THEN {RangeAt("Ast", Low, High, 1)}
                            ELSE IF c[1] = "~" THEN {RangeAt("Random", Low, 0, 1)}
                            ELSE OrFailure({RangeAt("Num1", n, 0, 1) : n \in Number(c)})
<1>1. Start.state = "Start"
  BY DEF Start, RangeAt
<1>2. QED
  BY <1>1 DEF Scan, OrFailure

\* And when it has failed.
LEMMA ScanOfFailure ==
    ASSUME NEW c
    PROVE  Scan(Failure, c) = {Failure}
<1>1. Failure.state = "Bad"
  BY DEF Failure, RangeAt
<1>2. QED
  BY <1>1 DEF Scan

\* Behind a star.
LEMMA ScanOfAst ==
    ASSUME NEW c, NEW lo, NEW hi, NEW st
    PROVE  Scan(RangeAt("Ast", lo, hi, st), c) =
             IF c[1] = "/" THEN {RangeAt("Step", lo, hi, st)}
             ELSE IF is_separator(c) THEN {RangeAt("Finish", lo, hi, st)} ELSE {Failure}
<1> DEFINE x == RangeAt("Ast", lo, hi, st)
<1>1. x.state = "Ast" /\ x.low_ = lo /\ x.high_ = hi /\ x.step = st
  BY DEF RangeAt
<1> HIDE DEF x
<1>2. Scan(x, c) =
             IF c[1] = "/" THEN {RangeAt("Step", lo, hi, st)}
             ELSE IF is_separator(c) THEN {RangeAt("Finish", lo, hi, st)} ELSE {Failure}
  BY <1>1 DEF Scan
<1>3. QED
  BY <1>2 DEF x

\* Behind the second number of a range.
LEMMA ScanOfRangeNum2 ==
    ASSUME NEW c, NEW lo, NEW hi, NEW st
    PROVE  Scan(RangeAt("RangeNum2", lo, hi, st), c) =
             IF c[1] = "/" THEN {RangeAt("Step", lo, hi, st)}
             ELSE IF is_separator(c) THEN {RangeAt("Finish", lo, hi, st)} ELSE {Failure}
<1> DEFINE x == RangeAt("RangeNum2", lo, hi, st)
<1>1. x.state = "RangeNum2" /\ x.low_ = lo /\ x.high_ = hi /\ x.step = st
  BY DEF RangeAt
<1> HIDE DEF x
<1>2. Scan(x, c) =
             IF c[1] = "/" THEN {RangeAt("Step", lo, hi, st)}
             ELSE IF is_separator(c) THEN {RangeAt("Finish", lo, hi, st)} ELSE {Failure}
  BY <1>1 DEF Scan
<1>3. QED
  BY <1>2 DEF x

\* Where a step stands.
LEMMA ScanOfStep ==
    ASSUME NEW c, NEW lo, NEW hi, NEW st
    PROVE  Scan(RangeAt("Step", lo, hi, st), c) =
             OrFailure({RangeAt("Terms", lo, hi, s) : s \in StepsOf(c)})
<1> DEFINE x == RangeAt("Step", lo, hi, st)
<1>1. x.state = "Step" /\ x.low_ = lo /\ x.high_ = hi /\ x.step = st
  BY DEF RangeAt
<1> HIDE DEF x
<1>2. Scan(x, c) =
             OrFailure({RangeAt("Terms", lo, hi, s) : s \in StepsOf(c)})
  BY <1>1 DEF Scan, OrFailure, StepsOf
<1>3. QED
  BY <1>2 DEF x

\* Where only the end of the range can follow.
LEMMA ScanOfTerms ==
    ASSUME NEW c, NEW lo, NEW hi, NEW st
    PROVE  Scan(RangeAt("Terms", lo, hi, st), c) =
             IF is_separator(c) THEN {RangeAt("Finish", lo, hi, st)} ELSE {Failure}
<1> DEFINE x == RangeAt("Terms", lo, hi, st)
<1>1. x.state = "Terms" /\ x.low_ = lo /\ x.high_ = hi /\ x.step = st
  BY DEF RangeAt
<1> HIDE DEF x
<1>2. Scan(x, c) =
             IF is_separator(c) THEN {RangeAt("Finish", lo, hi, st)} ELSE {Failure}
  BY <1>1 DEF Scan
<1>3. QED
  BY <1>2 DEF x

\* Behind its first number.
LEMMA ScanOfNum1 ==
    ASSUME NEW c, NEW lo, NEW hi, NEW st
    PROVE  Scan(RangeAt("Num1", lo, hi, st), c) =
             IF c[1] = "-" THEN {RangeAt("Range", lo, hi, st)}
             ELSE IF c[1] = "~" THEN {RangeAt("Random", lo, hi, st)}
             ELSE IF is_separator(c) THEN {RangeAt("Finish", lo, lo, 1)} ELSE {Failure}
<1> DEFINE x == RangeAt("Num1", lo, hi, st)
<1>1. x.state = "Num1" /\ x.low_ = lo /\ x.high_ = hi /\ x.step = st
  BY DEF RangeAt
<1> HIDE DEF x
<1>2. Scan(x, c) =
             IF c[1] = "-" THEN {RangeAt("Range", lo, hi, st)}
             ELSE IF c[1] = "~" THEN {RangeAt("Random", lo, hi, st)}
             ELSE IF is_separator(c) THEN {RangeAt("Finish", lo, lo, 1)} ELSE {Failure}
  BY <1>1 DEF Scan, is_separator
<1>3. QED
  BY <1>2 DEF x

\* Where the second number of a range stands.
LEMMA ScanOfRange ==
    ASSUME NEW c, NEW lo, NEW hi, NEW st
    PROVE  Scan(RangeAt("Range", lo, hi, st), c) =
             OrFailure({RangeAt("RangeNum2", lo, n, st) : n \in Number(c)})
<1> DEFINE x == RangeAt("Range", lo, hi, st)
<1>1. x.state = "Range" /\ x.low_ = lo /\ x.high_ = hi /\ x.step = st
  BY DEF RangeAt
<1> HIDE DEF x
<1>2. Scan(x, c) =
             OrFailure({RangeAt("RangeNum2", lo, n, st) : n \in Number(c)})
  BY <1>1 DEF Scan, OrFailure
<1>3. QED
  BY <1>2 DEF x

\* Behind the tilde.
LEMMA ScanOfRandom ==
    ASSUME NEW c, NEW lo, NEW hi, NEW st
    PROVE  Scan(RangeAt("Random", lo, hi, st), c) =
             OrFailure(IF is_separator(c)
                       THEN {RangeAt("Finish", p, p, st) : p \in UNION {lo .. h : h \in {High}}}
                       ELSE {RangeAt("Terms", p, p, st) : p \in UNION {lo .. h : h \in Number(c)}})
<1> DEFINE x == RangeAt("Random", lo, hi, st)
<1>1. x.state = "Random" /\ x.low_ = lo /\ x.high_ = hi /\ x.step = st
  BY DEF RangeAt
<1> HIDE DEF x
<1>2. Scan(x, c) =
             OrFailure(IF is_separator(c)
                       THEN {RangeAt("Finish", p, p, st) : p \in UNION {lo .. h : h \in {High}}}
                       ELSE {RangeAt("Terms", p, p, st) : p \in UNION {lo .. h : h \in Number(c)}})
  BY <1>1 DEF Scan, OrFailure
<1>3. QED
  BY <1>2 DEF x

\* A short sequence, element by element.
LEMMA Spelled ==
    ASSUME NEW S, NEW k \in Seq(S)
    PROVE  /\ Len(k) = 1 => k = <<k[1]>>
           /\ Len(k) = 2 => k = <<k[1], k[2]>>
           /\ Len(k) = 3 => k = <<k[1], k[2], k[3]>>
           /\ Len(k) = 4 => k = <<k[1], k[2], k[3], k[4]>>
           /\ Len(k) = 5 => k = <<k[1], k[2], k[3], k[4], k[5]>>
BY LenProperties, SeqDef

\* The beginnings of a range and what they become.
LEMMA LongerKinds ==
    ASSUME NEW k \in Seq(KindSet), NEW x \in KindSet
    PROVE  /\ k = << >> => Append(k, x) = <<x>>
           /\ k = <<"*">> => Append(k, x) = <<"*", x>>
           /\ k = <<"*", "/">> => Append(k, x) = <<"*", "/", x>>
           /\ k = <<"n">> => Append(k, x) = <<"n", x>>
           /\ k = <<"n", "-">> => Append(k, x) = <<"n", "-", x>>
           /\ k = <<"n", "-", "n">> => Append(k, x) = <<"n", "-", "n", x>>
           /\ k = <<"n", "-", "n", "/">> => Append(k, x) = <<"n", "-", "n", "/", x>>
           /\ k = <<"~">> => Append(k, x) = <<"~", x>>
           /\ k = <<"n", "~">> => Append(k, x) = <<"n", "~", x>>
<1> DEFINE K == Append(k, x)
<1>1. /\ K \in Seq(KindSet) /\ Len(K) = Len(k) + 1 /\ K[Len(k) + 1] = x
      /\ \A i \in 1 .. Len(k) : K[i] = k[i]
  BY AppendProperties
<1> HIDE DEF K
<1>2. /\ Len(K) = 1 => K = <<K[1]>>
      /\ Len(K) = 2 => K = <<K[1], K[2]>>
      /\ Len(K) = 3 => K = <<K[1], K[2], K[3]>>
      /\ Len(K) = 4 => K = <<K[1], K[2], K[3], K[4]>>
      /\ Len(K) = 5 => K = <<K[1], K[2], K[3], K[4], K[5]>>
  BY <1>1, Spelled
<1>3. /\ k = << >> => K = <<x>>
      /\ k = <<"*">> => K = <<"*", x>>
      /\ k = <<"*", "/">> => K = <<"*", "/", x>>
      /\ k = <<"n">> => K = <<"n", x>>
      /\ k = <<"n", "-">> => K = <<"n", "-", x>>
  BY <1>1, <1>2
<1>4. /\ k = <<"n", "-", "n">> => K = <<"n", "-", "n", x>>
      /\ k = <<"n", "-", "n", "/">> => K = <<"n", "-", "n", "/", x>>
      /\ k = <<"~">> => K = <<"~", x>>
      /\ k = <<"n", "~">> => K = <<"n", "~", x>>
  BY <1>1, <1>2
<1>5. QED
  BY <1>3, <1>4 DEF K

\* What is understood of each beginning and each form.
LEMMA UnderstoodForms ==
    ASSUME NEW t, NEW g
    PROVE  LET v(i) == Value(t[i]) IN
           /\ Kinds(t) = << >> /\ g = Start => Understood(t, g)
           /\ Kinds(t) = <<"*">> /\ g = RangeAt("Ast", Low, High, 1) => Understood(t, g)
           /\ Kinds(t) = <<"*", "/">> /\ g = RangeAt("Step", Low, High, 1) => Understood(t, g)
           /\ \A s \in StepsOf(t[3]) :
                Kinds(t) = <<"*", "/", "n">> /\ g = RangeAt("Terms", Low, High, s) => Understood(t, g)
           /\ Kinds(t) = <<"n">> /\ g = RangeAt("Num1", v(1), 0, 1) => Understood(t, g)
           /\ Kinds(t) = <<"n", "-">> /\ g = RangeAt("Range", v(1), 0, 1) => Understood(t, g)
           /\ Kinds(t) = <<"n", "-", "n">> /\ g = RangeAt("RangeNum2", v(1), v(3), 1) => Understood(t, g)
           /\ Kinds(t) = <<"n", "-", "n", "/">> /\ g = RangeAt("Step", v(1), v(3), 1) => Understood(t, g)
           /\ \A s \in StepsOf(t[5]) :
                /\ Kinds(t) = <<"n", "-", "n", "/", "n">> /\ g = RangeAt("Terms", v(1), v(3), s)
                => Understood(t, g)
           /\ Kinds(t) = <<"~">> /\ g = RangeAt("Random", Low, 0, 1) => Understood(t, g)
           /\ Kinds(t) = <<"n", "~">> /\ g = RangeAt("Random", v(1), 0, 1) => Understood(t, g)
           /\ \A p \in Low .. v(2) : Kinds(t) = <<"~", "n">> /\ g = Picked(p) => Understood(t, g)
           /\ \A p \in v(1) .. v(3) : Kinds(t) = <<"n", "~", "n">> /\ g = Picked(p) => Understood(t, g)
           /\ g = Failure /\ Kinds(t) \notin Open /\ Meaning(t) = {{Rejected}} => Understood(t, g)
BY Zenon DEF Understood

\* What is no beginning of a form, and no form, is rejected and stays so.
LEMMA DeadEnd ==
    ASSUME NEW t, Kinds(t) \notin Open \cup Closed
    PROVE  Understood(t, Failure)
<1>1. Kinds(t) \notin Open /\ Meaning(t) = {{Rejected}}
  BY MeaningByForm
<1>2. QED
  BY <1>1, UnderstoodForms

\* The kinds that can follow a beginning.
LEMMA Continuations ==
    ASSUME NEW x
    PROVE  /\ <<x>> \in Open \cup Closed => x \in {"*", "n", "~"}
           /\ <<"*", x>> \in Open \cup Closed => x = "/"
           /\ <<"*", "/", x>> \in Open \cup Closed => x = "n"
           /\ <<"n", x>> \in Open \cup Closed => x \in {"-", "~"}
           /\ <<"n", "-", x>> \in Open \cup Closed => x = "n"
           /\ <<"n", "-", "n", x>> \in Open \cup Closed => x = "/"
           /\ <<"n", "-", "n", "/", x>> \in Open \cup Closed => x = "n"
           /\ <<"~", x>> \in Open \cup Closed => x = "n"
           /\ <<"n", "~", x>> \in Open \cup Closed => x = "n"
BY DEF Open, Closed

\* With one more character of a range its state still says what was read.
LEMMA ScanStep ==
    ASSUME ScheduleAssumption, NEW t \in Seq(Tokens), NEW c \in Tokens, ~is_separator(c),
           NEW g, Understood(t, g), NEW g2 \in Scan(g, c)
    PROVE  Understood(Append(t, c), g2)
<1> DEFINE T == Append(t, c)
           k == Kinds(t)
           K == Kinds(T)
           x == Kind(c)
           v(i) == Value(T[i])
<1> SUFFICES Understood(T, g2)
  OBVIOUS
<1>1. /\ k \in Seq(KindSet) /\ Len(k) = Len(t) /\ K = Append(k, x)
      /\ \A i \in 1 .. Len(t) : T[i] = t[i]
      /\ T[Len(t) + 1] = c
  BY KindsAppend
<1>2. K \notin Open \cup Closed => Understood(T, Failure)
  BY DeadEnd
<1>3. /\ x \in KindSet
      /\ x = "n" => Number(c) = {Value(c)}
      /\ x # "n" => Number(c) = {} /\ x = c[1] /\ StepsOf(c) = {}
      /\ c[1] \in {"*", "~", "-", "/"} => x = c[1]
  BY TokenFacts
<1> HIDE DEF T, x
<1>4. CASE k = << >> /\ g = Start
  <2>1. K = <<x>> /\ T[1] = c
    <3>1. K = <<x>>
      BY <1>1, <1>3, <1>4, LongerKinds
    <3>2. Len(t) = 0
      BY <1>1, <1>4
    <3>3. QED
      BY <1>1, <3>1, <3>2
  <2>2. CASE c[1] = "*"
    <3>1. g2 = RangeAt("Ast", Low, High, 1)
      BY <1>4, <2>2, ScanOfStart
    <3>2. QED
      BY <1>3, <2>1, <2>2, <3>1, UnderstoodForms
  <2>3. CASE c[1] = "~"
    <3>1. g2 = RangeAt("Random", Low, 0, 1)
      BY <1>4, <2>3, ScanOfStart
    <3>2. QED
      BY <1>3, <2>1, <2>3, <3>1, UnderstoodForms
  <2>4. CASE c[1] \notin {"*", "~"}
    <3>1. g2 \in OrFailure({RangeAt("Num1", n, 0, 1) : n \in Number(c)})
      BY <1>4, <2>4, ScanOfStart
    <3>2. CASE x = "n"
      <4>1. g2 = RangeAt("Num1", v(1), 0, 1)
        BY <1>3, <2>1, <3>1, <3>2 DEF OrFailure
      <4>2. QED
        BY <2>1, <3>2, <4>1, UnderstoodForms
    <3>3. CASE x # "n"
      <4>1. g2 = Failure
        BY <1>3, <3>1, <3>3 DEF OrFailure
      <4>2. QED
        BY <1>2, <1>3, <2>1, <2>4, <3>3, <4>1, Continuations
    <3>4. QED
      BY <3>2, <3>3
  <2>5. QED
    BY <2>2, <2>3, <2>4
<1>5. CASE k = <<"*">> /\ g = RangeAt("Ast", Low, High, 1)
  <2>1. K = <<"*", x>>
    BY <1>1, <1>3, <1>5, LongerKinds
  <2>2. g2 = IF c[1] = "/" THEN RangeAt("Step", Low, High, 1) ELSE Failure
    BY <1>5, ScanOfAst
  <2>3. CASE c[1] = "/"
    BY <1>3, <2>1, <2>2, <2>3, UnderstoodForms
  <2>4. CASE c[1] # "/"
    BY <1>2, <1>3, <2>1, <2>2, <2>4, Continuations
  <2>5. QED
    BY <2>3, <2>4
<1>6. CASE k = <<"*", "/">> /\ g = RangeAt("Step", Low, High, 1)
  <2>1. K = <<"*", "/", x>> /\ T[3] = c
    <3>1. K = <<"*", "/", x>>
      BY <1>1, <1>3, <1>6, LongerKinds
    <3>2. Len(t) = 2
      BY <1>1, <1>6
    <3>3. QED
      BY <1>1, <3>1, <3>2
  <2>2. g2 \in OrFailure({RangeAt("Terms", Low, High, s) : s \in StepsOf(c)})
    BY <1>6, ScanOfStep
  <2>3. CASE x # "n"
    <3>1. g2 = Failure
      BY <1>3, <2>2, <2>3 DEF OrFailure
    <3>2. QED
      BY <1>2, <2>1, <2>3, <3>1, Continuations
  <2>4. CASE x = "n" /\ StepsOf(c) # {}
    <3>1. PICK s \in StepsOf(T[3]) : g2 = RangeAt("Terms", Low, High, s)
      BY <2>1, <2>2, <2>4 DEF OrFailure
    <3>2. QED
      BY <2>1, <2>4, <3>1, UnderstoodForms
  <2>5. CASE x = "n" /\ StepsOf(c) = {}
    <3>1. g2 = Failure /\ K \notin Open
      BY <2>1, <2>2, <2>5 DEF Open, OrFailure
    <3>2. Meaning(T) = OrNone({Every(Low, High, s) : s \in StepsOf(T[3])})
      BY <2>1, <2>5, MeaningByForm
    <3>3. Meaning(T) = {{Rejected}}
      BY <2>1, <2>5, <3>2 DEF OrNone
    <3>4. QED
      BY <3>1, <3>3, UnderstoodForms
  <2>6. QED
    BY <2>3, <2>4, <2>5
<1>7. CASE k = <<"*", "/", "n">> /\ \E s \in StepsOf(t[3]) : g = RangeAt("Terms", Low, High, s)
  <2>1. g2 = Failure
    BY <1>7, ScanOfTerms
  <2>2. k \notin Open
    BY <1>7 DEF Open
  <2>3. QED
    BY <1>1, <1>2, <1>3, <2>1, <2>2, NothingBehind
<1>8. CASE k = <<"n">> /\ g = RangeAt("Num1", Value(t[1]), 0, 1)
  <2>1. K = <<"n", x>> /\ T[1] = t[1]
    <3>1. K = <<"n", x>>
      BY <1>1, <1>3, <1>8, LongerKinds
    <3>2. Len(t) = 1
      BY <1>1, <1>8
    <3>3. QED
      BY <1>1, <3>1, <3>2
  <2>2. g2 = IF c[1] = "-" THEN RangeAt("Range", v(1), 0, 1)
             ELSE IF c[1] = "~" THEN RangeAt("Random", v(1), 0, 1) ELSE Failure
    BY <1>8, <2>1, ScanOfNum1
  <2>3. CASE c[1] = "-"
    BY <1>3, <2>1, <2>2, <2>3, UnderstoodForms
  <2>4. CASE c[1] = "~"
    BY <1>3, <2>1, <2>2, <2>4, UnderstoodForms
  <2>5. CASE c[1] \notin {"-", "~"}
    BY <1>2, <1>3, <2>1, <2>2, <2>5, Continuations
  <2>6. QED
    BY <2>3, <2>4, <2>5
<1>9. CASE k = <<"n", "-">> /\ g = RangeAt("Range", Value(t[1]), 0, 1)
  <2>1. K = <<"n", "-", x>> /\ T[1] = t[1] /\ T[3] = c
    <3>1. K = <<"n", "-", x>>
      BY <1>1, <1>3, <1>9, LongerKinds
    <3>2. Len(t) = 2
      BY <1>1, <1>9
    <3>3. QED
      BY <1>1, <3>1, <3>2
  <2>2. g2 \in OrFailure({RangeAt("RangeNum2", v(1), n, 1) : n \in Number(c)})
    BY <1>9, <2>1, ScanOfRange
  <2>3. CASE x = "n"
    <3>1. g2 = RangeAt("RangeNum2", v(1), v(3), 1)
      BY <1>3, <2>1, <2>2, <2>3 DEF OrFailure
    <3>2. QED
      BY <2>1, <2>3, <3>1, UnderstoodForms
  <2>4. CASE x # "n"
    <3>1. g2 = Failure
      BY <1>3, <2>2, <2>4 DEF OrFailure
    <3>2. QED
      BY <1>2, <2>1, <2>4, <3>1, Continuations
  <2>5. QED
    BY <2>3, <2>4
<1>10. CASE k = <<"n", "-", "n">> /\ g = RangeAt("RangeNum2", Value(t[1]), Value(t[3]), 1)
  <2>1. K = <<"n", "-", "n", x>> /\ T[1] = t[1] /\ T[3] = t[3]
    <3>1. K = <<"n", "-", "n", x>>
      BY <1>1, <1>3, <1>10, LongerKinds
    <3>2. Len(t) = 3
      BY <1>1, <1>10
    <3>3. QED
      BY <1>1, <3>1, <3>2
  <2>2. g2 = IF c[1] = "/" THEN RangeAt("Step", v(1), v(3), 1) ELSE Failure
    BY <1>10, <2>1, ScanOfRangeNum2
  <2>3. CASE c[1] = "/"
    BY <1>3, <2>1, <2>2, <2>3, UnderstoodForms
  <2>4. CASE c[1] # "/"
    BY <1>2, <1>3, <2>1, <2>2, <2>4, Continuations
  <2>5. QED
    BY <2>3, <2>4
<1>11. CASE k = <<"n", "-", "n", "/">> /\ g = RangeAt("Step", Value(t[1]), Value(t[3]), 1)
  <2>1. K = <<"n", "-", "n", "/", x>> /\ T[1] = t[1] /\ T[3] = t[3] /\ T[5] = c
    <3>1. K = <<"n", "-", "n", "/", x>>
      BY <1>1, <1>3, <1>11, LongerKinds
    <3>2. Len(t) = 4
      BY <1>1, <1>11
    <3>3. QED
      BY <1>1, <3>1, <3>2
  <2>2. g2 \in OrFailure({RangeAt("Terms", v(1), v(3), s) : s \in StepsOf(c)})
    BY <1>11, <2>1, ScanOfStep
  <2>3. CASE x # "n"
    <3>1. g2 = Failure
      BY <1>3, <2>2, <2>3 DEF OrFailure
    <3>2. QED
      BY <1>2, <2>1, <2>3, <3>1, Continuations
  <2>4. CASE x = "n" /\ StepsOf(c) # {}
    <3>1. PICK s \in StepsOf(T[5]) : g2 = RangeAt("Terms", v(1), v(3), s)
      BY <2>1, <2>2, <2>4 DEF OrFailure
    <3>2. QED
      BY <2>1, <2>4, <3>1, UnderstoodForms
  <2>5. CASE x = "n" /\ StepsOf(c) = {}
    <3>1. g2 = Failure /\ K \notin Open
      BY <2>1, <2>2, <2>5 DEF Open, OrFailure
    <3>2. Meaning(T) = OrNone({Every(v(1), v(3), s) : s \in StepsOf(T[5])})
      <4>1. K = <<"n", "-", "n", "/", "n">>
        BY <2>1, <2>5
      <4> HIDE DEF K
      <4>2. QED
        BY <4>1, MeaningByForm DEF K
    <3>3. Meaning(T) = {{Rejected}}
      BY <2>1, <2>5, <3>2 DEF OrNone
    <3>4. QED
      BY <3>1, <3>3, UnderstoodForms
  <2>6. QED
    BY <2>3, <2>4, <2>5
<1>12. CASE k = <<"n", "-", "n", "/", "n">>
            /\ \E s \in StepsOf(t[5]) : g = RangeAt("Terms", Value(t[1]), Value(t[3]), s)
  <2>1. g2 = Failure
    BY <1>12, ScanOfTerms
  <2>2. k \notin Open
    BY <1>12 DEF Open
  <2>3. QED
    BY <1>1, <1>2, <1>3, <2>1, <2>2, NothingBehind
<1>13. CASE k = <<"~">> /\ g = RangeAt("Random", Low, 0, 1)
  <2>1. K = <<"~", x>> /\ T[2] = c
    <3>1. K = <<"~", x>>
      BY <1>1, <1>3, <1>13, LongerKinds
    <3>2. Len(t) = 1
      BY <1>1, <1>13
    <3>3. QED
      BY <1>1, <3>1, <3>2
  <2> DEFINE S == {RangeAt("Terms", p, p, 1) : p \in UNION {Low .. h : h \in Number(c)}}
  <2>2. g2 \in OrFailure(S)
    BY <1>13, ScanOfRandom
  <2>3. CASE x # "n"
    <3>1. S = {}
      BY <1>3, <2>3
    <3>2. g2 = Failure
      BY <2>2, <3>1 DEF OrFailure
    <3>3. QED
      BY <1>2, <2>1, <2>3, <3>2, Continuations
  <2>4. CASE x = "n"
    <3>1. S = {Picked(p) : p \in Low .. v(2)}
      BY <1>3, <2>1, <2>4 DEF Picked
    <3> HIDE DEF S
    <3>2. CASE S # {}
      <4>1. g2 \in S
        BY <2>2, <3>2 DEF OrFailure
      <4>2. QED
        BY <2>1, <2>4, <3>1, <4>1, UnderstoodForms
    <3>3. CASE S = {}
      <4>1. Low .. v(2) = {}
        BY <3>1, <3>3
      <4>2. Meaning(T) = OrNone({InField({i}) : i \in Low .. v(2)})
        BY <2>1, <2>4, MeaningByForm
      <4>3. Meaning(T) = {{Rejected}}
        BY <4>1, <4>2 DEF OrNone
      <4>4. g2 = Failure /\ K \notin Open
        BY <2>1, <2>2, <2>4, <3>3 DEF Open, OrFailure
      <4>5. QED
        BY <4>3, <4>4, UnderstoodForms
    <3>4. QED
      BY <3>2, <3>3
  <2>5. QED
    BY <2>3, <2>4
<1>14. CASE k = <<"n", "~">> /\ g = RangeAt("Random", Value(t[1]), 0, 1)
  <2>1. K = <<"n", "~", x>> /\ T[1] = t[1] /\ T[3] = c
    <3>1. K = <<"n", "~", x>>
      BY <1>1, <1>3, <1>14, LongerKinds
    <3>2. Len(t) = 2
      BY <1>1, <1>14
    <3>3. QED
      BY <1>1, <3>1, <3>2
  <2> DEFINE S == {RangeAt("Terms", p, p, 1) : p \in UNION {v(1) .. h : h \in Number(c)}}
  <2>2. g2 \in OrFailure(S)
    <3>1. g = RangeAt("Random", v(1), 0, 1)
      BY <1>14, <2>1
    <3> HIDE DEF v
    <3>2. Scan(g, c) = OrFailure(S)
      BY <3>1, ScanOfRandom
    <3>3. QED
      BY <3>2
  <2>3. CASE x # "n"
    <3>1. S = {}
      BY <1>3, <2>3
    <3>2. g2 = Failure
      BY <2>2, <3>1 DEF OrFailure
    <3>3. QED
      BY <1>2, <2>1, <2>3, <3>2, Continuations
  <2>4. CASE x = "n"
    <3>1. S = {Picked(p) : p \in v(1) .. v(3)}
      BY <1>3, <2>1, <2>4 DEF Picked
    <3> HIDE DEF S
    <3>2. CASE S # {}
      <4>1. g2 \in S
        BY <2>2, <3>2 DEF OrFailure
      <4>2. QED
        BY <2>1, <2>4, <3>1, <4>1, UnderstoodForms
    <3>3. CASE S = {}
      <4>1. v(1) .. v(3) = {}
        BY <3>1, <3>3
      <4>2. Meaning(T) = OrNone({InField({i}) : i \in v(1) .. v(3)})
        BY <2>1, <2>4, MeaningByForm
      <4>3. Meaning(T) = {{Rejected}}
        BY <4>1, <4>2 DEF OrNone
      <4>4. g2 = Failure /\ K \notin Open
        BY <2>1, <2>2, <2>4, <3>3 DEF Open, OrFailure
      <4>5. QED
        BY <4>3, <4>4, UnderstoodForms
    <3>4. QED
      BY <3>2, <3>3
  <2>5. QED
    BY <2>3, <2>4
<1>15. CASE k \in {<<"~", "n">>, <<"n", "~", "n">>} /\ \E p : g = Picked(p)
  <2>1. g2 = Failure
    BY <1>15, ScanOfTerms DEF Picked
  <2>2. k \notin Open
    <3>1. <<"~", "n">> \notin Open /\ <<"n", "~", "n">> \notin Open
      BY DEF Open
    <3>2. QED
      BY <1>15, <3>1
  <2>3. QED
    BY <1>1, <1>2, <1>3, <2>1, <2>2, NothingBehind
<1>16. CASE g = Failure /\ k \notin Open
  <2>1. g2 = Failure
    BY <1>16, ScanOfFailure
  <2>2. QED
    BY <1>1, <1>2, <1>3, <1>16, <2>1, NothingBehind
<1>17. QED
  <2>1. \/ k \in {<<"~", "n">>, <<"n", "~", "n">>} /\ \E p : g = Picked(p)
        \/ g = Failure /\ k \notin Open
        \/ k = << >> /\ g = Start
        \/ k = <<"*">> /\ g = RangeAt("Ast", Low, High, 1)
        \/ k = <<"*", "/">> /\ g = RangeAt("Step", Low, High, 1)
        \/ k = <<"*", "/", "n">> /\ \E s \in StepsOf(t[3]) : g = RangeAt("Terms", Low, High, s)
        \/ k = <<"n">> /\ g = RangeAt("Num1", Value(t[1]), 0, 1)
        \/ k = <<"n", "-">> /\ g = RangeAt("Range", Value(t[1]), 0, 1)
        \/ k = <<"n", "-", "n">> /\ g = RangeAt("RangeNum2", Value(t[1]), Value(t[3]), 1)
        \/ k = <<"n", "-", "n", "/">> /\ g = RangeAt("Step", Value(t[1]), Value(t[3]), 1)
        \/ /\ k = <<"n", "-", "n", "/", "n">>
           /\ \E s \in StepsOf(t[5]) : g = RangeAt("Terms", Value(t[1]), Value(t[3]), s)
        \/ k = <<"~">> /\ g = RangeAt("Random", Low, 0, 1)
        \/ k = <<"n", "~">> /\ g = RangeAt("Random", Value(t[1]), 0, 1)
    BY Zenon DEF Understood
  <2>2. QED
    BY <1>4, <1>5, <1>6, <1>7, <1>8, <1>9, <1>10, <1>11, <1>12, <1>13, <1>14, <1>15, <1>16, <2>1

\* A range of picked values is one of them, and every one of them is a choice.
LEMMA PickMeaning ==
    ASSUME ScheduleAssumption, NEW a, NEW b, NEW p \in CInts, p \in a .. b
    PROVE  \E m \in OrNone({InField({i}) : i \in a .. b}) : Same(Selected(RangeAt("Finish", p, p, 1)), m)
<1>1. 1 \in CInts \ {0} /\ 1 + High < C_INT /\ p \in Int
  BY Bounds DEF CInts
<1>2. Same(Selected(RangeAt("Finish", p, p, 1)), Every(p, p, 1))
  BY <1>1, LoopMeaning
<1>3. Every(p, p, 1) = InField({p})
  <2>1. p .. p = {p}
    BY <1>1
  <2>2. QED
    BY <1>1, <2>1, EveryOne
<1>4. InField({p}) \in {InField({i}) : i \in a .. b}
  OBVIOUS
<1>5. InField({p}) \in OrNone({InField({i}) : i \in a .. b})
  BY <1>4 DEF OrNone
<1>6. QED
  BY <1>2, <1>3, <1>5

\* A number is a C int, and so is what a range may have as its step, which is small.
LEMMA RangeNumbers ==
    ASSUME ScheduleAssumption, NEW t \in Seq(Tokens), ~Overflows(t), NEW i \in 1 .. Len(t)
    PROVE  /\ Kinds(t)[i] = "n" => Value(t[i]) \in CInts
           /\ i > 1 /\ Kinds(t)[i - 1] = "/" => \A s \in StepsOf(t[i]) : s \in CInts \ {0} /\ s + High < C_INT
<1>1. /\ Len(t) \in Nat /\ DOMAIN t = 1 .. Len(t) /\ \A j \in 1 .. Len(t) : t[j] \in Tokens
  BY LenProperties, ElementOfSeq
<1>2. \A j \in 1 .. Len(t) : Kinds(t)[j] = Kind(t[j])
  BY <1>1 DEF Kinds
<1>3. Kinds(t)[i] = "n" => Value(t[i]) \in CInts
  BY <1>1, <1>2, TokenFacts
<1>4. ASSUME i > 1, Kinds(t)[i - 1] = "/", NEW s \in StepsOf(t[i]) PROVE s \in CInts \ {0} /\ s + High < C_INT
  <2>1. i - 1 \in 1 .. Len(t) /\ i - 1 < Len(t) /\ (i - 1) + 1 = i
    BY <1>1, <1>4
  <2>2. t[i - 1][1] = "/"
    <3>1. Kind(t[i - 1]) = "/" /\ t[i - 1] \in Tokens
      BY <1>1, <1>2, <1>4, <2>1
    <3>2. QED
      BY <3>1, TokenFacts
  <2>3. s \in get_number(t[(i - 1) + 1], 0, FALSE)
    BY <1>4, <2>1 DEF StepsOf
  <2>4. ~(s + High >= C_INT)
    BY <1>1, <2>1, <2>2, <2>3 DEF Overflows
  <2>5. s \in CInts \ {0}
    BY <1>1, <1>4, TokenFacts
  <2>6. s \in Int
    BY <2>5, Bounds DEF CInts
  <2>7. QED
    BY <2>4, <2>5, <2>6, Bounds
<1>5. QED
  BY <1>3, <1>4

\* At the end of a range the loop selects one of the sets that its grammar allows.
LEMMA ScanEnd ==
    ASSUME ScheduleAssumption, NEW t \in Seq(Tokens), NEW c \in Tokens, is_separator(c),
           NEW g, Understood(t, g), ~Overflows(t), NEW g2 \in Scan(g, c)
    PROVE  \E m \in Meaning(t) : Same(Selected(g2), m)
<1> DEFINE k == Kinds(t)
           v(i) == Value(t[i])
<1>1. c[1] \notin {"*", "~", "-", "/"} /\ Number(c) = {} /\ StepsOf(c) = {}
  <2>1. c[1] \in {",", "blank"}
    BY DEF is_separator
  <2>2. QED
    BY <2>1 DEF Number, get_number, StepsOf
<1>2. ASSUME g2 = Failure, Meaning(t) = {{Rejected}} PROVE \E m \in Meaning(t) : Same(Selected(g2), m)
  <2>1. Selected(g2) = {Rejected}
    BY <1>2 DEF Selected, Failure, RangeAt
  <2>2. QED
    BY <1>2, <2>1 DEF Same
<1>3. k \notin Closed => Meaning(t) = {{Rejected}}
  BY MeaningByForm
<1>4. ASSUME NEW a \in CInts, NEW b \in CInts, NEW s \in CInts \ {0}, s + High < C_INT,
             g2 = RangeAt("Finish", a, b, s), Every(a, b, s) \in Meaning(t)
      PROVE  \E m \in Meaning(t) : Same(Selected(g2), m)
  BY <1>4, LoopMeaning
<1>5. Low \in CInts /\ High \in CInts /\ 1 \in CInts \ {0} /\ 1 + High < C_INT
  BY Bounds DEF CInts
<1>6. CASE k = << >> /\ g = Start
  <2>1. g2 = Failure
    BY <1>1, <1>6, ScanOfStart DEF OrFailure
  <2>2. k \notin Closed
    BY <1>6 DEF Closed
  <2>3. QED
    BY <1>2, <1>3, <2>1, <2>2
<1>7. CASE k = <<"*">> /\ g = RangeAt("Ast", Low, High, 1)
  <2>1. g2 = RangeAt("Finish", Low, High, 1)
    BY <1>1, <1>7, ScanOfAst
  <2>2. Every(Low, High, 1) = Low .. High
    <3>1. Low \in Int /\ High \in Int
      BY Bounds
    <3>2. QED
      BY <3>1, EveryOne DEF InField
  <2>3. Meaning(t) = {Low .. High}
    BY <1>7, MeaningByForm
  <2>4. QED
    BY <1>4, <1>5, <2>1, <2>2, <2>3
<1>8. CASE k = <<"*", "/">> /\ g = RangeAt("Step", Low, High, 1)
  <2>1. g2 = Failure
    BY <1>1, <1>8, ScanOfStep DEF OrFailure
  <2>2. k \notin Closed
    BY <1>8 DEF Closed
  <2>3. QED
    BY <1>2, <1>3, <2>1, <2>2
<1>9. CASE k = <<"*", "/", "n">> /\ \E s \in StepsOf(t[3]) : g = RangeAt("Terms", Low, High, s)
  <2>1. PICK s \in StepsOf(t[3]) : g = RangeAt("Terms", Low, High, s)
    BY <1>9
  <2>2. g2 = RangeAt("Finish", Low, High, s)
    BY <1>1, <2>1, ScanOfTerms
  <2>3. Len(t) = 3 /\ k[2] = "/"
    BY <1>9, KindsAppend
  <2>4. s \in CInts \ {0} /\ s + High < C_INT
    <3>1. 3 \in 1 .. Len(t) /\ k[3 - 1] = "/" /\ 3 > 1
      BY <2>3
    <3> HIDE DEF k
    <3>2. QED
      BY <3>1, RangeNumbers DEF k
  <2>5. Meaning(t) = OrNone({Every(Low, High, s1) : s1 \in StepsOf(t[3])})
    BY <1>9, MeaningByForm
  <2>6. Every(Low, High, s) \in Meaning(t)
    BY <2>5 DEF OrNone
  <2>7. QED
    BY <1>4, <1>5, <2>2, <2>4, <2>6
<1>10. CASE k = <<"n">> /\ g = RangeAt("Num1", v(1), 0, 1)
  <2>1. g2 = RangeAt("Finish", v(1), v(1), 1)
    BY <1>1, <1>10, ScanOfNum1
  <2>2. Len(t) = 1 /\ k[1] = "n"
    BY <1>10, KindsAppend
  <2>3. v(1) \in CInts
    <3>1. 1 \in 1 .. Len(t)
      BY <2>2
    <3> HIDE DEF k
    <3>2. QED
      BY <2>2, <3>1, RangeNumbers DEF k
  <2>4. Meaning(t) = {Every(v(1), v(1), 1)}
    BY <1>10, MeaningByForm
  <2>5. QED
    BY <1>4, <1>5, <2>1, <2>3, <2>4
<1>11. CASE k = <<"n", "-">> /\ g = RangeAt("Range", v(1), 0, 1)
  <2>1. g2 = Failure
    BY <1>1, <1>11, ScanOfRange DEF OrFailure
  <2>2. k \notin Closed
    BY <1>11 DEF Closed
  <2>3. QED
    BY <1>2, <1>3, <2>1, <2>2
<1>12. CASE k = <<"n", "-", "n">> /\ g = RangeAt("RangeNum2", v(1), v(3), 1)
  <2>1. g2 = RangeAt("Finish", v(1), v(3), 1)
    BY <1>1, <1>12, ScanOfRangeNum2
  <2>2. Len(t) = 3 /\ k[1] = "n" /\ k[3] = "n"
    BY <1>12, KindsAppend
  <2>3. v(1) \in CInts /\ v(3) \in CInts
    BY <2>2, RangeNumbers
  <2>4. Meaning(t) = {Every(v(1), v(3), 1)}
    BY <1>12, MeaningByForm
  <2>5. QED
    BY <1>4, <1>5, <2>1, <2>3, <2>4
<1>13. CASE k = <<"n", "-", "n", "/">> /\ g = RangeAt("Step", v(1), v(3), 1)
  <2>1. g2 = Failure
    BY <1>1, <1>13, ScanOfStep DEF OrFailure
  <2>2. k \notin Closed
    BY <1>13 DEF Closed
  <2>3. QED
    BY <1>2, <1>3, <2>1, <2>2
<1>14. CASE k = <<"n", "-", "n", "/", "n">> /\ \E s \in StepsOf(t[5]) : g = RangeAt("Terms", v(1), v(3), s)
  <2>1. PICK s \in StepsOf(t[5]) : g = RangeAt("Terms", v(1), v(3), s)
    BY <1>14
  <2>2. g2 = RangeAt("Finish", v(1), v(3), s)
    BY <1>1, <2>1, ScanOfTerms
  <2>3. Len(t) = 5 /\ k[4] = "/" /\ k[1] = "n" /\ k[3] = "n"
    BY <1>14, KindsAppend
  <2>4. s \in CInts \ {0} /\ s + High < C_INT
    <3>1. 5 \in 1 .. Len(t) /\ k[5 - 1] = "/" /\ 5 > 1
      BY <2>3
    <3> HIDE DEF k
    <3>2. QED
      BY <3>1, RangeNumbers DEF k
  <2>5. v(1) \in CInts /\ v(3) \in CInts
    <3>1. 1 \in 1 .. Len(t) /\ 3 \in 1 .. Len(t)
      BY <2>3
    <3> HIDE DEF k
    <3>2. QED
      BY <2>3, <3>1, RangeNumbers DEF k
  <2>6. Meaning(t) = OrNone({Every(v(1), v(3), s1) : s1 \in StepsOf(t[5])})
    BY <1>14, MeaningByForm
  <2>7. Every(v(1), v(3), s) \in Meaning(t)
    BY <2>6 DEF OrNone
  <2>8. QED
    BY <1>4, <2>2, <2>4, <2>5, <2>7
<1>15. ASSUME NEW a \in CInts, g = RangeAt("Random", a, 0, 1),
              Meaning(t) = OrNone({InField({i}) : i \in a .. High})
       PROVE  \E m \in Meaning(t) : Same(Selected(g2), m)
  <2> DEFINE S == {RangeAt("Finish", p, p, 1) : p \in UNION {a .. h : h \in {High}}}
  <2>1. g2 \in OrFailure(S)
    BY <1>15, ScanOfRandom
  <2>2. CASE a .. High = {}
    <3>1. g2 = Failure
      BY <2>1, <2>2 DEF OrFailure
    <3>2. Meaning(t) = {{Rejected}}
      BY <1>15, <2>2 DEF OrNone
    <3>3. QED
      BY <1>2, <3>1, <3>2
  <2>3. CASE a .. High # {}
    <3>1. g2 \in S
      BY <2>1, <2>3 DEF OrFailure
    <3>2. PICK p \in a .. High : g2 = RangeAt("Finish", p, p, 1)
      BY <3>1
    <3>3. p \in CInts
      BY Bounds DEF CInts
    <3>4. QED
      BY <1>15, <3>2, <3>3, PickMeaning
  <2>4. QED
    BY <2>2, <2>3
<1>16. CASE k = <<"~">> /\ g = RangeAt("Random", Low, 0, 1)
  <2>1. Meaning(t) = OrNone({InField({i}) : i \in Low .. High})
    BY <1>16, MeaningByForm
  <2>2. QED
    BY <1>5, <1>15, <1>16, <2>1
<1>17. CASE k = <<"n", "~">> /\ g = RangeAt("Random", v(1), 0, 1)
  <2>1. Meaning(t) = OrNone({InField({i}) : i \in v(1) .. High})
    BY <1>17, MeaningByForm
  <2>2. Len(t) = 2 /\ k[1] = "n"
    BY <1>17, KindsAppend
  <2>3. v(1) \in CInts
    <3>1. 1 \in 1 .. Len(t)
      BY <2>2
    <3>2. Kinds(t)[1] = "n"
      BY <2>2 DEF k
    <3>3. QED
      BY <3>1, <3>2, RangeNumbers
  <2>4. QED
    BY <1>15, <1>17, <2>1, <2>3
<1>18. ASSUME NEW a \in CInts, NEW b \in CInts, NEW p \in a .. b, g = Picked(p),
              Meaning(t) = OrNone({InField({i}) : i \in a .. b})
       PROVE  \E m \in Meaning(t) : Same(Selected(g2), m)
  <2>1. g2 = RangeAt("Finish", p, p, 1)
    BY <1>1, <1>18, ScanOfTerms DEF Picked
  <2>2. p \in CInts
    BY Bounds DEF CInts
  <2>3. QED
    BY <1>18, <2>1, <2>2, PickMeaning
<1>19. CASE k = <<"~", "n">> /\ \E p \in Low .. v(2) : g = Picked(p)
  <2>1. Meaning(t) = OrNone({InField({i}) : i \in Low .. v(2)})
    BY <1>19, MeaningByForm
  <2>2. Len(t) = 2 /\ k[2] = "n"
    BY <1>19, KindsAppend
  <2>3. v(2) \in CInts
    BY <2>2, RangeNumbers
  <2>4. QED
    BY <1>5, <1>18, <1>19, <2>1, <2>3
<1>20. CASE k = <<"n", "~", "n">> /\ \E p \in v(1) .. v(3) : g = Picked(p)
  <2>1. Meaning(t) = OrNone({InField({i}) : i \in v(1) .. v(3)})
    BY <1>20, MeaningByForm
  <2>2. Len(t) = 3 /\ k[1] = "n" /\ k[3] = "n"
    BY <1>20, KindsAppend
  <2>3. v(1) \in CInts /\ v(3) \in CInts
    BY <2>2, RangeNumbers
  <2>4. QED
    BY <1>18, <1>20, <2>1, <2>3
<1>21. CASE g = Failure /\ Meaning(t) = {{Rejected}}
  <2>1. g2 = Failure
    BY <1>21, ScanOfFailure
  <2>2. QED
    BY <1>2, <1>21, <2>1
<1>22. QED
  <2>1. \/ k = << >> /\ g = Start
        \/ k = <<"*">> /\ g = RangeAt("Ast", Low, High, 1)
        \/ k = <<"*", "/">> /\ g = RangeAt("Step", Low, High, 1)
        \/ k = <<"*", "/", "n">> /\ \E s \in StepsOf(t[3]) : g = RangeAt("Terms", Low, High, s)
        \/ k = <<"n">> /\ g = RangeAt("Num1", v(1), 0, 1)
        \/ k = <<"n", "-">> /\ g = RangeAt("Range", v(1), 0, 1)
        \/ k = <<"n", "-", "n">> /\ g = RangeAt("RangeNum2", v(1), v(3), 1)
        \/ k = <<"n", "-", "n", "/">> /\ g = RangeAt("Step", v(1), v(3), 1)
        \/ k = <<"n", "-", "n", "/", "n">> /\ \E s \in StepsOf(t[5]) : g = RangeAt("Terms", v(1), v(3), s)
        \/ k = <<"~">> /\ g = RangeAt("Random", Low, 0, 1)
        \/ k = <<"n", "~">> /\ g = RangeAt("Random", v(1), 0, 1)
        \/ k = <<"~", "n">> /\ \E p \in Low .. v(2) : g = Picked(p)
        \/ k = <<"n", "~", "n">> /\ \E p \in v(1) .. v(3) : g = Picked(p)
        \/ g = Failure /\ Meaning(t) = {{Rejected}}
    BY Zenon DEF Understood
  <2>2. QED
    BY <1>6, <1>7, <1>8, <1>9, <1>10, <1>11, <1>12, <1>13, <1>14, <1>16, <1>17, <1>19, <1>20, <1>21, <2>1

-----------------------------------------------------------------------------
(* The specification.                                                      *)

\* get_list begins with nothing read and nothing selected.
LEMMA ListInit == ScheduleAssumption /\ InitList => ListInv
<1> SUFFICES ASSUME ScheduleAssumption, InitList PROVE ListInv
  OBVIOUS
<1>1. text = << >> /\ range = Start /\ bits = {} /\ wanted = {{}}
  BY DEF InitList
<1>2. Kinds(<< >>) = << >>
  <2>1. DOMAIN << >> = {}
    OBVIOUS
  <2>2. << >> = [i \in {} |-> Kind(<< >>[i])]
    OBVIOUS
  <2>3. QED
    BY <2>1, <2>2 DEF Kinds
<1>3. Understood(text, range)
  BY <1>1, <1>2, UnderstoodForms
<1>4. QED
  BY <1>1, <1>3 DEF ListInv

\* A character of a range.
LEMMA ReadTokenKeeps ==
    ASSUME ScheduleAssumption, ListInv, NEW c \in Tokens, ReadToken(c)
    PROVE  ListInv'
<1>1. text \in Seq(Tokens) /\ Understood(text, range)
  BY DEF ListInv
<1>2. ~is_separator(c) /\ range' \in Scan(range, c) /\ text' = Append(text, c)
  BY DEF ReadToken
<1>3. Understood(text', range')
  BY <1>1, <1>2, ScanStep
<1>4. text' \in Seq(Tokens)
  BY <1>1, <1>2, AppendProperties
<1>5. UNCHANGED <<bits, wanted, overflow>>
  BY DEF ReadToken
<1>6. QED
  BY <1>3, <1>4, <1>5 DEF ListInv

\* The end of a range, by a comma or a blank.
LEMMA EndRangeKeeps ==
    ASSUME ScheduleAssumption, ListInv, NEW c \in Tokens, EndRange(c)
    PROVE  ListInv'
<1>1. text \in Seq(Tokens) /\ Understood(text, range) /\ (~overflow => bits \in wanted)
  BY DEF ListInv
<1>2. PICK g2 \in Scan(range, c) :
         bits' = Joined(bits, Selected(g2))
  BY DEF EndRange
<1>3. /\ is_separator(c) /\ range' = Start /\ text' = << >> /\ wanted' = Allowed(wanted, text)
      /\ overflow' = (overflow \/ Overflows(text))
  BY Zenon DEF EndRange
<1>4. text' \in Seq(Tokens) /\ Understood(text', range')
  <2>1. Kinds(<< >>) = << >>
    <3>1. DOMAIN << >> = {}
      OBVIOUS
    <3>2. << >> = [i \in {} |-> Kind(<< >>[i])]
      OBVIOUS
    <3>3. QED
      BY <3>1, <3>2 DEF Kinds
  <2>2. Understood(<< >>, Start)
    BY <2>1, UnderstoodForms
  <2>3. QED
    BY <1>3, <2>2
<1>5. ASSUME ~overflow' PROVE bits' \in wanted'
  <2>1. bits \in wanted /\ ~Overflows(text)
    BY <1>1, <1>3, <1>5
  <2>2. PICK m \in Meaning(text) : Same(Selected(g2), m)
    BY <1>1, <1>3, <2>1, ScanEnd
  <2>3. bits' = Joined(bits, m)
    BY <1>2, <2>2 DEF Same, Joined
  <2>4. Joined(bits, m) \in Allowed(wanted, text)
    BY <2>1 DEF Allowed
  <2>5. QED
    BY <1>3, <2>3, <2>4
<1>6. QED
  BY <1>4, <1>5 DEF ListInv

\* The state of get_range says what was read of the range, and what the list has
\* selected is one of the selections that its grammar allows (get_list).
THEOREM ListInvariance == ListSpec => []ListInv
<1> USE ScheduleAssumption
<1>1. InitList => ListInv
  BY ListInit
<1>2. ListInv /\ [NextList]_listVars => ListInv'
  <2> SUFFICES ASSUME ListInv, [NextList]_listVars PROVE ListInv'
    OBVIOUS
  <2>1. CASE NextList
    <3>1. PICK c \in Tokens : ReadToken(c) \/ EndRange(c)
      BY <2>1 DEF NextList
    <3>2. CASE ReadToken(c)
      BY <3>2, ReadTokenKeeps
    <3>3. CASE EndRange(c)
      BY <3>3, EndRangeKeeps
    <3>4. QED
      BY <3>1, <3>2, <3>3
  <2>2. CASE UNCHANGED listVars
    BY <2>2 DEF listVars, ListInv
  <2>3. QED
    BY <2>1, <2>2
<1>3. QED
  BY <1>1, <1>2, PTL DEF ListSpec

\* A list selects what its grammar says, or is rejected, for every field, every
\* number and every length of the list, unless an element and the step leave the
\* C ints.
THEOREM ListMeaningHolds == ListSpec => []ListMeaning
<1>1. ListInv => ListMeaning
  BY DEF ListInv, ListMeaning
<1>2. QED
  BY <1>1, ListInvariance, PTL
=============================================================================
