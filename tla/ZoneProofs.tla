----------------------------- MODULE ZoneProofs -----------------------------
(***************************************************************************)
(* The zone cache for any number of values, paths and inodes and for every *)
(* capacity: what get returns is fresh, and the cache holds the entries    *)
(* that were used last.                                                    *)
(*                                                                         *)
(* Freshness rests on the entries being true of their keys: as long as an  *)
(* inode is at the version that a key names, its content parses to the     *)
(* entry.  The order of the cache is, from its end, the front of the       *)
(* recency history, which is proved of the sequences alone.                *)
(***************************************************************************)
EXTENDS ZoneCache, ZoneTime, TLAPS, SequenceTheorems, WellFoundedInduction

-----------------------------------------------------------------------------
(* Sequences without repetition, and the order of the cache.               *)

\* The keys of the cache.
Keys == {File(id) : id \in Inodes \X Nat} \cup {Posix(v) : v \in Values}

\* No element occurs twice.
Distinct(s) == \A a, b \in 1 .. Len(s) : s[a] = s[b] => a = b

\* RemoveFirst removes the place where the element is.
LEMMA RemovePlace ==
    ASSUME NEW S, NEW s \in Seq(S), NEW k, NEW i \in 1 .. Len(s), s[i] = k, Distinct(s)
    PROVE  RemoveFirst(s, k) = RemoveAt(s, i)
<1>1. {j \in 1 .. Len(s) : s[j] = k} = {i}
  BY DEF Distinct
<1>2. Min({i}) = i
  BY DEF Min
<1>3. QED
  BY <1>1, <1>2 DEF RemoveFirst, SelectInSeq

\* Removing moves what comes after one place forward.
LEMMA Removed ==
    ASSUME NEW S, NEW s \in Seq(S), NEW k, NEW i \in 1 .. Len(s), s[i] = k, Distinct(s)
    PROVE  LET r == RemoveFirst(s, k)
           IN  /\ r \in Seq(S) /\ Len(r) = Len(s) - 1
               /\ \A j \in 1 .. Len(r) : r[j] = IF j < i THEN s[j] ELSE s[j + 1]
<1> DEFINE a == SubSeq(s, 1, i - 1)
<1> DEFINE b == SubSeq(s, i + 1, Len(s))
<1>1. Len(s) \in Nat /\ i \in Nat /\ i >= 1 /\ i <= Len(s)
  OBVIOUS
<1>2. a \in Seq(S) /\ Len(a) = i - 1 /\ \A j \in 1 .. i - 1 : a[j] = s[j]
  BY <1>1, SubSeqProperties
<1>3. b \in Seq(S) /\ Len(b) = Len(s) - i /\ \A j \in 1 .. Len(s) - i : b[j] = s[i + j]
  BY <1>1, SubSeqProperties
<1>4. RemoveFirst(s, k) = a \o b
  BY RemovePlace DEF RemoveAt
<1> HIDE DEF a, b
<1>5. a \o b \in Seq(S) /\ Len(a \o b) = Len(s) - 1
  BY <1>1, <1>2, <1>3, ConcatProperties
<1>6. ASSUME NEW j \in 1 .. Len(s) - 1 PROVE (a \o b)[j] = IF j < i THEN s[j] ELSE s[j + 1]
  <2>1. CASE j < i
    BY <1>1, <1>2, <1>3, <2>1, ConcatProperties
  <2>2. CASE ~(j < i)
    <3>1. j - (i - 1) \in 1 .. Len(s) - i /\ i + (j - (i - 1)) = j + 1
      BY <1>1, <2>2
    <3>2. (a \o b)[j] = b[j - Len(a)]
      BY <1>1, <1>2, <1>3, <2>2, <3>1, ConcatProperties
    <3>3. QED
      BY <1>2, <1>3, <2>2, <3>1, <3>2
  <2>3. QED
    BY <2>1, <2>2
<1>7. QED
  BY <1>4, <1>5, <1>6

\* What is not there is not removed.
LEMMA NotRemoved ==
    ASSUME NEW S, NEW s \in Seq(S), NEW k, \A i \in 1 .. Len(s) : s[i] # k
    PROVE  RemoveFirst(s, k) = s
BY DEF RemoveFirst

\* What Use makes of recency: k comes first.
Fronted(s, k) == <<k>> \o RemoveFirst(s, k)

\* A key that was used before moves to the front of the history.
LEMMA FrontedOld ==
    ASSUME NEW S, NEW s \in Seq(S), Distinct(s), NEW q \in 1 .. Len(s), NEW k, k = s[q]
    PROVE  LET f == Fronted(s, k)
           IN  /\ f \in Seq(S) /\ Len(f) = Len(s) /\ f[1] = k
               /\ \A j \in 2 .. Len(s) : f[j] = IF j <= q THEN s[j - 1] ELSE s[j]
<1> DEFINE r == RemoveFirst(s, k)
<1>1. /\ r \in Seq(S) /\ Len(r) = Len(s) - 1
      /\ \A j \in 1 .. Len(r) : r[j] = IF j < q THEN s[j] ELSE s[j + 1]
  BY Removed
<1> HIDE DEF r
<1>2. k \in S /\ <<k>> \in Seq(S) /\ Len(<<k>>) = 1 /\ <<k>>[1] = k
  OBVIOUS
<1>3. Fronted(s, k) = <<k>> \o r
  BY DEF Fronted, r
<1>4. /\ <<k>> \o r \in Seq(S) /\ Len(<<k>> \o r) = Len(s)
      /\ (<<k>> \o r)[1] = k
      /\ \A j \in 2 .. Len(s) : (<<k>> \o r)[j] = r[j - 1]
  BY <1>1, <1>2, ConcatProperties
<1>5. ASSUME NEW j \in 2 .. Len(s) PROVE r[j - 1] = IF j <= q THEN s[j - 1] ELSE s[j]
  <2>1. j - 1 \in 1 .. Len(r) /\ (j - 1) + 1 = j /\ (j - 1 < q <=> j <= q)
    BY <1>1
  <2>2. QED
    BY <1>1, <2>1
<1>6. QED
  BY <1>3, <1>4, <1>5

\* A key that was never used comes in front of the history.
LEMMA FrontedNew ==
    ASSUME NEW S, NEW s \in Seq(S), NEW k \in S, \A i \in 1 .. Len(s) : s[i] # k
    PROVE  LET f == Fronted(s, k)
           IN  /\ f \in Seq(S) /\ Len(f) = Len(s) + 1 /\ f[1] = k
               /\ \A j \in 2 .. Len(s) + 1 : f[j] = s[j - 1]
<1>1. Fronted(s, k) = <<k>> \o s
  BY NotRemoved DEF Fronted
<1>2. <<k>> \in Seq(S) /\ Len(<<k>>) = 1 /\ <<k>>[1] = k
  OBVIOUS
<1>3. QED
  BY <1>1, <1>2, ConcatProperties

\* The history holds a key once.
LEMMA FrontedDistinct ==
    ASSUME NEW S, NEW s \in Seq(S), Distinct(s), NEW k \in S
    PROVE  Distinct(Fronted(s, k))
<1>1. CASE \E q \in 1 .. Len(s) : s[q] = k
  <2>1. PICK q \in 1 .. Len(s) : s[q] = k
    BY <1>1
  <2> DEFINE f == Fronted(s, k)
  <2>2. /\ f \in Seq(S) /\ Len(f) = Len(s) /\ f[1] = k
        /\ \A j \in 2 .. Len(s) : f[j] = IF j <= q THEN s[j - 1] ELSE s[j]
    BY <2>1, FrontedOld
  <2> HIDE DEF f
  <2>3. \A a \in 2 .. Len(s) : f[a] # k
    BY <2>1, <2>2 DEF Distinct
  <2>4. ASSUME NEW a \in 2 .. Len(s), NEW b \in 2 .. Len(s), f[a] = f[b] PROVE a = b
    <3> DEFINE g(j) == IF j <= q THEN j - 1 ELSE j
    <3>1. g(a) \in 1 .. Len(s) /\ g(b) \in 1 .. Len(s) /\ (g(a) = g(b) => a = b)
      OBVIOUS
    <3>2. s[g(a)] = s[g(b)]
      BY <2>2, <2>4
    <3>3. g(a) = g(b)
      <4> HIDE DEF g
      <4>1. QED
        BY <3>1, <3>2 DEF Distinct
    <3>4. QED
      BY <3>1, <3>3
  <2>5. Distinct(f)
    BY <2>2, <2>3, <2>4 DEF Distinct
  <2>6. QED
    BY <2>5 DEF f
<1>2. CASE \A q \in 1 .. Len(s) : s[q] # k
  <2> DEFINE f == Fronted(s, k)
  <2>2. /\ f \in Seq(S) /\ Len(f) = Len(s) + 1 /\ f[1] = k
        /\ \A j \in 2 .. Len(s) + 1 : f[j] = s[j - 1]
    BY <1>2, FrontedNew
  <2> HIDE DEF f
  <2>3. \A a \in 2 .. Len(s) + 1 : f[a] # k
    BY <1>2, <2>2
  <2>4. \A a, b \in 2 .. Len(s) + 1 : f[a] = f[b] => a = b
    <3>1. SUFFICES ASSUME NEW a \in 2 .. Len(s) + 1, NEW b \in 2 .. Len(s) + 1, s[a - 1] = s[b - 1]
                   PROVE  a = b
      BY <2>2
    <3>2. a - 1 \in 1 .. Len(s) /\ b - 1 \in 1 .. Len(s)
      OBVIOUS
    <3>3. a - 1 = b - 1
      BY <3>1, <3>2 DEF Distinct
    <3>4. QED
      BY <3>3
  <2>5. Distinct(f)
    BY <2>2, <2>3, <2>4 DEF Distinct
  <2>6. QED
    BY <2>5 DEF f
<1>3. QED
  BY <1>1, <1>2

\* A key of the order moves to its end.
LEMMA BumpOld ==
    ASSUME NEW S, NEW s \in Seq(S), Distinct(s), NEW p \in 1 .. Len(s), NEW k, k = s[p]
    PROVE  LET o == Bump(s, k)
           IN  /\ o \in Seq(S) /\ Len(o) = Len(s) /\ o[Len(s)] = k
               /\ \A j \in 1 .. Len(s) - 1 : o[j] = IF j < p THEN s[j] ELSE s[j + 1]
<1> DEFINE r == RemoveFirst(s, k)
<1>1. /\ r \in Seq(S) /\ Len(r) = Len(s) - 1
      /\ \A j \in 1 .. Len(r) : r[j] = IF j < p THEN s[j] ELSE s[j + 1]
  BY Removed
<1>2. Bump(s, k) = Append(r, k) /\ k \in S
  BY DEF Bump
<1> HIDE DEF r
<1>3. QED
  BY <1>1, <1>2, AppendProperties

\* A new key is appended to the order.
LEMMA BumpNew ==
    ASSUME NEW S, NEW s \in Seq(S), NEW k \in S, \A i \in 1 .. Len(s) : s[i] # k
    PROVE  Bump(s, k) = Append(s, k)
BY NotRemoved DEF Bump


\* The cache order is the front of what was used, the latest last.
Held(r) == IF Len(r) < capacity THEN Len(r) ELSE capacity

Recent(o, r) ==
    /\ o \in Seq(Keys) /\ r \in Seq(Keys)
    /\ Distinct(r)
    /\ Len(o) = Held(r)
    /\ \A j \in 1 .. Len(o) : o[j] = r[Len(o) + 1 - j]

\* The order holds a key once, and is no longer than the history.
LEMMA RecentDistinct ==
    ASSUME NEW o, NEW r, Recent(o, r)
    PROVE  Distinct(o) /\ Len(o) \in Nat /\ Len(r) \in Nat /\ Len(o) <= Len(r)
<1>1. Len(o) \in Nat /\ Len(r) \in Nat /\ Len(o) <= Len(r)
  BY ZoneAssumption DEF Recent, Held
<1>2. ASSUME NEW a \in 1 .. Len(o), NEW b \in 1 .. Len(o), o[a] = o[b] PROVE a = b
  <2>1. r[Len(o) + 1 - a] = r[Len(o) + 1 - b]
    BY <1>2 DEF Recent
  <2>2. Len(o) + 1 - a \in 1 .. Len(r) /\ Len(o) + 1 - b \in 1 .. Len(r)
    BY <1>1
  <2>3. Len(o) + 1 - a = Len(o) + 1 - b
    BY <2>1, <2>2 DEF Recent, Distinct
  <2>4. QED
    BY <1>1, <2>3
<1>3. QED
  BY <1>1, <1>2 DEF Distinct

\* A hit keeps the order the front of the history.
LEMMA RecentAgain ==
    ASSUME NEW o, NEW r, Recent(o, r), NEW p \in 1 .. Len(o), NEW k, k = o[p]
    PROVE  Recent(Bump(o, k), Fronted(r, k)) /\ ToSet(Bump(o, k)) = ToSet(o)
<1> DEFINE len == Len(o)
<1> DEFINE q == len + 1 - p
<1> DEFINE b == Bump(o, k)
<1> DEFINE f == Fronted(r, k)
<1>1. /\ o \in Seq(Keys) /\ r \in Seq(Keys) /\ Distinct(r) /\ Distinct(o)
      /\ len \in Nat /\ Len(r) \in Nat /\ len <= Len(r)
  BY RecentDistinct DEF Recent
<1>2. q \in 1 .. len /\ q \in 1 .. Len(r) /\ k = r[q]
  BY <1>1 DEF Recent
<1>3. /\ b \in Seq(Keys) /\ Len(b) = len /\ b[len] = k
      /\ \A j \in 1 .. len - 1 : b[j] = IF j < p THEN o[j] ELSE o[j + 1]
  BY <1>1, BumpOld
<1>4. /\ f \in Seq(Keys) /\ Len(f) = Len(r) /\ f[1] = k
      /\ \A j \in 2 .. Len(r) : f[j] = IF j <= q THEN r[j - 1] ELSE r[j]
  BY <1>1, <1>2, FrontedOld
<1>5. Distinct(f)
  BY <1>1, <1>2, FrontedDistinct
<1> HIDE DEF b, f
<1>6. ASSUME NEW j \in 1 .. len PROVE b[j] = f[len + 1 - j]
  <2>1. CASE j = len
    BY <1>1, <1>3, <1>4, <2>1
  <2>2. CASE j < p
    <3>1. len + 1 - j \in 2 .. Len(r) /\ ~(len + 1 - j <= q) /\ j \in 1 .. len - 1
      BY <1>1, <2>2
    <3>2. QED
      BY <1>3, <1>4, <2>2, <3>1 DEF Recent
  <2>3. CASE j # len /\ ~(j < p)
    <3>1. /\ len + 1 - j \in 2 .. Len(r) /\ len + 1 - j <= q /\ j \in 1 .. len - 1
          /\ j + 1 \in 1 .. len /\ (len + 1 - j) - 1 = len + 1 - (j + 1)
      BY <1>1, <2>3
    <3>2. o[j + 1] = r[len + 1 - (j + 1)]
      BY <3>1 DEF Recent
    <3>3. QED
      BY <1>3, <1>4, <2>3, <3>1, <3>2
  <2>4. QED
    BY <2>1, <2>2, <2>3
<1>7. Recent(b, f)
  BY <1>3, <1>4, <1>5, <1>6 DEF Recent, Held
<1>8. ToSet(b) = ToSet(o)
  <2>1. \A j \in 1 .. len : b[j] \in {o[i] : i \in 1 .. len}
    BY <1>1, <1>3
  <2>2. \A i \in 1 .. len : o[i] \in {b[j] : j \in 1 .. len}
    <3>1. SUFFICES ASSUME NEW i \in 1 .. len PROVE o[i] \in {b[j] : j \in 1 .. len}
      OBVIOUS
    <3>2. CASE i < p
      BY <1>1, <1>3, <3>2
    <3>3. CASE i = p
      BY <1>1, <1>3, <3>3
    <3>4. CASE i > p
      <4>1. i - 1 \in 1 .. len - 1 /\ ~(i - 1 < p) /\ (i - 1) + 1 = i /\ i - 1 \in 1 .. len
        BY <1>1, <3>4
      <4>2. b[i - 1] = o[i]
        BY <1>3, <4>1
      <4>3. QED
        BY <4>1, <4>2
    <3>5. QED
      BY <1>1, <3>2, <3>3, <3>4
  <2>3. DOMAIN b = 1 .. len /\ DOMAIN o = 1 .. len
    BY <1>1, <1>3
  <2>4. QED
    BY <2>1, <2>2, <2>3 DEF ToSet
<1>9. QED
  BY <1>7, <1>8 DEF b, f

\* Nothing is evicted within the capacity,
LEMMA LatestAll ==
    ASSUME NEW S, NEW s \in Seq(S), Len(s) <= capacity
    PROVE  Latest(s) = s
<1>1. Latest(s) = SubSeq(s, 1, Len(s))
  BY ZoneAssumption DEF Latest
<1>2. QED
  BY <1>1, SubSeqFull

\* and beyond it the oldest.
LEMMA LatestTail ==
    ASSUME NEW S, NEW s \in Seq(S), Len(s) = capacity + 1
    PROVE  /\ Latest(s) \in Seq(S) /\ Len(Latest(s)) = capacity
           /\ \A j \in 1 .. capacity : Latest(s)[j] = s[j + 1]
<1>1. capacity \in Nat
  BY ZoneAssumption
<1>2. Latest(s) = SubSeq(s, 2, capacity + 1)
  BY <1>1 DEF Latest
<1>3. \A i \in 2 .. capacity + 1 : s[i] \in S
  BY <1>1
<1> DEFINE c == SubSeq(s, 2, capacity + 1)
<1>4. /\ c \in Seq(S)
      /\ Len(c) = IF 2 <= capacity + 1 THEN (capacity + 1) - 2 + 1 ELSE 0
      /\ \A j \in 1 .. (capacity + 1) - 2 + 1 : c[j] = s[2 + j - 1]
  BY <1>1, <1>3, SubSeqProperties
<1> HIDE DEF c
<1>5. Len(c) = capacity
  BY <1>1, <1>4
<1>6. ASSUME NEW j \in 1 .. capacity PROVE c[j] = s[j + 1]
  <2>1. j \in 1 .. (capacity + 1) - 2 + 1 /\ 2 + j - 1 = j + 1
    BY <1>1
  <2>2. QED
    BY <1>4, <2>1
<1>7. QED
  BY <1>2, <1>4, <1>5, <1>6 DEF c

\* So does an insertion, whether the key is in the order or not.
LEMMA RecentInsert ==
    ASSUME NEW o, NEW r, Recent(o, r), NEW k \in Keys
    PROVE  LET c == Latest(Bump(o, k))
           IN  Recent(c, Fronted(r, k)) /\ ToSet(c) \subseteq ToSet(o) \cup {k}
<1> DEFINE len == Len(o)
<1> DEFINE b == Bump(o, k)
<1> DEFINE c == Latest(b)
<1> DEFINE f == Fronted(r, k)
<1>1. /\ o \in Seq(Keys) /\ r \in Seq(Keys) /\ Distinct(r) /\ Distinct(o)
      /\ len \in Nat /\ Len(r) \in Nat /\ len <= Len(r) /\ len = Held(r) /\ capacity \in Nat
  BY RecentDistinct, ZoneAssumption DEF Recent
<1>2. CASE \E p \in 1 .. len : o[p] = k
  <2>1. PICK p \in 1 .. len : o[p] = k
    BY <1>2
  <2>2. Recent(b, f) /\ ToSet(b) = ToSet(o)
    BY <2>1, RecentAgain
  <2>3. b \in Seq(Keys) /\ Len(b) = len
    BY <1>1, <2>1, BumpOld
  <2> HIDE DEF b, f
  <2>4. len <= capacity
    BY <1>1 DEF Held
  <2>5. c = b
    BY <2>3, <2>4, LatestAll
  <2>6. QED
    BY <2>2, <2>5 DEF b, f
<1>3. CASE \A p \in 1 .. len : o[p] # k
  <2>1. b = Append(o, k)
    BY <1>1, <1>3, BumpNew
  <2>2. b \in Seq(Keys) /\ Len(b) = len + 1 /\ b[len + 1] = k /\ \A j \in 1 .. len : b[j] = o[j]
    BY <1>1, <2>1, AppendProperties
  <2>3. f \in Seq(Keys) /\ Distinct(f)
    <3>1. CASE \E q \in 1 .. Len(r) : r[q] = k
      BY <1>1, <3>1, FrontedOld, FrontedDistinct
    <3>2. CASE \A q \in 1 .. Len(r) : r[q] # k
      BY <1>1, <3>2, FrontedNew, FrontedDistinct
    <3>3. QED
      BY <3>1, <3>2
  <2>4. CASE len < capacity
    <3>1. len = Len(r)
      BY <1>1, <2>4 DEF Held
    <3>2. \A q \in 1 .. Len(r) : r[q] # k
      <4>1. SUFFICES ASSUME NEW q \in 1 .. Len(r) PROVE r[q] # k
        OBVIOUS
      <4>2. len + 1 - q \in 1 .. len /\ len + 1 - (len + 1 - q) = q
        BY <1>1, <3>1
      <4>3. o[len + 1 - q] = r[q]
        BY <4>2 DEF Recent
      <4>4. QED
        BY <1>3, <4>2, <4>3
    <3>3. Len(f) = len + 1 /\ f[1] = k /\ \A j \in 2 .. len + 1 : f[j] = r[j - 1]
      BY <1>1, <3>1, <3>2, FrontedNew
    <3> HIDE DEF b, f
    <3>4. /\ c \in Seq(Keys) /\ Len(c) = len + 1
          /\ \A j \in 1 .. len + 1 : c[j] = b[j]
      <4>1. Len(b) <= capacity
        BY <1>1, <2>2, <2>4
      <4>2. c = b
        BY <2>2, <4>1, LatestAll
      <4>3. QED
        BY <2>2, <4>2
    <3> HIDE DEF c
    <3>5. ASSUME NEW j \in 1 .. len + 1 PROVE c[j] = f[(len + 1) + 1 - j]
      <4>1. CASE j = len + 1
        BY <1>1, <2>2, <3>3, <3>4, <4>1
      <4>2. CASE j # len + 1
        <5>1. j \in 1 .. len /\ (len + 1) + 1 - j \in 2 .. len + 1 /\ ((len + 1) + 1 - j) - 1 = len + 1 - j
          BY <1>1, <4>2
        <5>2. o[j] = r[len + 1 - j]
          BY <5>1 DEF Recent
        <5>3. QED
          BY <2>2, <3>3, <3>4, <5>1, <5>2
      <4>3. QED
        BY <4>1, <4>2
    <3>6. Recent(c, f)
      <4>1. Held(f) = len + 1
        BY <1>1, <2>4, <3>3 DEF Held
      <4>2. QED
        BY <2>3, <3>4, <3>5, <4>1 DEF Recent
    <3>7. ToSet(c) \subseteq ToSet(o) \cup {k}
      <4>1. DOMAIN c = 1 .. len + 1 /\ DOMAIN o = 1 .. len
        BY <1>1, <3>4
      <4>2. \A j \in 1 .. len + 1 : c[j] \in {o[i] : i \in 1 .. len} \cup {k}
        BY <1>1, <2>2, <3>4
      <4>3. QED
        BY <4>1, <4>2 DEF ToSet
    <3>8. QED
      BY <3>6, <3>7 DEF b, c, f
  <2>5. CASE ~(len < capacity)
    <3>1. len = capacity
      BY <1>1, <2>5 DEF Held
    <3>2. f[1] = k /\ Len(f) >= len /\ Len(f) \in Nat /\ \A j \in 2 .. len : f[j] = r[j - 1]
      <4>1. CASE \E q \in 1 .. Len(r) : r[q] = k
        <5>1. PICK q \in 1 .. Len(r) : r[q] = k
          BY <4>1
        <5>2. q > len
          <6>1. SUFFICES ASSUME q <= len PROVE FALSE
            BY <1>1
          <6>2. len + 1 - q \in 1 .. len /\ len + 1 - (len + 1 - q) = q
            BY <1>1, <6>1
          <6>3. o[len + 1 - q] = r[q]
            BY <6>2 DEF Recent
          <6>4. QED
            BY <1>3, <5>1, <6>2, <6>3
        <5>3. /\ Len(f) = Len(r) /\ f[1] = k
              /\ \A j \in 2 .. Len(r) : f[j] = IF j <= q THEN r[j - 1] ELSE r[j]
          BY <1>1, <5>1, FrontedOld
        <5>4. QED
          BY <1>1, <5>2, <5>3
      <4>2. CASE \A q \in 1 .. Len(r) : r[q] # k
        <5>1. /\ Len(f) = Len(r) + 1 /\ f[1] = k
              /\ \A j \in 2 .. Len(r) + 1 : f[j] = r[j - 1]
          BY <1>1, <4>2, FrontedNew
        <5>2. QED
          BY <1>1, <5>1
      <4>3. QED
        BY <4>1, <4>2
    <3> HIDE DEF b, f
    <3>3. /\ c \in Seq(Keys) /\ Len(c) = len
          /\ \A j \in 1 .. len : c[j] = b[j + 1]
      <4>1. Len(b) = capacity + 1
        BY <2>2, <3>1
      <4>2. QED
        BY <2>2, <3>1, <4>1, LatestTail
    <3> HIDE DEF c
    <3>4. ASSUME NEW j \in 1 .. len PROVE c[j] = f[len + 1 - j]
      <4>1. CASE j = len
        BY <1>1, <2>2, <3>2, <3>3, <4>1
      <4>2. CASE j # len
        <5>1. /\ j + 1 \in 1 .. len /\ len + 1 - j \in 2 .. len
              /\ len + 1 - (j + 1) = len - j /\ (len + 1 - j) - 1 = len - j
          BY <1>1, <4>2
        <5>2. o[j + 1] = r[len - j]
          BY <5>1 DEF Recent
        <5>3. QED
          BY <2>2, <3>2, <3>3, <5>1, <5>2
      <4>3. QED
        BY <4>1, <4>2
    <3>5. Recent(c, f)
      <4>1. Held(f) = len
        BY <1>1, <3>1, <3>2 DEF Held
      <4>2. QED
        BY <2>3, <3>3, <3>4, <4>1 DEF Recent
    <3>6. ToSet(c) \subseteq ToSet(o) \cup {k}
      <4>1. DOMAIN c = 1 .. len /\ DOMAIN o = 1 .. len
        BY <1>1, <3>3
      <4>2. ASSUME NEW j \in 1 .. len PROVE c[j] \in {o[i] : i \in 1 .. len} \cup {k}
        <5>1. CASE j = len
          BY <1>1, <2>2, <3>3, <5>1
        <5>2. CASE j # len
          <6>1. j + 1 \in 1 .. len
            BY <1>1, <5>2
          <6>2. QED
            BY <2>2, <3>3, <6>1
        <5>3. QED
          BY <5>1, <5>2
      <4>3. QED
        BY <4>1, <4>2 DEF ToSet
    <3>7. QED
      BY <3>5, <3>6 DEF b, c, f
  <2>6. QED
    BY <2>4, <2>5
<1>4. QED
  BY <1>2, <1>3

-----------------------------------------------------------------------------
(* The inductive invariant.                                                *)

\* What probe may find: an inode and its metadata.
Ids == Inodes \X Nat

TypeOK ==
    /\ at \in [Paths -> Inodes \cup {None}]
    /\ inode \in [Inodes -> [content : Contents, meta : Nat]]
    /\ value \in Values
    /\ pc \in {"idle", "probe", "open", "read", "posix", "resolve", "load_rules"}
    /\ probed \in Ids \cup {None} /\ handle \in Ids \cup {None}
    /\ named \in [Paths -> SUBSET Inodes]
    /\ seen \in [Paths -> SUBSET (Contents \cup {None})]
    /\ failed \in BOOLEAN

\* The content of the version id parses to c, as far as it is still there: the inode is at
\* it, or past it.
Version(id, c) ==
    /\ id[2] <= inode[id[1]].meta
    /\ id[2] = inode[id[1]].meta => Parsed(inode[id[1]].content) = c

\* An entry of a file is what the file holds, as long as its identity is current.
FilesTrue ==
    \A id \in Ids : File(id) \in DOMAIN entries =>
        entries[File(id)] \in Good \cup {None} /\ Version(id, entries[File(id)])

\* The rules of a string's entry are those of the posixrules it was resolved with.
RulesTrue(v) == LET e == entries[Posix(v)] IN
    \/ e.zone.excused
    \/ e.posixrules = <<None>> /\ e.zone.rules = None
    \/ \E id \in Ids : e.posixrules = <<id>> /\ Version(id, e.zone.rules)

StringsTrue ==
    \A v \in Values : Posix(v) \in DOMAIN entries =>
        /\ entries[Posix(v)].zone.file = None
        /\ v \in Consulting => RulesTrue(v)

\* What the history knows of the files, while a get runs.
Observed ==
    pc # "idle" => \A p \in Paths :
        /\ IF at[p] = None THEN None \in seen[p] ELSE at[p] \in named[p]
        /\ \A i \in named[p] : inode[i].content \in seen[p]

\* The opened file, and the probed rules.
Opened ==
    /\ pc = "read" => /\ handle \in Ids /\ handle[1] \in named[zone_path[value]]
                      /\ handle[2] <= inode[handle[1]].meta
    /\ pc = "load_rules" => handle = None \/ handle[2] <= inode[handle[1]].meta

\* A string is what is left, if its path has no usable file.
NoFile == failed \/ seen[zone_path[value]] \ Good # {}

Falling == pc \in {"posix", "resolve", "load_rules"} => NoFile

\* The order is the front of the history, and the entries are those of the order.
Cached == Recent(order, recency) /\ DOMAIN entries = ToSet(order)

\* A returned zone stays as fresh as it was: FreshZone and FreshRules are inductive with these.
IInv ==
    /\ TypeOK
    /\ FilesTrue /\ StringsTrue /\ Cached
    /\ Observed /\ Opened /\ Falling
    /\ FreshZone /\ FreshRules

-----------------------------------------------------------------------------
(* What an entry, a lookup and an insertion do to the invariant.           *)

\* Different identities and values have different keys.
LEMMA KeysDiffer ==
    /\ \A i, j : File(i) = File(j) => i = j
    /\ \A v, w : Posix(v) = Posix(w) => v = w
    /\ \A i, v : File(i) # Posix(v)
BY DEF File, Posix

\* What contents parse to.
LEMMA ParsedFacts ==
    /\ \A c \in Contents : Parsed(c) \in Good \cup {None}
    /\ Parsed(Huge) = None /\ Parsed(None) = None
    /\ \A c \in Contents \cup {None} : Parsed(c) = None => c \notin Good
    /\ \A c : Parsed(c) # None => Parsed(c) = c /\ c \in Good
BY ZoneAssumption DEF Parsed, Contents

\* An insertion stores its value, may evict others and changes none.
LEMMA InsertFacts ==
    ASSUME Cached, NEW k \in Keys, NEW v, insert(k, v)
    PROVE  /\ Cached'
           /\ \A x \in DOMAIN entries' : \/ x = k /\ entries'[x] = v
                                         \/ x # k /\ x \in DOMAIN entries /\ entries'[x] = entries[x]
<1>1. /\ order' = Latest(Bump(order, k))
      /\ entries' = [x \in ToSet(order') |-> IF x = k THEN v ELSE entries[x]]
      /\ recency' = Fronted(recency, k)
  BY DEF insert, Use, Fronted
<1>2. Recent(order', recency') /\ ToSet(order') \subseteq ToSet(order) \cup {k}
  BY <1>1, RecentInsert DEF Cached
<1>3. DOMAIN entries' = ToSet(order')
  BY <1>1
<1>4. QED
  BY <1>1, <1>2, <1>3 DEF Cached

\* A hit changes no entry.
LEMMA LookupFacts ==
    ASSUME Cached, NEW k, lookup(k)
    PROVE  Cached' /\ entries' = entries
<1>1. order' = Bump(order, k) /\ recency' = Fronted(recency, k) /\ entries' = entries /\ k \in ToSet(order)
  BY DEF lookup, Use, Fronted, Cached
<1>2. PICK p \in DOMAIN order : k = order[p]
  BY <1>1 DEF ToSet
<1>3. p \in 1 .. Len(order)
  BY <1>2 DEF Cached, Recent
<1>4. QED
  BY <1>1, <1>2, <1>3, RecentAgain DEF Cached

\* Nor does a step that leaves the cache alone.
LEMMA CachedSame ==
    ASSUME Cached, UNCHANGED <<cache, recency>>
    PROVE  Cached'
BY DEF Cached, cache, Recent, Held

\* Files stay the same: what holds of the old entries holds on.
LEMMA OldEntries ==
    ASSUME FilesTrue, StringsTrue, UNCHANGED inode, NEW k,
           \A x \in DOMAIN entries' : x # k => x \in DOMAIN entries /\ entries'[x] = entries[x]
    PROVE  /\ (\A id \in Ids : File(id) # k) => FilesTrue'
           /\ (\A v \in Values : Posix(v) # k) => StringsTrue'
<1>1. \A id \in Ids : \A c : Version(id, c)' <=> Version(id, c)
  BY DEF Version, Parsed
<1>2. ASSUME \A id \in Ids : File(id) # k PROVE FilesTrue'
  BY <1>1, <1>2 DEF FilesTrue
<1>3. ASSUME \A v \in Values : Posix(v) # k PROVE StringsTrue'
  <2>1. SUFFICES ASSUME NEW v \in Values, Posix(v) \in DOMAIN entries'
                 PROVE  /\ (entries[Posix(v)].zone.file = None)'
                        /\ v \in Consulting => RulesTrue(v)'
    BY DEF StringsTrue
  <2>2. Posix(v) \in DOMAIN entries /\ entries'[Posix(v)] = entries[Posix(v)]
    BY <1>3, <2>1
  <2>3. QED
    BY <1>1, <2>2 DEF StringsTrue, RulesTrue
<1>4. QED
  BY <1>2, <1>3

\* Entries and inodes that do not change stay true.
LEMMA NoEntryChange ==
    ASSUME FilesTrue, StringsTrue, UNCHANGED <<inode, entries>>
    PROVE  FilesTrue' /\ StringsTrue'
<1>1. \A id \in Ids : \A c : Version(id, c)' <=> Version(id, c)
  BY DEF Version, Parsed
<1>2. FilesTrue'
  BY <1>1 DEF FilesTrue
<1>3. StringsTrue'
  BY <1>1 DEF StringsTrue, RulesTrue
<1>4. QED
  BY <1>2, <1>3

\* While no file moves and no new get begins, the history stays true of the files.
LEMMA SameHistory ==
    ASSUME Observed, pc # "idle", UNCHANGED <<files, named, seen>>
    PROVE  Observed'
BY DEF Observed, files

-----------------------------------------------------------------------------
(* The steps.                                                              *)

\* The files move: metadata only grow, and what was seen or named remains so.
LEMMA FilesStep == ASSUME IInv, ChangeFiles PROVE IInv'
<1>1. /\ UNCHANGED <<entries, order, pc, value, probed, handle, zone, failed, recency>>
      /\ Observe
  BY DEF ChangeFiles, cache, call
<1>2. TypeOK /\ Contents \subseteq Contents \cup {None}
  BY DEF IInv
<1>3. /\ at' \in [Paths -> Inodes \cup {None}]
      /\ inode' \in [Inodes -> [content : Contents, meta : Nat]]
      /\ \A i \in Inodes : /\ inode[i].meta <= inode'[i].meta
                           /\ inode[i].meta = inode'[i].meta => inode'[i] = inode[i]
  <2>1. ASSUME NEW p \in Paths, Point(p)
        PROVE  at' \in [Paths -> Inodes \cup {None}] /\ inode' = inode
    BY <1>2, <2>1 DEF Point, TypeOK
  <2>2. ASSUME NEW w \in Inodes, Write(w)
        PROVE  /\ at' = at /\ inode' \in [Inodes -> [content : Contents, meta : Nat]]
               /\ \A i \in Inodes : inode'[i] = inode[i] \/ inode'[i].meta = inode[i].meta + 1
    <3>1. PICK c \in Contents : inode' = [inode EXCEPT ![w] = [content |-> c, meta |-> @.meta + 1]]
      BY <2>2 DEF Write
    <3>2. [content |-> c, meta |-> inode[w].meta + 1] \in [content : Contents, meta : Nat]
      BY <1>2 DEF TypeOK
    <3>3. QED
      BY <1>2, <2>2, <3>1, <3>2 DEF TypeOK, Write
  <2>3. \A i \in Inodes : inode[i].meta \in Nat
    BY <1>2 DEF TypeOK
  <2>4. CASE \E p \in Paths : Point(p)
    BY <1>2, <2>1, <2>3, <2>4 DEF TypeOK
  <2>5. CASE \E w \in Inodes : Write(w)
    <3>1. PICK w \in Inodes : Write(w)
      BY <2>5
    <3>2. /\ at' = at /\ inode' \in [Inodes -> [content : Contents, meta : Nat]]
          /\ \A i \in Inodes : inode'[i] = inode[i] \/ inode'[i].meta = inode[i].meta + 1
      BY <2>2, <3>1
    <3>3. QED
      BY <1>2, <2>3, <3>2 DEF TypeOK
  <2>6. QED
    BY <2>4, <2>5 DEF ChangeFiles
<1>4. /\ named' \in [Paths -> SUBSET Inodes]
      /\ seen' \in [Paths -> SUBSET (Contents \cup {None})]
      /\ \A p \in Paths : named[p] \subseteq named'[p] /\ seen[p] \subseteq seen'[p]
  <2>1. CASE pc = "idle"
    BY <1>1, <1>2, <2>1 DEF Observe, TypeOK
  <2>2. CASE pc # "idle"
    <3>1. /\ named' = [p \in Paths |-> named[p] \cup ({at'[p]} \ {None})]
          /\ seen' = [p \in Paths |-> seen[p] \cup {inode'[i].content : i \in named'[p]}
                                              \cup (IF at'[p] = None THEN {None} ELSE {})]
      BY <1>1, <2>2 DEF Observe
    <3>2. named' \in [Paths -> SUBSET Inodes] /\ \A p \in Paths : named[p] \subseteq named'[p]
      BY <1>2, <1>3, <3>1 DEF TypeOK
    <3>3. ASSUME NEW p \in Paths
          PROVE  seen[p] \subseteq seen'[p] /\ seen'[p] \subseteq Contents \cup {None}
      BY <1>2, <1>3, <3>1, <3>2 DEF TypeOK
    <3>4. seen' \in [Paths -> SUBSET (Contents \cup {None})]
      BY <3>1, <3>3
    <3>5. QED
      BY <3>2, <3>3, <3>4
  <2>3. QED
    BY <2>1, <2>2
<1>5. TypeOK'
  BY <1>1, <1>2, <1>3, <1>4 DEF TypeOK
<1>6. \A id \in Ids : \A c : Version(id, c) => Version(id, c)'
  <2>1. SUFFICES ASSUME NEW id \in Ids, NEW c, Version(id, c) PROVE Version(id, c)'
    OBVIOUS
  <2>2. id[1] \in Inodes /\ id[2] \in Nat
    BY DEF Ids
  <2>3. inode[id[1]].meta \in Nat /\ inode'[id[1]].meta \in Nat
    BY <1>2, <1>3, <2>2 DEF TypeOK
  <2>4. QED
    BY <1>3, <2>1, <2>2, <2>3 DEF Version, Parsed
<1>7. FilesTrue'
  BY <1>1, <1>6 DEF IInv, FilesTrue
<1>8. StringsTrue'
  BY <1>1, <1>6 DEF IInv, StringsTrue, RulesTrue
<1>9. Observed'
  <2>1. SUFFICES ASSUME pc # "idle", NEW p \in Paths
                 PROVE  /\ IF at'[p] = None THEN None \in seen'[p] ELSE at'[p] \in named'[p]
                        /\ \A i \in named'[p] : inode'[i].content \in seen'[p]
    BY <1>1 DEF Observed
  <2>2. /\ named' = [q \in Paths |-> named[q] \cup ({at'[q]} \ {None})]
        /\ seen' = [q \in Paths |-> seen[q] \cup {inode'[i].content : i \in named'[q]}
                                            \cup (IF at'[q] = None THEN {None} ELSE {})]
    BY <1>1, <2>1 DEF Observe
  <2>3. QED
    BY <2>2
<1>10. Opened'
  <2>1. Opened /\ zone_path[value] \in Paths
    BY <1>2, ZoneAssumption DEF IInv, TypeOK
  <2>2. ASSUME NEW id \in Ids, id[2] <= inode[id[1]].meta PROVE id[2] <= inode'[id[1]].meta
    <3>1. id[1] \in Inodes /\ id[2] \in Nat
      BY DEF Ids
    <3>2. inode[id[1]].meta \in Nat /\ inode'[id[1]].meta \in Nat
      BY <1>2, <1>3, <3>1 DEF TypeOK
    <3>3. QED
      BY <1>3, <2>2, <3>1, <3>2
  <2>3. handle \in Ids \cup {None}
    BY <1>2 DEF TypeOK
  <2>4. QED
    BY <1>1, <1>4, <2>1, <2>2, <2>3 DEF Opened
<1>11. Falling'
  <2>1. zone_path[value] \in Paths
    BY <1>2, ZoneAssumption DEF TypeOK
  <2>2. QED
    BY <1>1, <1>4, <2>1 DEF IInv, Falling, NoFile
<1>12. Cached'
  BY <1>1, CachedSame DEF IInv, cache
<1>13. FreshZone' /\ FreshRules'
  <2>1. CASE pc = "idle"
    BY <1>1, <2>1 DEF IInv, FreshZone, FreshRules, Returned, Observe, Parsed
  <2>2. CASE pc # "idle"
    BY <1>1, <2>2 DEF FreshZone, FreshRules, Returned
  <2>3. QED
    BY <2>1, <2>2
<1>14. QED
  BY <1>5, <1>7, <1>8, <1>9, <1>10, <1>11, <1>12, <1>13 DEF IInv

\* What a probe or an open of a path sees was seen by the history.
LEMMA NowFacts ==
    ASSUME TypeOK, Observed, pc # "idle", NEW p \in Paths
    PROVE  /\ Now(p) \in seen[p] /\ Now(p) \in Contents \cup {None}
           /\ at[p] = None => probe(p) = None /\ Now(p) = None
           /\ at[p] # None =>
                 /\ probe(p) \in Ids /\ at[p] \in named[p] /\ Now(p) \in Contents
                 /\ probe(p)[2] <= inode[probe(p)[1]].meta
                 /\ probe(p)[1] = at[p] /\ \A c : Version(probe(p), c) => Parsed(Now(p)) = c
                 /\ Version(probe(p), Parsed(Now(p)))
           /\ probe(p) = None => at[p] = None
<1>1. CASE at[p] = None
  BY <1>1 DEF Observed, Now, probe
<1>2. CASE at[p] # None
  <2>1. at[p] \in Inodes /\ at[p] \in named[p]
    BY <1>2 DEF TypeOK, Observed
  <2>2. inode[at[p]].content \in Contents /\ inode[at[p]].meta \in Nat
    BY <2>1 DEF TypeOK
  <2>3. Now(p) = inode[at[p]].content /\ probe(p) = <<at[p], inode[at[p]].meta>>
    BY <1>2 DEF Now, probe, FileId
  <2>4. probe(p) \in Ids /\ probe(p) # None
    BY <2>1, <2>2, <2>3, ZoneAssumption DEF Ids
  <2>5. probe(p)[1] = at[p] /\ probe(p)[2] = inode[at[p]].meta
    BY <2>3
  <2>6. Now(p) \in seen[p]
    BY <2>1, <2>3 DEF Observed
  <2>7. \A c : Version(probe(p), c) <=> Parsed(Now(p)) = c
    BY <2>2, <2>3, <2>5 DEF Version
  <2>8. QED
    BY <1>2, <2>1, <2>2, <2>3, <2>4, <2>5, <2>6, <2>7
<1>3. QED
  BY <1>1, <1>2

\* An entry that is true of the identity it is stored under.
LEMMA FileInserted ==
    ASSUME Cached, FilesTrue, StringsTrue, UNCHANGED inode,
           NEW id \in Ids, NEW v \in Good \cup {None}, Version(id, v), insert(File(id), v)
    PROVE  Cached' /\ FilesTrue' /\ StringsTrue'
<1>1. File(id) \in Keys
  BY DEF Keys, Ids
<1>2. /\ Cached'
      /\ \A x \in DOMAIN entries' : \/ x = File(id) /\ entries'[x] = v
                                    \/ x # File(id) /\ x \in DOMAIN entries /\ entries'[x] = entries[x]
  BY <1>1, InsertFacts
<1>3. StringsTrue'
  BY <1>2, OldEntries, KeysDiffer
<1>4. FilesTrue'
  <2>1. \A i \in Ids : \A c : Version(i, c)' <=> Version(i, c)
    BY DEF Version, Parsed
  <2>2. SUFFICES ASSUME NEW i \in Ids, File(i) \in DOMAIN entries'
                 PROVE  entries'[File(i)] \in Good \cup {None} /\ Version(i, entries'[File(i)])
    BY <2>1 DEF FilesTrue
  <2>3. CASE File(i) = File(id)
    <3>1. i = id /\ entries'[File(i)] = v
      BY <1>2, <2>2, <2>3, KeysDiffer
    <3>2. QED
      BY <3>1
  <2>4. CASE File(i) # File(id)
    BY <1>2, <2>2, <2>4 DEF FilesTrue
  <2>5. QED
    BY <2>3, <2>4
<1>5. QED
  BY <1>2, <1>3, <1>4

\* An entry of a string that is true of the posixrules it was resolved with.
LEMMA StringInserted ==
    ASSUME Cached, FilesTrue, StringsTrue, UNCHANGED inode,
           NEW v \in Values, NEW e, insert(Posix(v), e), e.zone.file = None,
           v \in Consulting => \/ e.zone.excused
                               \/ e.posixrules = <<None>> /\ e.zone.rules = None
                               \/ \E id \in Ids : e.posixrules = <<id>> /\ Version(id, e.zone.rules)
    PROVE  Cached' /\ FilesTrue' /\ StringsTrue'
<1>1. Posix(v) \in Keys
  BY DEF Keys
<1>2. /\ Cached'
      /\ \A x \in DOMAIN entries' : \/ x = Posix(v) /\ entries'[x] = e
                                    \/ x # Posix(v) /\ x \in DOMAIN entries /\ entries'[x] = entries[x]
  BY <1>1, InsertFacts
<1>3. FilesTrue'
  BY <1>2, OldEntries, KeysDiffer
<1>4. StringsTrue'
  <2>1. \A i \in Ids : \A c : Version(i, c)' <=> Version(i, c)
    BY DEF Version, Parsed
  <2>2. SUFFICES ASSUME NEW w \in Values, Posix(w) \in DOMAIN entries'
                 PROVE  /\ (entries[Posix(w)].zone.file = None)'
                        /\ w \in Consulting => RulesTrue(w)'
    BY DEF StringsTrue
  <2>3. CASE Posix(w) = Posix(v)
    <3>1. w = v /\ entries'[Posix(w)] = e
      BY <1>2, <2>2, <2>3, KeysDiffer
    <3>2. QED
      BY <2>1, <3>1 DEF RulesTrue
  <2>4. CASE Posix(w) # Posix(v)
    <3>1. Posix(w) \in DOMAIN entries /\ entries'[Posix(w)] = entries[Posix(w)]
      BY <1>2, <2>2, <2>4
    <3>2. QED
      BY <2>1, <3>1 DEF StringsTrue, RulesTrue
  <2>5. QED
    BY <2>3, <2>4
<1>5. QED
  BY <1>2, <1>3, <1>4

\* The paths that get uses.
LEMMA ValuePath == ASSUME TypeOK PROVE zone_path[value] \in Paths /\ TZDEFRULES \in Paths
BY ZoneAssumption DEF TypeOK

\* A get begins: its history is what its paths name now.
LEMMA BeginStep == ASSUME IInv, Begin PROVE IInv'
<1>1. /\ pc' = "probe" /\ value' \in Values /\ zone' = None /\ failed' = FALSE
      /\ UNCHANGED <<at, inode, changes, entries, order, probed, handle, recency>>
      /\ named' = [p \in Paths |-> {at[p]} \ {None}]
      /\ seen' = [p \in Paths |-> {Now(p)}]
  BY DEF Begin, files, cache
<1>2. TypeOK
  BY DEF IInv
<1>3. \A p \in Paths : /\ at[p] # None => at[p] \in Inodes /\ Now(p) = inode[at[p]].content /\ Now(p) \in Contents
                       /\ at[p] = None => Now(p) = None
  BY <1>2 DEF TypeOK, Now
<1>4. TypeOK'
  <2>1. named' \in [Paths -> SUBSET Inodes]
    BY <1>1, <1>3
  <2>2. seen' \in [Paths -> SUBSET (Contents \cup {None})]
    BY <1>1, <1>3
  <2>3. QED
    BY <1>1, <1>2, <2>1, <2>2 DEF TypeOK
<1>5. FilesTrue' /\ StringsTrue'
  BY <1>1, NoEntryChange DEF IInv
<1>6. Observed'
  BY <1>1, <1>3 DEF Observed
<1>7. Cached'
  BY <1>1, CachedSame DEF IInv, cache
<1>8. Opened' /\ Falling' /\ FreshZone' /\ FreshRules'
  BY <1>1 DEF Opened, Falling, FreshZone, FreshRules, Returned
<1>9. QED
  BY <1>4, <1>5, <1>6, <1>7, <1>8 DEF IInv

\* The probe finds nothing, a true entry, or no entry.
LEMMA ProbeStep == ASSUME IInv, Probe PROVE IInv'
<1> DEFINE p == zone_path[value]
<1> DEFINE id == probe(p)
<1>1. /\ pc = "probe" /\ probed' = id
      /\ UNCHANGED <<at, inode, changes, value, handle, gets, named, seen, failed>>
  BY DEF Probe, files
<1>2. TypeOK /\ Observed /\ p \in Paths
  BY ValuePath DEF IInv
<1>3. /\ Now(p) \in seen[p] /\ Now(p) \in Contents \cup {None}
      /\ id = None => Now(p) = None
      /\ id # None => id \in Ids /\ \A c : Version(id, c) => Parsed(Now(p)) = c
  BY <1>1, <1>2, NowFacts
<1> HIDE DEF id, p
<1>4. /\ entries' = entries /\ Cached'
      /\ \/ pc' = "open" /\ zone' = zone
         \/ pc' = "posix" /\ zone' = zone /\ Now(p) \notin Good
         \/ pc' = "idle" /\ zone'.file = Now(p) /\ Now(p) # None
  <2>1. CASE id = None /\ pc' = "posix" /\ UNCHANGED <<zone, cache, recency>>
    <3>1. Now(p) \notin Good
      BY <1>3, <2>1, ZoneAssumption DEF Contents
    <3>2. QED
      BY <2>1, <3>1, CachedSame DEF IInv, cache
  <2>2. CASE /\ id # None /\ lookup(File(id))
             /\ IF entries[File(id)] = None THEN pc' = "posix" /\ UNCHANGED zone
                ELSE pc' = "idle" /\ zone' = FileZone(entries[File(id)])
    <3>1. Cached' /\ entries' = entries /\ File(id) \in DOMAIN entries
      BY <2>2, LookupFacts DEF IInv, lookup
    <3>2. Parsed(Now(p)) = entries[File(id)]
      BY <1>3, <2>2, <3>1 DEF IInv, FilesTrue
    <3>3. CASE entries[File(id)] = None
      BY <1>3, <2>2, <3>1, <3>2, <3>3, ParsedFacts
    <3>4. CASE entries[File(id)] # None
      <4>1. Now(p) = entries[File(id)]
        BY <3>2, <3>4, ParsedFacts
      <4>2. pc' = "idle" /\ zone'.file = Now(p)
        BY <2>2, <3>4, <4>1 DEF FileZone
      <4>3. QED
        BY <3>1, <3>4, <4>1, <4>2
    <3>5. QED
      BY <3>3, <3>4
  <2>3. CASE id # None /\ File(id) \notin DOMAIN entries /\ pc' = "open" /\ UNCHANGED <<zone, cache, recency>>
    BY <2>3, CachedSame DEF IInv, cache
  <2>4. QED
    BY <2>1, <2>2, <2>3 DEF Probe, id, p
<1>5. TypeOK'
  BY <1>1, <1>2, <1>3, <1>4 DEF TypeOK
<1>6. FilesTrue' /\ StringsTrue'
  BY <1>1, <1>4, NoEntryChange DEF IInv
<1>7. Observed'
  BY <1>1, <1>2, SameHistory DEF files
<1>8. Opened' /\ Falling'
  BY <1>1, <1>3, <1>4 DEF Opened, Falling, NoFile, p
<1>9. FreshZone' /\ FreshRules'
  BY <1>1, <1>3, <1>4 DEF FreshZone, FreshRules, Returned, p
<1>10. QED
  BY <1>4, <1>5, <1>6, <1>7, <1>8, <1>9 DEF IInv

\* The opened file is one that its path named; one too large is an entry.
LEMMA OpenStep == ASSUME IInv, Open PROVE IInv'
<1> DEFINE p == zone_path[value]
<1> DEFINE id == probe(p)
<1>1. /\ pc = "open"
      /\ UNCHANGED <<at, inode, changes, value, probed, zone, gets, named, seen, failed>>
  BY DEF Open, files, Goto
<1>2. TypeOK /\ Observed /\ p \in Paths
  BY ValuePath DEF IInv
<1>3. /\ Now(p) \in seen[p]
      /\ at[p] = None => Now(p) = None
      /\ at[p] # None => /\ id \in Ids /\ id[1] \in named[p] /\ id[2] <= inode[id[1]].meta
                         /\ Version(id, Parsed(Now(p)))
  BY <1>1, <1>2, NowFacts
<1> HIDE DEF id, p
<1>4. /\ FilesTrue' /\ StringsTrue' /\ Cached'
      /\ \/ pc' = "posix" /\ handle' = handle /\ Now(p) \notin Good
         \/ pc' = "read" /\ handle' = id /\ id \in Ids /\ id[1] \in named[p] /\ id[2] <= inode[id[1]].meta
  <2>1. CASE at[p] = None /\ Goto("posix") /\ UNCHANGED <<cache, recency>>
    <3>1. Now(p) \notin Good
      BY <1>3, <2>1, ZoneAssumption DEF Contents
    <3>2. UNCHANGED entries
      BY <2>1 DEF cache
    <3>3. QED
      BY <1>1, <2>1, <3>1, <3>2, CachedSame, NoEntryChange DEF IInv, Goto
  <2>2. CASE at[p] # None /\ Now(p) = Huge /\ insert(File(id), None) /\ Goto("posix")
    <3>1. Now(p) \notin Good /\ Parsed(Now(p)) = None
      BY <2>2, ParsedFacts, ZoneAssumption
    <3>2. Version(id, None) /\ id \in Ids
      BY <1>3, <2>2, <3>1
    <3>3. Cached' /\ FilesTrue' /\ StringsTrue'
      BY <1>1, <2>2, <3>2, FileInserted DEF IInv
    <3>4. QED
      BY <2>2, <3>1, <3>3 DEF Goto
  <2>3. CASE at[p] # None /\ handle' = id /\ pc' = "read" /\ UNCHANGED <<cache, recency>>
    <3>1. UNCHANGED entries
      BY <2>3 DEF cache
    <3>2. QED
      BY <1>1, <1>3, <2>3, <3>1, CachedSame, NoEntryChange DEF IInv
  <2>4. QED
    BY <2>1, <2>2, <2>3 DEF Open, id, p
<1>5. TypeOK'
  BY <1>1, <1>2, <1>4 DEF TypeOK
<1>6. Observed'
  BY <1>1, <1>2, SameHistory DEF files
<1>7. Opened' /\ Falling'
  BY <1>1, <1>3, <1>4 DEF Opened, Falling, NoFile, p
<1>8. FreshZone' /\ FreshRules'
  BY <1>4 DEF FreshZone, FreshRules, Returned
<1>9. QED
  BY <1>4, <1>5, <1>6, <1>7, <1>8 DEF IInv

\* The read fails.
LEMMA ReadFailsStep == ASSUME IInv, ReadFails PROVE IInv'
<1>1. /\ pc = "read" /\ pc' = "posix" /\ failed' = TRUE
      /\ UNCHANGED <<at, inode, changes, value, probed, handle, zone, gets, entries, order, named, seen, recency>>
  BY DEF ReadFails, Goto, files, cache
<1>2. TypeOK'
  BY <1>1 DEF IInv, TypeOK
<1>3. FilesTrue' /\ StringsTrue' /\ Cached'
  BY <1>1, NoEntryChange, CachedSame DEF IInv, cache
<1>4. Observed'
  BY <1>1, SameHistory DEF IInv, files
<1>5. Opened' /\ Falling' /\ FreshZone' /\ FreshRules'
  BY <1>1 DEF Opened, Falling, NoFile, FreshZone, FreshRules, Returned
<1>6. QED
  BY <1>2, <1>3, <1>4, <1>5 DEF IInv

\* The content read is true of the identity of the opened file, or of none.
LEMMA ReadStep == ASSUME IInv, Read PROVE IInv'
<1> DEFINE p == zone_path[value]
<1> DEFINE c == inode[handle[1]].content
<1>1. /\ pc = "read"
      /\ UNCHANGED <<at, inode, changes, value, probed, handle, gets, named, seen, failed>>
  BY DEF Read, files, Goto, Return
<1>2. TypeOK /\ Observed /\ Opened /\ p \in Paths
  BY ValuePath DEF IInv
<1>3. handle \in Ids /\ handle[1] \in named[p] /\ handle[2] <= inode[handle[1]].meta
  BY <1>1, <1>2 DEF Opened
<1>4. handle[1] \in Inodes
  BY <1>3 DEF Ids
<1>5. c \in Contents /\ c \in seen[p] /\ Version(handle, Parsed(c))
  BY <1>1, <1>2, <1>3, <1>4 DEF TypeOK, Observed, Version
<1> HIDE DEF c, p
<1>6. /\ FilesTrue' /\ StringsTrue' /\ Cached'
      /\ \/ pc' = "posix" /\ zone' = zone /\ c \notin Good
         \/ pc' = "idle" /\ zone'.file = c /\ c # None
  <2>1. CASE c = Huge /\ Goto("posix") /\ UNCHANGED <<cache, recency>>
    <3>1. c \notin Good
      BY <2>1, ZoneAssumption
    <3>2. UNCHANGED entries
      BY <2>1 DEF cache
    <3>3. QED
      BY <1>1, <2>1, <3>1, <3>2, CachedSame, NoEntryChange DEF IInv, Goto
  <2>2. CASE /\ insert(File(handle), Parsed(c))
             /\ IF Parsed(c) # None THEN Return(FileZone(c)) ELSE Goto("posix")
    <3>1. Parsed(c) \in Good \cup {None}
      BY <1>5, ParsedFacts
    <3>2. Cached' /\ FilesTrue' /\ StringsTrue'
      BY <1>1, <1>3, <1>5, <2>2, <3>1, FileInserted DEF IInv
    <3>3. CASE Parsed(c) = None
      <4>1. c \notin Good
        BY <1>5, <3>3, ParsedFacts
      <4>2. QED
        BY <2>2, <3>2, <3>3, <4>1 DEF Goto
    <3>4. CASE Parsed(c) # None
      <4>1. c # None
        BY <3>4, ParsedFacts
      <4>2. pc' = "idle" /\ zone'.file = c
        BY <2>2, <3>4 DEF Return, FileZone
      <4>3. QED
        BY <3>2, <4>1, <4>2
    <3>5. QED
      BY <3>3, <3>4
  <2>3. QED
    BY <2>1, <2>2 DEF Read, c
<1>7. TypeOK'
  BY <1>1, <1>2, <1>6 DEF TypeOK
<1>8. Observed'
  BY <1>1, <1>2, SameHistory DEF files
<1>9. Opened' /\ Falling'
  BY <1>1, <1>5, <1>6 DEF Opened, Falling, NoFile, p
<1>10. FreshZone' /\ FreshRules'
  BY <1>1, <1>5, <1>6 DEF FreshZone, FreshRules, Returned, p
<1>11. QED
  BY <1>6, <1>7, <1>8, <1>9, <1>10 DEF IInv

\* What a string's zone owes when it is returned.
StringZone(z) ==
    /\ z.file = None
    /\ value \in Consulting /\ ~z.excused => \E c \in seen[TZDEFRULES] : Parsed(c) = z.rules

\* A get of a string ends.
LEMMA StringReturned ==
    ASSUME IInv, pc \in {"posix", "resolve", "load_rules"}, UNCHANGED <<value, seen, failed>>,
           NEW z, StringZone(z), zone' = z
    PROVE  FreshZone' /\ FreshRules'
<1>1. NoFile
  BY DEF IInv, Falling
<1>2. FreshZone'
  BY <1>1 DEF FreshZone, NoFile, StringZone
<1>3. FreshRules'
  BY DEF FreshRules, StringZone, Parsed
<1>4. QED
  BY <1>2, <1>3

\* A resolved string is returned only under the posixrules it was resolved with.
LEMMA CachedPosixStep == ASSUME IInv, CachedPosix PROVE IInv'
<1> DEFINE e == entries[Posix(value)]
<1>1. /\ pc = "posix"
      /\ UNCHANGED <<at, inode, changes, value, probed, handle, gets, named, seen, failed>>
  BY DEF CachedPosix, files, Goto, Return
<1>2. TypeOK /\ Observed /\ TZDEFRULES \in Paths
  BY ValuePath DEF IInv
<1>3. Cached' /\ entries' = entries
  BY LookupFacts, CachedSame DEF IInv, CachedPosix, cache
<1>4. \/ pc' = "resolve" /\ zone' = zone
      \/ pc' = "idle" /\ zone' = e.zone /\ Posix(value) \in DOMAIN entries /\ RulesCurrent(e)
  BY DEF CachedPosix, lookup, Goto, Return
<1>5. FilesTrue' /\ StringsTrue'
  BY <1>1, <1>3, NoEntryChange DEF IInv
<1>6. TypeOK'
  BY <1>1, <1>2, <1>4 DEF TypeOK
<1>7. Observed'
  BY <1>1, <1>2, SameHistory DEF files
<1>8. Opened' /\ Falling'
  BY <1>1, <1>4 DEF IInv, Opened, Falling, NoFile
<1>9. FreshZone' /\ FreshRules'
  <2>1. CASE pc' = "resolve"
    BY <2>1 DEF FreshZone, FreshRules, Returned
  <2>2. CASE pc' = "idle"
    <3>1. zone' = e.zone /\ Posix(value) \in DOMAIN entries /\ RulesCurrent(e)
      BY <1>4, <2>2
    <3>2. e.zone.file = None /\ (value \in Consulting => RulesTrue(value))
      BY <1>2, <3>1 DEF IInv, StringsTrue, TypeOK
    <3>3. ASSUME value \in Consulting, ~e.zone.excused
          PROVE  \E c \in seen[TZDEFRULES] : Parsed(c) = e.zone.rules
      <4> DEFINE now == Now(TZDEFRULES)
      <4> DEFINE id  == probe(TZDEFRULES)
      <4>1. /\ now \in seen[TZDEFRULES]
            /\ at[TZDEFRULES] = None => id = None /\ now = None
            /\ at[TZDEFRULES] # None => id # None /\ \A c : Version(id, c) => Parsed(now) = c
            /\ id = None => at[TZDEFRULES] = None
        BY <1>1, <1>2, NowFacts
      <4> HIDE DEF now
      <4>2. \/ e.posixrules = <<None>> /\ e.zone.rules = None
            \/ \E i \in Ids : e.posixrules = <<i>> /\ Version(i, e.zone.rules)
        BY <3>2, <3>3 DEF RulesTrue
      <4>3. e.posixrules = <<id>>
        <5> HIDE DEF e
        <5>1. e.posixrules \in {<< >>, <<id>>}
          BY <3>1 DEF RulesCurrent
        <5> HIDE DEF id
        <5>2. \E i : e.posixrules = <<i>>
          BY <4>2
        <5>3. \A i : <<i>> # << >>
          OBVIOUS
        <5>4. QED
          BY <5>1, <5>2, <5>3
      <4> HIDE DEF id
      <4>4. CASE e.posixrules = <<None>> /\ e.zone.rules = None
        <5>1. id = None
          BY <4>3, <4>4
        <5>2. Parsed(now) = None
          BY <4>1, <5>1, ParsedFacts
        <5>3. QED
          BY <4>1, <4>4, <5>2
      <4>5. CASE \E i \in Ids : e.posixrules = <<i>> /\ Version(i, e.zone.rules)
        <5>1. id \in Ids /\ Version(id, e.zone.rules)
          BY <4>3, <4>5
        <5>2. id # None
          BY <5>1, ZoneAssumption DEF Ids
        <5>3. QED
          BY <4>1, <5>1, <5>2
      <4>6. QED
        BY <4>2, <4>4, <4>5
    <3>4. StringZone(e.zone)
      BY <3>2, <3>3 DEF StringZone
    <3>5. QED
      BY <1>1, <3>1, <3>4, StringReturned
  <2>3. QED
    BY <1>4, <2>1, <2>2
<1>10. QED
  BY <1>3, <1>5, <1>6, <1>7, <1>8, <1>9 DEF IInv

\* The string is resolved, or posixrules is probed.
LEMMA ResolveStep == ASSUME IInv, Resolve PROVE IInv'
<1>1. /\ pc = "resolve"
      /\ UNCHANGED <<at, inode, changes, value, probed, gets, named, seen, failed>>
  BY DEF Resolve, files, Return
<1>2. TypeOK /\ Observed /\ TZDEFRULES \in Paths /\ value \in Values
  BY ValuePath DEF IInv, TypeOK
<1>3. probe(TZDEFRULES) \in Ids \cup {None}
      /\ (probe(TZDEFRULES) # None => probe(TZDEFRULES)[2] <= inode[probe(TZDEFRULES)[1]].meta)
  BY <1>1, <1>2, NowFacts
<1>4. CASE value \in Consulting
  <2>1. /\ pc' = "load_rules" /\ handle' = probe(TZDEFRULES)
        /\ UNCHANGED <<zone, entries, order, recency>>
    BY <1>4 DEF Resolve, cache
  <2>2. TypeOK'
    BY <1>1, <1>2, <1>3, <2>1 DEF TypeOK
  <2>3. FilesTrue' /\ StringsTrue' /\ Cached'
    BY <1>1, <2>1, NoEntryChange, CachedSame DEF IInv, cache
  <2>4. Opened'
    BY <1>1, <1>3, <2>1 DEF Opened
  <2>5. QED
    BY <1>1, <1>2, <2>1, <2>2, <2>3, <2>4, SameHistory
       DEF IInv, Falling, NoFile, FreshZone, FreshRules, Returned, files
<1>5. CASE value \notin Consulting
  <2> DEFINE z == PosixZone(None, FALSE)
  <2> DEFINE e == [zone |-> z, posixrules |-> << >>]
  <2>1. pc' = "idle" /\ zone' = z /\ handle' = handle /\ insert(Posix(value), e)
    BY <1>5 DEF Resolve, Return
  <2>2. z.file = None /\ e.zone = z
    BY DEF PosixZone
  <2> HIDE DEF e, z
  <2>3. FilesTrue' /\ StringsTrue' /\ Cached'
    BY <1>1, <1>2, <1>5, <2>1, <2>2, StringInserted DEF IInv
  <2>4. StringZone(z)
    BY <1>5, <2>2 DEF StringZone
  <2>5. FreshZone' /\ FreshRules'
    BY <1>1, <2>1, <2>4, StringReturned
  <2>6. TypeOK'
    BY <1>1, <1>2, <2>1 DEF TypeOK
  <2>7. Opened' /\ Falling' /\ Observed'
    BY <2>1 DEF Opened, Falling, Observed
  <2>8. QED
    BY <2>3, <2>5, <2>6, <2>7 DEF IInv
<1>6. QED
  BY <1>4, <1>5

\* The string is resolved with the posixrules that is there.
LEMMA LoadRulesStep == ASSUME IInv, LoadRules PROVE IInv'
<1> DEFINE now == Now(TZDEFRULES)
<1> DEFINE id  == probe(TZDEFRULES)
<1>1. /\ pc = "load_rules" /\ pc' = "idle"
      /\ UNCHANGED <<at, inode, changes, value, probed, handle, gets, named, seen, failed>>
  BY DEF LoadRules, files, Return
<1>2. TypeOK /\ Observed /\ TZDEFRULES \in Paths /\ value \in Values
  BY ValuePath DEF IInv, TypeOK
<1>3. /\ now \in seen[TZDEFRULES]
      /\ id = None => now = None
      /\ id # None => id \in Ids /\ Version(id, Parsed(now))
  BY <1>1, <1>2, NowFacts
<1>4. PICK r \in {Parsed(now), None} :
         LET failing == r = None /\ Parsed(now) # None
             z == PosixZone(r, failing \/ id # handle)
         IN  insert(Posix(value), [zone |-> z, posixrules |-> <<handle>>]) /\ Return(z)
  BY DEF LoadRules
<1> HIDE DEF now, id
<1> DEFINE z == PosixZone(r, (r = None /\ Parsed(now) # None) \/ id # handle)
<1> DEFINE e == [zone |-> z, posixrules |-> <<handle>>]
<1>5. insert(Posix(value), e) /\ zone' = z
  BY <1>4 DEF Return
<1>6. /\ z.file = None /\ z.rules = r /\ e.zone = z /\ e.posixrules = <<handle>>
      /\ ~z.excused => Parsed(now) = r /\ handle = id
  BY <1>4 DEF PosixZone
<1> HIDE DEF e, z
<1>7. \/ e.zone.excused
      \/ e.posixrules = <<None>> /\ e.zone.rules = None
      \/ \E i \in Ids : e.posixrules = <<i>> /\ Version(i, e.zone.rules)
  <2>1. CASE z.excused
    BY <1>6, <2>1
  <2>2. CASE ~z.excused /\ id = None
    BY <1>3, <1>6, <2>2, ParsedFacts
  <2>3. CASE ~z.excused /\ id # None
    BY <1>3, <1>6, <2>3
  <2>4. QED
    BY <2>1, <2>2, <2>3
<1>8. FilesTrue' /\ StringsTrue' /\ Cached'
  BY <1>1, <1>2, <1>5, <1>6, <1>7, StringInserted DEF IInv
<1>9. StringZone(z)
  BY <1>3, <1>6 DEF StringZone
<1>10. FreshZone' /\ FreshRules'
  BY <1>1, <1>5, <1>9, StringReturned
<1>11. TypeOK'
  BY <1>1, <1>2 DEF TypeOK
<1>12. Opened' /\ Falling' /\ Observed'
  BY <1>1 DEF Opened, Falling, Observed
<1>13. QED
  BY <1>8, <1>10, <1>11, <1>12 DEF IInv

\* The invariant holds initially,
LEMMA InitIInv == ASSUME Init PROVE IInv
<1>1. TypeOK
  <2>1. [content : Contents, meta : {0}] \subseteq [content : Contents, meta : Nat]
    OBVIOUS
  <2>2. inode \in [Inodes -> [content : Contents, meta : Nat]]
    BY <2>1 DEF Init
  <2>3. named \in [Paths -> SUBSET Inodes] /\ seen \in [Paths -> SUBSET (Contents \cup {None})]
    BY DEF Init
  <2>4. QED
    BY <2>2, <2>3 DEF Init, TypeOK
<1>2. DOMAIN entries = {} /\ order = << >> /\ recency = << >>
  BY DEF Init
<1>3. FilesTrue /\ StringsTrue
  BY <1>2 DEF FilesTrue, StringsTrue
<1>4. Cached
  BY <1>2, ZoneAssumption DEF Cached, Recent, Held, Distinct, ToSet
<1>5. Observed /\ Opened /\ Falling /\ FreshZone /\ FreshRules
  BY DEF Init, Observed, Opened, Falling, FreshZone, FreshRules, Returned
<1>6. QED
  BY <1>1, <1>3, <1>4, <1>5 DEF IInv

\* and is preserved.
LEMMA NextIInv == ASSUME IInv, [Next]_vars PROVE IInv'
<1>1. CASE UNCHANGED vars
  <2>1. /\ UNCHANGED <<at, inode, changes, entries, order, pc, value, probed, handle, zone, gets>>
        /\ UNCHANGED <<named, seen, failed, recency>>
    BY <1>1 DEF vars, files, cache, call
  <2>2. TypeOK' /\ Observed' /\ Opened' /\ Falling'
    BY <2>1 DEF IInv, TypeOK, Observed, Opened, Falling, NoFile
  <2>3. FilesTrue' /\ StringsTrue' /\ Cached'
    BY <2>1, NoEntryChange, CachedSame DEF IInv, cache
  <2>4. FreshZone' /\ FreshRules'
    BY <2>1 DEF IInv, FreshZone, FreshRules, Returned, Parsed
  <2>5. QED
    BY <2>2, <2>3, <2>4 DEF IInv
<1>2. CASE Next
  BY <1>2, FilesStep, BeginStep, ProbeStep, OpenStep, ReadFailsStep, ReadStep,
     CachedPosixStep, ResolveStep, LoadRulesStep DEF Next, get
<1>3. QED
  BY <1>1, <1>2

-----------------------------------------------------------------------------
(* Theorems.                                                               *)

\* The invariant holds, however the files change.
THEOREM Invariance == Spec => []IInv
<1>1. Init => IInv
  BY InitIInv
<1>2. IInv /\ [Next]_vars => IInv'
  BY NextIInv
<1>3. QED
  BY <1>1, <1>2, PTL DEF Spec

\* Type correctness.
THEOREM TypeCorrect == Spec => []TypeOK
<1>1. IInv => TypeOK
  BY DEF IInv
<1>2. QED
  BY <1>1, Invariance, PTL

\* get returns a zone that its file held while it ran, or a string only for a cause.
THEOREM FreshZoneHolds == Spec => []FreshZone
<1>1. IInv => FreshZone
  BY DEF IInv
<1>2. QED
  BY <1>1, Invariance, PTL

\* The rules of a string are those of a posixrules that was there while get ran.
THEOREM FreshRulesHolds == Spec => []FreshRules
<1>1. IInv => FreshRules
  BY DEF IInv
<1>2. QED
  BY <1>1, Invariance, PTL

\* The cache holds exactly the keys used last, as many as it may.
THEOREM LeastRecentlyUsedEvictedHolds == Spec => []LeastRecentlyUsedEvicted
<1>1. IInv => LeastRecentlyUsedEvicted
  <2> SUFFICES ASSUME IInv PROVE LeastRecentlyUsedEvicted
    OBVIOUS
  <2> DEFINE len == Len(order)
  <2>1. Recent(order, recency) /\ DOMAIN entries = ToSet(order)
    BY DEF IInv, Cached
  <2>2. len = Held(recency) /\ len \in Nat /\ DOMAIN order = 1 .. len
    BY <2>1, RecentDistinct DEF Recent
  <2>3. {order[j] : j \in 1 .. len} = {recency[i] : i \in 1 .. len}
    <3>1. \A j \in 1 .. len : len + 1 - j \in 1 .. len /\ len + 1 - (len + 1 - j) = j
      BY <2>2
    <3>2. \A j \in 1 .. len : order[j] = recency[len + 1 - j]
      BY <2>1 DEF Recent
    <3>3. \A j \in 1 .. len : recency[j] = order[len + 1 - j]
      BY <3>1, <3>2
    <3>4. QED
      BY <3>1, <3>2, <3>3
  <2>4. QED
    BY <2>1, <2>2, <2>3 DEF LeastRecentlyUsedEvicted, Held, ToSet
<1>2. QED
  BY <1>1, Invariance, PTL

-----------------------------------------------------------------------------
(* The search of a table of transitions, of any length and with any times. *)
(* It needs no order: each of its steps keeps a transition passed before   *)
(* one that is not.  In a sorted table that is the last one passed.        *)

\* A set of natural numbers has a first element.
LEMMA FirstOfNaturals ==
    ASSUME NEW T \in SUBSET Nat, T # {}
    PROVE  \E x \in T : \A y \in T : x <= y
<1> DEFINE R == OpToRel(<, Nat)
<1>1. \A x, y \in Nat : x < y => <<x, y>> \in R
  BY DEF OpToRel
<1>2. IsWellFoundedOn(R, Nat)
  BY NatLessThanWellFounded
<1> HIDE DEF R
<1>3. PICK x \in T : \A y \in T : ~(<<y, x>> \in R)
  BY <1>2, WFMin
<1>4. ASSUME NEW y \in T PROVE x <= y
  <2>1. x \in Nat /\ y \in Nat
    OBVIOUS
  <2>2. ~(<<y, x>> \in R)
    BY <1>3
  <2>3. ~(y < x)
    BY <1>1, <2>1, <2>2
  <2>4. QED
    BY <2>1, <2>3
<1>5. QED
  BY <1>4

\* Some indices of a sequence have a first and a last one.
LEMMA FirstAndLast ==
    ASSUME NEW m \in Nat, NEW T \in SUBSET (1 .. m), T # {}
    PROVE  Min(T) \in T /\ Max(T) \in T
<1>1. T \in SUBSET Nat
  OBVIOUS
<1>2. \E x \in T : \A y \in T : x <= y
  BY <1>1, FirstOfNaturals
<1> DEFINE U == {m - x : x \in T}
<1>3. U \in SUBSET Nat /\ U # {}
  <2>1. \A x \in T : m - x \in Nat
    OBVIOUS
  <2>2. \A u \in U : u \in Nat
    BY <2>1
  <2>3. PICK x \in T : TRUE
    OBVIOUS
  <2>4. m - x \in U
    OBVIOUS
  <2>5. QED
    BY <2>2, <2>4
<1>4. \E u \in U : \A v \in U : u <= v
  <2> HIDE DEF U
  <2>1. QED
    BY <1>3, FirstOfNaturals
<1>5. PICK x \in T : \A y \in T : m - x <= m - y
  BY <1>4
<1>6. \A y \in T : x >= y
  <2>1. x \in Nat /\ \A y \in T : y \in Nat
    OBVIOUS
  <2>2. QED
    BY <1>5, <2>1
<1>7. QED
  BY <1>2, <1>6 DEF Min, Max

-----------------------------------------------------------------------------
(* The table of a zone.                                                    *)

IsTable(f) == f.transitions \in Seq(Int) /\ f.types \in Seq(ZoneType)

\* posixrules_default moves the transitions of a file, and leaves a table.
LEMMA DefaultTable ==
    ASSUME NEW f, IsFile(f), NEW s \in Int, NEW d \in Int, posixrules_default(f, s, d) # << >>
    PROVE  IsTable(posixrules_default(f, s, d)[1])
<1> DEFINE type(j)    == f.types[f.type_idxs[j] + 1]
<1> DEFINE standard   == {j \in DOMAIN f.type_idxs : ~type(j).isdst}
<1> DEFINE rule_std   == CASE f.transitions = << >> -> f.types[1].offset
                           [] f.transitions # << >> /\ standard # {} -> type(Max(standard)).offset
                           [] OTHER -> 0
<1> DEFINE rule_dst   == IF f.transitions = << >> THEN f.types[1].offset ELSE 0
<1> DEFINE after_dst(j) == j > 1 /\ type(j - 1).isdst
<1> DEFINE shift(j)   == CASE type(j).gmt -> 0
                           [] ~type(j).gmt /\ after_dst(j) /\ ~type(j).std -> d - rule_dst
                           [] OTHER -> s - rule_std
<1> DEFINE moved == [j \in DOMAIN f.transitions |-> f.transitions[j] + shift(j)]
<1> DEFINE both  == <<[offset |-> s, isdst |-> FALSE, gmt |-> FALSE, std |-> FALSE],
                      [offset |-> d, isdst |-> TRUE, gmt |-> FALSE, std |-> FALSE]>>
<1> DEFINE m == Len(f.transitions)
<1>1. /\ DOMAIN f = {"transitions", "type_idxs", "types", "leaps", "footer"}
      /\ f.transitions \in Seq(Int) /\ f.types \in Seq(ZoneType) /\ f.types # << >>
      /\ m \in Nat /\ DOMAIN f.transitions = 1 .. m /\ DOMAIN f.type_idxs = 1 .. m
      /\ \A j \in 1 .. m : f.type_idxs[j] \in 0 .. Len(f.types) - 1
  BY DEF IsFile
<1>2. \A j \in 1 .. m : type(j) \in ZoneType
  <2>1. \A j \in 1 .. m : f.type_idxs[j] + 1 \in 1 .. Len(f.types)
    BY <1>1
  <2>2. QED
    BY <1>1, <2>1
<1>3. f.types[1] \in ZoneType
  BY <1>1
<1>4. \A ty \in ZoneType : ty.offset \in Int /\ ty.gmt \in BOOLEAN
  BY DEF ZoneType
<1> HIDE DEF type
<1>5. rule_dst \in Int
  BY <1>3, <1>4
<1>6. rule_std \in Int
  <2>1. CASE f.transitions = << >>
    BY <1>3, <1>4, <2>1
  <2>2. CASE f.transitions # << >> /\ standard # {}
    <3>1. standard \in SUBSET (1 .. m)
      BY <1>1
    <3> HIDE DEF standard
    <3>2. Max(standard) \in 1 .. m
      BY <1>1, <2>2, <3>1, FirstAndLast
    <3>3. QED
      BY <1>2, <1>4, <2>2, <3>2
  <2>3. CASE f.transitions # << >> /\ standard = {}
    BY <2>3
  <2>4. QED
    BY <2>1, <2>2, <2>3
<1> HIDE DEF rule_std, rule_dst
<1>7. \A j \in 1 .. m : shift(j) \in Int
  BY <1>5, <1>6
<1> HIDE DEF shift
<1>8. moved \in Seq(Int)
  BY <1>1, <1>7
<1>9. both \in Seq(ZoneType)
  BY DEF ZoneType
<1>10. posixrules_default(f, s, d)
         = <<[f EXCEPT !.transitions = moved,
                       !.type_idxs   = [j \in DOMAIN @ |-> IF type(j).isdst THEN 1 ELSE 0],
                       !.types       = both]>>
  BY DEF posixrules_default, type, shift, rule_std, rule_dst
<1> HIDE DEF moved, both
<1> DEFINE idxs == [j \in DOMAIN f.type_idxs |-> IF type(j).isdst THEN 1 ELSE 0]
<1>11. posixrules_default(f, s, d)[1]
         = [f EXCEPT !.transitions = moved, !.type_idxs = idxs, !.types = both]
  BY <1>10
<1> HIDE DEF idxs
<1>12. \A g : g = [f EXCEPT !.transitions = moved, !.type_idxs = idxs, !.types = both]
         => g.transitions = moved /\ g.types = both
  BY <1>1
<1>13. QED
  BY <1>8, <1>9, <1>11, <1>12 DEF IsTable

\* A zone without rules is a table.
LEMMA ZoneTable ==
    ASSUME NEW a \in Asked, tz = from_tz_value(a), ~IsPosix
    PROVE  IsTable(tz)
<1> DEFINE s == a.string
<1>1. CASE a.file # << >>
  BY <1>1, LookupAssumption DEF from_tz_value, IsFile, IsTable
<1>2. CASE a.file = << >>
  <2> DEFINE r == Rules(s, a.posixrules)
  <2>1. tz = parse_posix(s, r)
    BY <1>2 DEF from_tz_value
  <2>2. \A r1, r2 : "rules" \in DOMAIN ByRules_(r1, r2)
    BY DEF ByRules_
  <2>3. s.std # << >> /\ s.dst # << >> /\ r # << >> /\ tz = r[1]
    <3> HIDE DEF r
    <3>1. QED
      BY <2>1, <2>2 DEF parse_posix, IsPosix
  <2>4. a.posixrules # << >> /\ r = posixrules_default(a.posixrules[1], s.std[1], parse_offset(s.std[1], s.dst[1]))
    BY <2>3 DEF Rules
  <2>5. IsFile(a.posixrules[1]) /\ s.std[1] \in Int /\ parse_offset(s.std[1], s.dst[1]) \in Int
    BY <2>3, <2>4, LookupAssumption DEF parse_offset
  <2>6. QED
    BY <2>3, <2>4, <2>5, DefaultTable
<1>3. QED
  BY <1>1, <1>2

-----------------------------------------------------------------------------
(* The inductive invariant of a lookup.                                    *)

Zoned == t \in Int /\ (step # "off" /\ ~IsPosix => IsTable(tz))

\* search is called between two transitions.
Called == step \in {"down", "up", "halve"} => ~IsPosix /\ n > 0 /\ tr(0) <= t /\ t < tr(n - 1)

\* Walking down, the entry is not passed; walking up, it or the one before is.
Walking ==
    /\ step \in {"down", "up"} => idx \in 0 .. n - 1
    /\ step = "down" => t < tr(idx)
    /\ step = "up" => t >= tr(idx) \/ (idx > 0 /\ t >= tr(idx - 1))

\* The lower bound is passed, the upper one is not.
Halving ==
    step = "halve" => {lo, hi} \subseteq 0 .. n - 1 /\ lo < hi /\ tr(lo) <= t /\ t < tr(hi)

LookupInv == Zoned /\ Called /\ Walking /\ Halving /\ FileTime

\* In a sorted table the transition passed before one that is not is the last one passed.
LEMMA LastPassed ==
    ASSUME NEW s \in Seq(Int), Sorted(s), t \in Int,
           NEW k \in 1 .. Len(s), s[k] <= t, k < Len(s) => t < s[k + 1]
    PROVE  Passed(s) # {} /\ Max(Passed(s)) = k
<1>1. Len(s) \in Nat /\ DOMAIN s = 1 .. Len(s) /\ \A j \in 1 .. Len(s) : s[j] \in Int
  OBVIOUS
<1>2. k \in Passed(s)
  BY DEF Passed
<1>3. ASSUME NEW j \in Passed(s) PROVE j \in 1 .. Len(s) /\ j <= k
  <2>1. j \in 1 .. Len(s) /\ s[j] <= t
    BY <1>1 DEF Passed
  <2>2. CASE j > k
    <3>1. k + 1 \in 1 .. Len(s) /\ k + 1 <= j /\ k < Len(s)
      BY <1>1, <2>1, <2>2
    <3>2. s[k + 1] <= s[j]
      BY <1>1, <2>1, <3>1 DEF Sorted
    <3>3. t < s[k + 1] /\ s[k + 1] \in Int /\ s[j] \in Int
      BY <1>1, <2>1, <3>1
    <3>4. QED
      BY <2>1, <3>2, <3>3
  <2>3. QED
    BY <1>1, <2>1, <2>2
<1>4. \A m \in Passed(s) : (\A j \in Passed(s) : m >= j) => m = k
  BY <1>2, <1>3
<1>5. QED
  BY <1>2, <1>3, <1>4 DEF Max

\* Behind the last transition of a sorted table all are passed.
LEMMA AllPassed ==
    ASSUME NEW s \in Seq(Int), Sorted(s), t \in Int, Len(s) > 0, s[Len(s)] <= t
    PROVE  Passed(s) = DOMAIN s
<1>1. Len(s) \in Nat /\ DOMAIN s = 1 .. Len(s) /\ \A j \in 1 .. Len(s) : s[j] \in Int
  OBVIOUS
<1>2. \A j \in 1 .. Len(s) : s[j] <= s[Len(s)]
  BY <1>1 DEF Sorted
<1>3. \A j \in 1 .. Len(s) : s[j] <= t
  BY <1>1, <1>2
<1>4. QED
  BY <1>1, <1>3 DEF Passed

\* Before the first transition of a sorted table none is passed.
LEMMA NonePassed ==
    ASSUME NEW s \in Seq(Int), Sorted(s), t \in Int, Len(s) > 0 => t < s[1]
    PROVE  Passed(s) = {}
<1>1. Len(s) \in Nat /\ DOMAIN s = 1 .. Len(s) /\ \A j \in 1 .. Len(s) : s[j] \in Int
  OBVIOUS
<1>2. \A j \in 1 .. Len(s) : s[1] <= s[j]
  BY <1>1 DEF Sorted
<1>3. \A j \in 1 .. Len(s) : ~(s[j] <= t)
  BY <1>1, <1>2
<1>4. QED
  BY <1>1, <1>3 DEF Passed

\* The names of the search, for a table: tr counts from 0.
LEMMA TableFacts ==
    ASSUME IsTable(tz)
    PROVE  /\ tz.transitions \in Seq(Int) /\ n = Len(tz.transitions) /\ n \in Nat
           /\ \A k \in 0 .. n - 1 : tr(k) \in Int /\ tr(k) = tz.transitions[k + 1]
<1>1. tz.transitions \in Seq(Int) /\ n = Len(tz.transitions) /\ n \in Nat
  BY DEF IsTable, n
<1>2. \A k \in 0 .. n - 1 : k + 1 \in 1 .. n
  BY <1>1
<1>3. QED
  BY <1>1, <1>2 DEF tr

\* An answer that is right where the order of the table says what is right keeps LookupInv.
LEMMA AnswerKeeps ==
    ASSUME LookupInv, step # "off", NEW o, Answer(o),
           ~IsPosix /\ Sorted(tz.transitions) /\ ~Beyond(tz) => o = ByFile(tz)
    PROVE  LookupInv'
<1>1. step' = "done" /\ tz' = tz /\ t' = t /\ local'.offset = o
  BY DEF Answer
<1>2. IsPosix' = IsPosix /\ Passed(tz.transitions)' = Passed(tz.transitions)
  BY <1>1 DEF IsPosix, Passed
<1>3. Beyond(tz)' = Beyond(tz) /\ ByFile(tz)' = ByFile(tz) /\ Sorted(tz.transitions)' = Sorted(tz.transitions)
  BY <1>1, <1>2 DEF Beyond, ByFile, Sorted
<1>4. FileTime'
  BY <1>1, <1>2, <1>3 DEF FileTime
<1>5. Zoned' /\ Called' /\ Walking' /\ Halving'
  BY <1>1, <1>2 DEF LookupInv, Zoned, Called, Walking, Halving, IsTable
<1>6. QED
  BY <1>4, <1>5 DEF LookupInv

\* What search finds is right: the transition before is passed, this one is not.
LEMMA FoundKeeps ==
    ASSUME LookupInv, step # "off", ~IsPosix, NEW k \in 1 .. n, Found(k),
           tr(k - 1) <= t, k < n => t < tr(k)
    PROVE  LookupInv'
<1> DEFINE s == tz.transitions
<1>1. IsTable(tz) /\ t \in Int
  BY DEF LookupInv, Zoned
<1>2. s \in Seq(Int) /\ n = Len(s) /\ n \in Nat /\ s[k] <= t /\ (k < Len(s) => t < s[k + 1])
  <2>1. k - 1 \in 0 .. n - 1 /\ (k - 1) + 1 = k /\ (k < n => k \in 0 .. n - 1)
    BY <1>1, TableFacts
  <2>2. QED
    BY <1>1, <2>1, TableFacts
<1>3. Sorted(s) => Passed(s) # {} /\ Max(Passed(s)) = k
  BY <1>1, <1>2, LastPassed
<1>4. Sorted(s) => tz.types[tz.type_idxs[k] + 1].offset = ByFile(tz)
  BY <1>3 DEF ByFile
<1>5. QED
  BY <1>4, AnswerKeeps DEF Found

\* A step of the search that stays in the table keeps what is known of the zone.
LEMMA ContinueKeeps ==
    ASSUME LookupInv, step # "off", ~IsPosix, NEW l \in {"down", "up", "halve"}, Continue(l),
           n > 0, tr(0) <= t, t < tr(n - 1)
    PROVE  /\ step' = l /\ t' = t /\ n' = n /\ \A k : tr(k)' = tr(k)
           /\ Zoned' /\ Called' /\ FileTime'
<1>1. step' = l /\ t' = t /\ tz' = tz
  BY DEF Continue
<1>2. n' = n /\ (\A k : tr(k)' = tr(k)) /\ IsPosix' = IsPosix
  BY <1>1 DEF n, tr, IsPosix
<1>3. Zoned'
  BY <1>1, <1>2 DEF LookupInv, Zoned, IsTable
<1>4. Called'
  BY <1>1, <1>2 DEF Called
<1>5. FileTime'
  BY <1>1 DEF FileTime
<1>6. QED
  BY <1>1, <1>2, <1>3, <1>4, <1>5

\* Rules answer without a table.
LEMMA ByRulesKeeps ==
    ASSUME LookupInv, ByRules
    PROVE  LookupInv'
<1>1. QED
  BY AnswerKeeps DEF ByRules

\* Before the first transition the first standard type counts.
LEMMA BeforeFirstKeeps ==
    ASSUME LookupInv, BeforeFirst
    PROVE  LookupInv'
<1> DEFINE s == tz.transitions
<1> DEFINE standard == {j \in DOMAIN tz.types : ~tz.types[j].isdst}
<1> DEFINE k == SelectInSeq(tz.types, LAMBDA ty : ~ty.isdst)
<1>1. IsTable(tz) /\ t \in Int /\ step = "local" /\ ~IsPosix /\ (n > 0 => t < tr(0))
  BY DEF LookupInv, Zoned, BeforeFirst
<1>2. s \in Seq(Int) /\ n = Len(s) /\ (Len(s) > 0 => t < s[1])
  BY <1>1, TableFacts
<1>3. Sorted(s) => Passed(s) = {}
  BY <1>1, <1>2, NonePassed
<1>4. k = IF standard # {} THEN Min(standard) ELSE 0
  <2>1. DOMAIN tz.types = 1 .. Len(tz.types)
    BY <1>1 DEF IsTable
  <2>2. {j \in 1 .. Len(tz.types) : ~tz.types[j].isdst} = standard
    BY <2>1
  <2> HIDE DEF standard
  <2>3. QED
    BY <2>2 DEF SelectInSeq
<1>5. standard # {} => Min(standard) # 0
  <2>1. Len(tz.types) \in Nat /\ standard \in SUBSET (1 .. Len(tz.types))
    BY <1>1 DEF IsTable
  <2> HIDE DEF standard
  <2>2. standard # {} => Min(standard) \in 1 .. Len(tz.types)
    BY <2>1, FirstAndLast
  <2>3. QED
    BY <2>1, <2>2
<1>6. (IF k = 0 THEN 1 ELSE k) = IF standard = {} THEN 1 ELSE Min(standard)
  BY <1>4, <1>5
<1>7. Answer(tz.types[IF k = 0 THEN 1 ELSE k].offset)
  BY DEF BeforeFirst
<1> HIDE DEF k
<1>8. Sorted(s) => tz.types[IF k = 0 THEN 1 ELSE k].offset = ByFile(tz)
  BY <1>3, <1>6 DEF ByFile
<1>9. QED
  BY <1>1, <1>7, <1>8, AnswerKeeps

\* Behind the last transition its type counts, or the rules of the footer.
LEMMA AfterLastKeeps ==
    ASSUME LookupInv, AfterLast
    PROVE  LookupInv'
<1> DEFINE s == tz.transitions
<1>1. /\ IsTable(tz) /\ t \in Int /\ step = "local" /\ ~IsPosix
      /\ n > 0 /\ t >= tr(0) /\ t >= tr(n - 1)
  BY DEF LookupInv, Zoned, AfterLast
<1>2. s \in Seq(Int) /\ n = Len(s) /\ n \in Nat /\ s[Len(s)] <= t
  <2>1. n \in Nat /\ n - 1 \in 0 .. n - 1 /\ (n - 1) + 1 = n
    BY <1>1, TableFacts
  <2>2. QED
    BY <1>1, <2>1, TableFacts
<1>3. CASE tz.footer # << >>
  <2>1. Sorted(s) => Beyond(tz)
    BY <1>1, <1>2, <1>3, AllPassed DEF Beyond
  <2>2. Answer(offset_at(tz.footer, t))
    BY <1>3 DEF AfterLast
  <2>3. QED
    BY <1>1, <2>1, <2>2, AnswerKeeps
<1>4. CASE tz.footer = << >>
  <2>1. Found(n)
    BY <1>4 DEF AfterLast
  <2>2. n \in 1 .. n /\ tr(n - 1) <= t
    BY <1>1, <1>2, TableFacts
  <2>3. QED
    BY <1>1, <2>1, <2>2, FoundKeeps
<1>5. QED
  BY <1>3, <1>4

\* The guess is an entry of the table or lies before it; in each case what is searched
\* then has a passed transition below and one to come above.
LEMMA GuessKeeps ==
    ASSUME LookupInv, Guess
    PROVE  LookupInv'
<1> DEFINE guess == (tr(n - 1) - t) \div SPACING
<1> DEFINE j == n - 1 - guess
<1>1. /\ IsTable(tz) /\ t \in Int /\ step = "local" /\ ~IsPosix
      /\ n > 0 /\ tr(0) <= t /\ t < tr(n - 1)
  BY DEF LookupInv, Zoned, Guess
<1>2. n \in Nat /\ \A k \in 0 .. n - 1 : tr(k) \in Int
  BY <1>1, TableFacts
<1>3. guess \in Nat
  <2> DEFINE left == tr(n - 1) - t
  <2>1. left \in Nat
    BY <1>1, <1>2
  <2> HIDE DEF left
  <2>2. left \div SPACING \in Nat
    BY <2>1, LookupAssumption
  <2>3. QED
    BY <2>2 DEF left
<1>4. WINDOW \in Nat
  BY LookupAssumption
<1> HIDE DEF guess
<1>5. guess < n => j \in 0 .. n - 1
  BY <1>2, <1>3
<1>6. CASE guess >= n /\ lo' = 0 /\ hi' = n - 1 /\ Continue("halve")
  <2>1. n > 1
    BY <1>1, <1>2
  <2>2. QED
    BY <1>1, <1>2, <1>6, <2>1, ContinueKeeps DEF LookupInv, Walking, Halving
<1>7. CASE guess < n /\ t < tr(j) /\ idx' = j /\ Continue("down")
  BY <1>1, <1>5, <1>7, ContinueKeeps DEF LookupInv, Walking, Halving
<1>8. CASE guess < n /\ j >= WINDOW /\ ~(t >= tr(j - WINDOW)) /\ lo' = 0 /\ hi' = j - WINDOW /\ Continue("halve")
  <2>1. j - WINDOW \in 0 .. n - 1 /\ t < tr(j - WINDOW)
    BY <1>1, <1>2, <1>4, <1>5, <1>8
  <2>2. j - WINDOW # 0
    BY <1>1, <1>2, <2>1
  <2> HIDE DEF j
  <2>3. QED
    BY <1>1, <1>2, <1>8, <2>1, <2>2, ContinueKeeps DEF LookupInv, Walking, Halving
<1>9. CASE guess < n /\ t >= tr(j) /\ idx' = j /\ Continue("up")
  BY <1>1, <1>5, <1>9, ContinueKeeps DEF LookupInv, Walking, Halving
<1>10. CASE guess < n /\ j + WINDOW < n /\ ~(t < tr(j + WINDOW)) /\ lo' = j + WINDOW /\ hi' = n - 1 /\ Continue("halve")
  <2>1. j + WINDOW \in 0 .. n - 1 /\ t >= tr(j + WINDOW)
    BY <1>1, <1>2, <1>4, <1>5, <1>10
  <2>2. j + WINDOW # n - 1
    BY <1>1, <1>2, <2>1
  <2> HIDE DEF j
  <2>3. QED
    BY <1>1, <1>2, <1>4, <1>10, <2>1, <2>2, ContinueKeeps DEF LookupInv, Walking, Halving
<1>11. QED
  BY <1>6, <1>7, <1>8, <1>9, <1>10 DEF Guess, guess

\* Walking down stops behind a passed transition, at the second entry at the latest.
LEMMA DownKeeps ==
    ASSUME LookupInv, Down
    PROVE  LookupInv'
<1>1. /\ IsTable(tz) /\ t \in Int /\ step = "down" /\ ~IsPosix
      /\ n > 0 /\ tr(0) <= t /\ t < tr(n - 1)
      /\ idx \in 0 .. n - 1 /\ t < tr(idx)
  BY DEF LookupInv, Zoned, Called, Walking, Down
<1>2. n \in Nat /\ \A k \in 0 .. n - 1 : tr(k) \in Int
  BY <1>1, TableFacts
<1>3. idx # 0
  BY <1>1, <1>2
<1>4. CASE idx > 1 /\ t < tr(idx - 1)
  <2>1. idx' = idx - 1 /\ Continue("down")
    BY <1>4 DEF Down
  <2>2. idx - 1 \in 0 .. n - 1
    BY <1>1, <1>2, <1>4
  <2>3. QED
    BY <1>1, <1>4, <2>1, <2>2, ContinueKeeps DEF LookupInv, Walking, Halving
<1>5. CASE ~(idx > 1 /\ t < tr(idx - 1))
  <2>1. AtLeast1(idx) = idx /\ idx \in 1 .. n /\ tr(idx - 1) <= t
    <3>1. CASE idx = 1
      BY <1>1, <1>2, <3>1 DEF AtLeast1
    <3>2. CASE idx # 1
      <4>1. idx > 1 /\ idx - 1 \in 0 .. n - 1
        BY <1>1, <1>2, <1>3, <3>2
      <4>2. QED
        BY <1>1, <1>2, <1>5, <4>1 DEF AtLeast1
    <3>3. QED
      BY <3>1, <3>2
  <2>2. Found(idx)
    BY <1>5, <2>1 DEF Down
  <2>3. QED
    BY <1>1, <2>1, <2>2, FoundKeeps
<1>6. QED
  BY <1>4, <1>5

\* Walking up stops at the first transition to come, the last entry at the latest.
LEMMA UpKeeps ==
    ASSUME LookupInv, Up
    PROVE  LookupInv'
<1>1. /\ IsTable(tz) /\ t \in Int /\ step = "up" /\ ~IsPosix
      /\ n > 0 /\ tr(0) <= t /\ t < tr(n - 1)
      /\ idx \in 0 .. n - 1 /\ (t >= tr(idx) \/ (idx > 0 /\ t >= tr(idx - 1)))
  BY DEF LookupInv, Zoned, Called, Walking, Up
<1>2. n \in Nat /\ \A k \in 0 .. n - 1 : tr(k) \in Int
  BY <1>1, TableFacts
<1>3. CASE idx < n - 1 /\ t >= tr(idx)
  <2>1. idx' = idx + 1 /\ Continue("up")
    BY <1>3 DEF Up
  <2>2. idx + 1 \in 0 .. n - 1 /\ idx + 1 > 0 /\ (idx + 1) - 1 = idx
    BY <1>1, <1>2, <1>3
  <2>3. QED
    BY <1>1, <1>3, <2>1, <2>2, ContinueKeeps DEF LookupInv, Walking, Halving
<1>4. CASE ~(idx < n - 1 /\ t >= tr(idx))
  <2>1. t < tr(idx)
    <3>1. CASE idx = n - 1
      BY <1>1, <3>1
    <3>2. CASE idx # n - 1
      BY <1>1, <1>2, <1>4, <3>2
    <3>3. QED
      BY <3>1, <3>2
  <2>2. idx > 0 /\ t >= tr(idx - 1) /\ idx - 1 \in 0 .. n - 1
    BY <1>1, <1>2, <2>1
  <2>3. AtLeast1(idx) = idx /\ idx \in 1 .. n /\ tr(idx - 1) <= t
    BY <1>1, <1>2, <2>2 DEF AtLeast1
  <2>4. Found(idx)
    BY <1>4, <2>3 DEF Up
  <2>5. QED
    BY <1>1, <2>1, <2>3, <2>4, FoundKeeps
<1>5. QED
  BY <1>3, <1>4

\* Bisecting moves one of the bounds between them, until they are neighbours.
LEMMA HalveKeeps ==
    ASSUME LookupInv, Halve
    PROVE  LookupInv'
<1> DEFINE j == (lo + hi) \div 2
<1>1. /\ IsTable(tz) /\ t \in Int /\ step = "halve" /\ ~IsPosix
      /\ n > 0 /\ tr(0) <= t /\ t < tr(n - 1)
      /\ lo \in 0 .. n - 1 /\ hi \in 0 .. n - 1 /\ lo < hi /\ tr(lo) <= t /\ t < tr(hi)
  BY DEF LookupInv, Zoned, Called, Halving, Halve
<1>2. n \in Nat /\ \A k \in 0 .. n - 1 : tr(k) \in Int
  BY <1>1, TableFacts
<1>3. lo + 1 < hi => j \in 0 .. n - 1 /\ lo < j /\ j < hi
  BY <1>1, <1>2
<1> HIDE DEF j
<1>4. CASE lo + 1 < hi /\ t < tr(j) /\ hi' = j /\ lo' = lo /\ Continue("halve")
  BY <1>1, <1>3, <1>4, ContinueKeeps DEF LookupInv, Walking, Halving
<1>5. CASE lo + 1 < hi /\ t >= tr(j) /\ lo' = j /\ hi' = hi /\ Continue("halve")
  BY <1>1, <1>2, <1>3, <1>5, ContinueKeeps DEF LookupInv, Walking, Halving
<1>6. CASE lo + 1 >= hi /\ Found(AtLeast1(hi))
  <2>1. AtLeast1(hi) = hi /\ hi \in 1 .. n /\ hi - 1 = lo
    BY <1>1, <1>2, <1>6 DEF AtLeast1
  <2>2. QED
    BY <1>1, <1>6, <2>1, FoundKeeps
<1>7. QED
  BY <1>4, <1>5, <1>6 DEF Halve, j

-----------------------------------------------------------------------------

\* A search begins in its invariant: nothing is looked at yet.
LEMMA LookupInitKeeps == LookupInit => LookupInv
<1> SUFFICES ASSUME LookupInit PROVE LookupInv
  OBVIOUS
<1>1. CASE step = "off"
  BY <1>1 DEF LookupInit, LookupInv, Zoned, Called, Walking, Halving, FileTime
<1>2. CASE step = "local"
  <2>1. PICK a \in Asked : t \in a.times /\ tz = from_tz_value(a)
    BY <1>2 DEF LookupInit
  <2>2. t \in Int
    BY <2>1, LookupAssumption
  <2>3. ~IsPosix => IsTable(tz)
    BY <2>1, ZoneTable
  <2>4. QED
    BY <1>2, <2>2, <2>3 DEF LookupInv, Zoned, Called, Walking, Halving, FileTime
<1>3. QED
  BY <1>1, <1>2 DEF LookupInit

\* A lookup keeps the invariant at each of its steps.
THEOREM LookupInvariance == LookupSpec => []LookupInv
<1>1. LookupInit => LookupInv
  BY LookupInitKeeps
<1>2. LookupInv /\ [LookupNext]_lookup_vars => LookupInv'
  <2> SUFFICES ASSUME LookupInv, [LookupNext]_lookup_vars PROVE LookupInv'
    OBVIOUS
  <2>1. CASE ByRules
    BY <2>1, ByRulesKeeps
  <2>2. CASE BeforeFirst
    BY <2>2, BeforeFirstKeeps
  <2>3. CASE AfterLast
    BY <2>3, AfterLastKeeps
  <2>4. CASE Guess
    BY <2>4, GuessKeeps
  <2>5. CASE Down
    BY <2>5, DownKeeps
  <2>6. CASE Up
    BY <2>6, UpKeeps
  <2>7. CASE Halve
    BY <2>7, HalveKeeps
  <2>8. CASE UNCHANGED lookup_vars
    BY <2>8 DEF lookup_vars, bounds, LookupInv, Zoned, Called, Walking, Halving, FileTime, IsPosix,
                n, tr, IsTable, Sorted, Beyond, ByFile, Passed
  <2>9. QED
    BY <2>1, <2>2, <2>3, <2>4, <2>5, <2>6, <2>7, <2>8 DEF LookupNext
<1>3. QED
  BY <1>1, <1>2, PTL DEF LookupSpec

\* In every sorted table search finds the last transition passed, whatever the spacing it
\* assumes and however far it walks.
THEOREM SearchFinds == LookupSpec => []FileTime
<1>1. LookupInv => FileTime
  BY DEF LookupInv
<1>2. QED
  BY <1>1, LookupInvariance, PTL
=============================================================================
