------------------------------ MODULE MCZones ------------------------------
(* Small instances of ZoneCache and of ZoneTime, which share no state: one  *)
(* of the two moves.  The cache: EST5EDT, which is a file or a string that  *)
(* consults posixrules, and the absolute path of the same file.  The times: *)
(* days of six hours, and tables of up to nine transitions, dense or sparse. *)
EXTENDS ZoneCache, ZoneTime, TLC

CONSTANTS i1, i2, c1, c2

MCInodes == {i1, i2}
MCGood   == {c1, c2}

MCzone_path == ("EST5EDT" :> "x") @@ ("/x" :> "x")

\* Inodes are interchangeable, and so are good contents.
Symmetry == Permutations(MCInodes) \cup Permutations(MCGood)

-----------------------------------------------------------------------------

M(m, w, d, a)     == [kind |-> "M", m |-> m, n |-> w, d |-> d, at |-> a, ok |-> m # 0]
J(kind, d, a)     == [kind |-> kind, m |-> 0, n |-> 0, d |-> d, at |-> a, ok |-> TRUE]
String(s, d, r)   == [std |-> s, dst |-> d, rules |-> r]
South             == <<M(10, 1, 0, << >>), M(4, 5, 1, <<3>>)>>

Strings == {String(<< >>, << >>, << >>), String(<<-1>>, << >>, << >>), String(<<-1>>, << <<>> >>, << >>),
            String(<<2>>, << <<3>> >>, South), String(<<2>>, << >>, South),
            String(<<0>>, << <<>> >>, <<J("J1", 60, <<1>>), J("J1", 366 - 1, <<0>>)>>),
            String(<<1>>, << <<0>> >>, <<J("J0", 59, << >>), M(2, 5, 6, <<-1>>)>>),
            String(<<-1>>, << <<>> >>, <<M(0, 1, 0, << >>), J("J0", 0, << >>)>>),
            String(<<-1>>, << <<>> >>, <<M(3, 5, 3, << >>), << >> >>),
            String(<<2>>, << <<3>> >>, <<J("J1", 15, <<0>>), M(7, 3, 4, << >>)>>)}

Year(y) == JanFirst[y] * SECSPERDAY - 6 .. JanFirst[y + 1] * SECSPERDAY + 6

\* Every transition has a type of its own; standard and daylight saving time alternate.
Type(k, gmt) == [offset |-> 10 * k, isdst |-> k % 2 = 1, gmt |-> gmt, std |-> k % 3 = 2]
Leaps == <<[transition |-> 2, change |-> 1], [transition |-> 7, change |-> 2]>>
Table(s, footer) ==
    [transitions |-> s, type_idxs |-> [k \in DOMAIN s |-> k], leaps |-> Leaps, footer |-> footer,
     types |-> [k \in 1 .. Len(s) + 1 |-> Type(k - 1, k % 5 = 4)]]

US5 == parse_posix(String(<<-1>>, << <<>> >>, << >>), << >>).rules

InOrder(S) == [j \in 1 .. Cardinality(S) |-> CHOOSE x \in S : Cardinality({y \in S : y < x}) = j - 1]

Tables == {Table(InOrder(S), << >>) : S \in {x \in SUBSET (0 .. 10) : Cardinality(x) \in 6 .. 8}}
          \cup {Table(InOrder(S), << >>) : S \in SUBSET {0, 1, 2, 3, 10, 14, 18, 22, 26}}
          \cup {Table(s, << >>) : s \in {<<3, 3, 5, 9>>, <<5, 2, 9, 4, 12>>}}

MCAsked ==
    {[string |-> s, file |-> << >>, posixrules |-> << >>, times |-> times] :
        s \in Strings, times \in {Year(1972), Year(2000), Year(2100)}}
    \cup {[string |-> String(<< >>, << >>, << >>), file |-> <<f>>, posixrules |-> << >>, times |-> -1 .. 26] :
            f \in Tables}
    \cup {[string |-> String(<<-1>>, << <<>> >>, << >>), file |-> << >>, posixrules |-> <<f>>, times |-> times] :
            f \in {Table(<< >>, << >>), Table(<<2, 8, 14, 20>>, US5)}, times \in {-4 .. 24, Year(1999)}}

-----------------------------------------------------------------------------

NoFiles == /\ at = [p \in Paths |-> None]
           /\ inode = [i \in Inodes |-> [content |-> Bad, meta |-> 0]]
           /\ value = "/x"

MCInit == LookupInit /\ (step = "off" \/ NoFiles) /\ Init

MCNext == \/ step = "off" /\ Next /\ UNCHANGED lookup_vars
          \/ LookupNext /\ UNCHANGED vars

MCSpec == MCInit /\ [][MCNext]_<<vars, lookup_vars>>
=============================================================================
