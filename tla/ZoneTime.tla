------------------------------ MODULE ZoneTime ------------------------------
(***************************************************************************)
(* Zone::wall_time (tz.rs): the time in a zone, which has POSIX rules or   *)
(* the transitions of a TZif file.                                         *)
(*                                                                         *)
(* A POSIX string is what its parts say: std, the offset of a standard     *)
(* name, or << >> if there is none; dst, << >> or <<offset>> of a second   *)
(* name, itself << >> if left out; rules, << >> or two rules, with << >>   *)
(* for the end of the string.  Time is counted in units of HOUR; years are *)
(* positive.                                                               *)
(***************************************************************************)
EXTENDS Integers, Sequences, SequencesExt, FiniteSetsExt

CONSTANTS
    Asked,                  \* strings and files, with posixrules, and times asked for
    HOUR, SECSPERDAY,
    SPACING, WINDOW         \* 15778476 and 10, of the search

ZoneType == [offset : Int, isdst : BOOLEAN, gmt : BOOLEAN, std : BOOLEAN]

\* What parse_tzif accepts: a type for every transition.
IsFile(f) ==
    /\ DOMAIN f = {"transitions", "type_idxs", "types", "leaps", "footer"}
    /\ f.transitions \in Seq(Int) /\ f.types \in Seq(ZoneType) /\ f.types # << >>
    /\ f.type_idxs \in [DOMAIN f.transitions -> 0 .. Len(f.types) - 1]

ASSUME LookupAssumption ==
    /\ {HOUR, WINDOW} \subseteq Nat /\ SPACING \in Nat \ {0}
    /\ \A a \in Asked :
          /\ a.times \subseteq Int
          /\ \A f \in {a.file, a.posixrules} : f # << >> => IsFile(f[1])
          /\ a.string.std # << >> => a.string.std[1] \in Int
          /\ a.string.dst # << >> => a.string.dst[1] = << >> \/ a.string.dst[1][1] \in Int

VARIABLES
    text, t,
    tz,                     \* the zone of text
    step,                   \* of local, or "off"
    lo, hi, idx,            \* of search
    local                   \* the offset and the leap correction

bounds == <<lo, hi, idx>>
lookup_vars == <<text, t, tz, step, bounds, local>>

-----------------------------------------------------------------------------
(* parse_posix.                                                            *)

\* M3.2.0 and M11.1.0.
US(which) == IF which = 1 THEN [kind |-> "M", m |-> 3, n |-> 2, d |-> 0, at |-> << >>, ok |-> TRUE]
             ELSE [kind |-> "M", m |-> 11, n |-> 1, d |-> 0, at |-> << >>, ok |-> TRUE]

Zeroed == [kind |-> "J0", m |-> 0, n |-> 0, d |-> 0, at |-> <<0>>, ok |-> TRUE]

RuleAt(r, offset) ==
    [kind |-> r.kind, m |-> r.m, n |-> r.n, d |-> r.d, offset |-> offset,
     secs |-> IF ~r.ok THEN 0 ELSE IF r.at = << >> THEN 2 * HOUR ELSE r.at[1]]

\* Two rules; a bad first one leaves the second as it was.
parse_rule(rules, which) ==
    LET r == IF rules = << >> \/ rules[which] = << >> THEN US(which) ELSE rules[which]
    IN  IF which = 2 /\ rules # << >> /\ rules[1] # << >> /\ ~rules[1].ok THEN Zeroed ELSE r

parse_offset(std, dst) == IF dst = << >> THEN std + HOUR ELSE dst[1]

ByRules_(r1, r2) == [rules |-> <<r1, r2>>]

\* posixrules is << >> or <<file>>, already with these offsets.
parse_posix(s, posixrules) ==
    LET std == s.std[1]
        dst == IF s.dst = << >> THEN 0 ELSE parse_offset(std, s.dst[1])
    IN  CASE s.std = << >> -> ByRules_(RuleAt(Zeroed, 0), RuleAt(Zeroed, 0))
          [] s.std # << >> /\ s.dst = << >> /\ s.rules = << >> ->
               ByRules_(RuleAt(Zeroed, std), RuleAt(Zeroed, std))
          [] s.std # << >> /\ s.dst # << >> /\ s.rules = << >> /\ posixrules # << >> -> posixrules[1]
          [] OTHER -> ByRules_(RuleAt(parse_rule(s.rules, 1), std), RuleAt(parse_rule(s.rules, 2), dst))

-----------------------------------------------------------------------------
(* compute_change and offset_at.                                           *)

is_leap(year) == year % 4 = 0 /\ (year % 100 # 0 \/ year % 400 = 0)

mon_yday(k) ==
    LET T == <<0, 31, 59, 90, 120, 151, 181, 212, 243, 273, 304, 334, 365,
               0, 31, 60, 91, 121, 152, 182, 213, 244, 274, 305, 335, 366>>
    IN  IF k + 1 \in DOMAIN T THEN T[k + 1] ELSE 0

NewYear(y) ==
    IF y > 1970
    THEN ((y - 1970) * 365 + ((y - 1) \div 4 - 1970 \div 4) - ((y - 1) \div 100 - 1970 \div 100)
            + ((y - 1) \div 400 - 1970 \div 400)) * SECSPERDAY
    ELSE 0

\* The n-th day d of week of month m, or the last.
MonthDay(r, y) ==
    LET k     == (IF is_leap(y) THEN 13 ELSE 0) + r.m
        start == mon_yday(k - 1)
        m1    == ((r.m + 9) % 12) + 1
        yy0   == IF r.m <= 2 THEN y - 1 ELSE y
        yy1   == yy0 \div 100
        yy2   == yy0 % 100
        dow   == ((26 * m1 - 2) \div 10 + 1 + yy2 + yy2 \div 4 + yy1 \div 4 - 2 * yy1) % 7
        first == IF r.d < dow THEN r.d - dow + 7 ELSE r.d - dow
        weeks == {w \in 0 .. r.n - 1 : w = 0 \/ first + 7 * w < mon_yday(k) - start}
    IN  start + first + 7 * (IF weeks = {} THEN 0 ELSE Max(weeks))

Change(r, y, leap) ==
    LET day == CASE r.kind = "J1" -> r.d - 1 + (IF r.d >= leap /\ is_leap(y) THEN 1 ELSE 0)
                 [] r.kind = "J0" -> r.d
                 [] r.kind = "M"  -> MonthDay(r, y)
    IN  NewYear(y) + day * SECSPERDAY - r.offset + r.secs

\* Slip: in a leap year 29 February is Jn's day 60.
compute_change_61(r, y) == Change(r, y, 61)

compute_change(r, y) == Change(r, y, 60)

utc_year(s) ==
    LET z    == s \div SECSPERDAY + 719468
        era  == z \div 146097
        doe  == z % 146097
        yoe  == (doe - doe \div 1460 + doe \div 36524 - doe \div 146096) \div 365
        doy  == doe - (365 * yoe + yoe \div 4 - yoe \div 100)
    IN  yoe + era * 400 + (IF (5 * doy + 2) \div 153 >= 10 THEN 1 ELSE 0)

offset_at(rules, s) ==
    LET start == compute_change(rules[1], utc_year(s))
        end   == compute_change(rules[2], utc_year(s))
        isdst == IF start > end THEN s < end \/ s >= start ELSE s >= start /\ s < end
    IN  rules[IF isdst THEN 2 ELSE 1].offset

-----------------------------------------------------------------------------
(* posixrules_default: the transitions of a file, with other offsets.      *)

posixrules_default(f, std, dst) ==
    LET type(j)    == f.types[f.type_idxs[j] + 1]
        standard   == {j \in DOMAIN f.type_idxs : ~type(j).isdst}
        rule_std   == CASE f.transitions = << >> -> f.types[1].offset
                        [] f.transitions # << >> /\ standard # {} -> type(Max(standard)).offset
                        [] OTHER -> 0
        rule_dst   == IF f.transitions = << >> THEN f.types[1].offset ELSE 0
        after_dst(j) == j > 1 /\ type(j - 1).isdst
        shift(j)   == CASE type(j).gmt -> 0
                        [] ~type(j).gmt /\ after_dst(j) /\ ~type(j).std -> dst - rule_dst
                        [] OTHER -> std - rule_std
    IN  IF Len(f.types) < 2 THEN << >>
        ELSE <<[f EXCEPT !.transitions = [j \in DOMAIN @ |-> @[j] + shift(j)],
                         !.type_idxs   = [j \in DOMAIN @ |-> IF type(j).isdst THEN 1 ELSE 0],
                         !.types       = <<[offset |-> std, isdst |-> FALSE, gmt |-> FALSE, std |-> FALSE],
                                           [offset |-> dst, isdst |-> TRUE, gmt |-> FALSE, std |-> FALSE]>>]>>

Rules(s, posixrules) ==
    IF posixrules = << >> \/ s.std = << >> \/ s.dst = << >> THEN << >>
    ELSE posixrules_default(posixrules[1], s.std[1], parse_offset(s.std[1], s.dst[1]))

from_tz_value(x) ==
    IF x.file # << >> THEN x.file[1] ELSE parse_posix(x.string, Rules(x.string, x.posixrules))

-----------------------------------------------------------------------------
(* local: __tzfile_compute.  Transitions are counted from 0.               *)

IsPosix == "rules" \in DOMAIN tz
n       == Len(tz.transitions)
tr(k)   == tz.transitions[k + 1]

correction ==
    IF IsPosix THEN 0
    ELSE LET k == SelectLastInSeq(tz.leaps, LAMBDA l : t >= l.transition)
         IN  IF k = 0 THEN 0 ELSE tz.leaps[k].change

Answer(offset) ==
    /\ local' = [offset |-> offset, correction |-> correction]
    /\ step' = "done"
    /\ UNCHANGED <<text, t, tz, bounds>>

Found(k) == Answer(tz.types[tz.type_idxs[k] + 1].offset)

Continue(s) == step' = s /\ UNCHANGED <<text, t, tz, local>>

ByRules == step = "local" /\ IsPosix /\ Answer(offset_at(tz.rules, t))

BeforeFirst ==
    LET k == SelectInSeq(tz.types, LAMBDA ty : ~ty.isdst)
    IN  /\ step = "local" /\ ~IsPosix /\ (n > 0 => t < tr(0))
        /\ Answer(tz.types[IF k = 0 THEN 1 ELSE k].offset)

AfterLast ==
    /\ step = "local" /\ ~IsPosix /\ n > 0 /\ t >= tr(0) /\ t >= tr(n - 1)
    /\ IF tz.footer # << >> THEN Answer(offset_at(tz.footer, t)) ELSE Found(n)

\* search guesses from the distance to the last transition ...
Guess ==
    LET guess == (tr(n - 1) - t) \div SPACING
        j     == n - 1 - guess
    IN  /\ step = "local" /\ ~IsPosix /\ n > 0 /\ tr(0) <= t /\ t < tr(n - 1)
        /\ \/ guess >= n /\ lo' = 0 /\ hi' = n - 1 /\ UNCHANGED idx /\ Continue("halve")
           \/ /\ guess < n /\ t < tr(j)
              /\ IF (j >= WINDOW => t >= tr(j - WINDOW)) THEN idx' = j /\ UNCHANGED <<lo, hi>> /\ Continue("down")
                 ELSE lo' = 0 /\ hi' = j - WINDOW /\ UNCHANGED idx /\ Continue("halve")
           \/ /\ guess < n /\ t >= tr(j)
              /\ IF (j + WINDOW < n => t < tr(j + WINDOW)) THEN idx' = j /\ UNCHANGED <<lo, hi>> /\ Continue("up")
                 ELSE lo' = j + WINDOW /\ hi' = n - 1 /\ UNCHANGED idx /\ Continue("halve")

AtLeast1(k) == IF k < 1 THEN 1 ELSE k

\* ... then tries the next few, or bisects.
Down ==
    /\ step = "down"
    /\ IF idx > 1 /\ t < tr(idx - 1) THEN idx' = idx - 1 /\ UNCHANGED <<lo, hi>> /\ Continue("down")
       ELSE Found(AtLeast1(idx))

\* Slip: a transition at t itself is not passed.
Up_strict ==
    /\ step = "up"
    /\ IF idx < n - 1 /\ t > tr(idx) THEN idx' = idx + 1 /\ UNCHANGED <<lo, hi>> /\ Continue("up")
       ELSE Found(AtLeast1(idx))

Up ==
    /\ step = "up"
    /\ IF idx < n - 1 /\ t >= tr(idx) THEN idx' = idx + 1 /\ UNCHANGED <<lo, hi>> /\ Continue("up")
       ELSE Found(AtLeast1(idx))

Halve ==
    LET j == (lo + hi) \div 2
    IN  /\ step = "halve"
        /\ \/ lo + 1 < hi /\ t < tr(j) /\ hi' = j /\ UNCHANGED <<lo, idx>> /\ Continue("halve")
           \/ lo + 1 < hi /\ t >= tr(j) /\ lo' = j /\ UNCHANGED <<hi, idx>> /\ Continue("halve")
           \/ lo + 1 >= hi /\ Found(AtLeast1(hi))

LookupNext == ByRules \/ BeforeFirst \/ AfterLast \/ Guess \/ Down \/ Up \/ Halve

LookupInit ==
    /\ \/ \E a \in Asked : text = a /\ t \in a.times /\ tz = from_tz_value(a) /\ step = "local"
       \/ text = << >> /\ t = 0 /\ tz = << >> /\ step = "off"
    /\ lo = 0 /\ hi = 0 /\ idx = 0 /\ local = << >>

LookupSpec == LookupInit /\ [][LookupNext]_lookup_vars

-----------------------------------------------------------------------------
(* The calendar, by counting, and the meaning of a zone.                   *)

JanFirst == [y \in 1969 .. 2105 |-> 365 * (y - 1970) + Quantify(1970 .. y - 1, is_leap)]
            \* (1969 is a common year)

DaysOf(m, y) == CASE m = 2 -> IF is_leap(y) THEN 29 ELSE 28 [] m \in {4, 6, 9, 11} -> 30 [] OTHER -> 31

FirstOf(m, y) == JanFirst[y] + MapThenSumSet(LAMBDA k : DaysOf(k, y), 1 .. m - 1)

\* Jn is the day that it is in a common year; Mm.5.d is the last day d of month m.
DayOf(r, y) ==
    LET m    == Max({k \in 1 .. 12 : FirstOf(k, 1970) < r.d})
        days == {x \in FirstOf(r.m, y) .. FirstOf(r.m, y) + DaysOf(r.m, y) - 1 : (x + 4) % 7 = r.d}
    IN  CASE r.kind = "J1" -> FirstOf(m, y) + r.d - 1 - FirstOf(m, 1970)
          [] r.kind = "J0" -> JanFirst[y] + r.d
          [] r.kind = "M"  -> IF r.n = 5 THEN Max(days)
                              ELSE CHOOSE x \in days : Cardinality({z \in days : z <= x}) = r.n

YearOf(s) == Max({y \in 1970 .. 2104 : JanFirst[y] * SECSPERDAY <= s})

\* Each rule takes effect every year, at the local time until then; what counts is the last
\* one.  (Only if each does within the UTC year: "the year is the UTC year of t", :784.)
Effects(rules) ==
    {[at |-> DayOf(rules[k], y) * SECSPERDAY + rules[k].secs - rules[k].offset,
      offset |-> rules[3 - k].offset, year |-> y] : k \in {1, 2}, y \in YearOf(t) - 1 .. YearOf(t) + 1}

Within(E) ==
    \A e \in E : /\ JanFirst[e.year] * SECSPERDAY <= e.at
                  /\ e.at < JanFirst[e.year + 1] * SECSPERDAY
                  /\ \A f \in E : f.at = e.at => f = e

InEffect(E) ==
    LET past == {e \in E : e.at <= t}
    IN  (CHOOSE e \in past : \A f \in past : f.at <= e.at).offset

\* An offset is that of the rules, where these say one.
ByTheRules(rules, offset) ==
    LET E == Effects(rules)
    IN  t >= 0 /\ Within(E) => offset = InEffect(E)

\* A string that is well formed: one offset, or two and how they alternate.
WellFormed(s) == s.std # << >> /\ (s.dst = << >> => s.rules = << >>)
                 /\ \A k \in DOMAIN s.rules : s.rules[k] = << >> \/ s.rules[k].ok

Alternating(s) ==
    LET dst     == IF s.dst[1] = << >> THEN s.std[1] + HOUR ELSE s.dst[1][1]
        rule(k) == LET r == IF s.rules # << >> /\ s.rules[k] # << >> THEN s.rules[k] ELSE US(k)
                   IN  [kind |-> r.kind, m |-> r.m, n |-> r.n, d |-> r.d,
                        secs |-> IF r.at = << >> THEN 2 * HOUR ELSE r.at[1],
                        offset |-> IF k = 1 THEN s.std[1] ELSE dst]
    IN  <<rule(1), rule(2)>>

Passed(times) == {j \in DOMAIN times : times[j] <= t}
Sorted(times) == \A j, k \in DOMAIN times : j <= k => times[j] <= times[k]

\* Behind the last transition the rules of a footer count.
Beyond(f) == f.transitions # << >> /\ f.footer # << >> /\ Passed(f.transitions) = DOMAIN f.transitions

\* What a file says otherwise: the type of the last transition, or the first standard one.
ByFile(f) ==
    LET standard == {k \in DOMAIN f.types : ~f.types[k].isdst}
    IN  IF Passed(f.transitions) # {} THEN f.types[f.type_idxs[Max(Passed(f.transitions))] + 1].offset
        ELSE f.types[IF standard = {} THEN 1 ELSE Min(standard)].offset

\* INVARIANT  The offset of a file's zone is that of the transition that came last,
\* wherever search begins and whether it walks or bisects ("identical to a binary search
\* on well-formed, sorted files", :1171).
FileTime ==
    step = "done" /\ ~IsPosix /\ Sorted(tz.transitions) /\ ~Beyond(tz) => local.offset = ByFile(tz)

\* INVARIANT  The offset of a zone with rules is the one in effect by their definition: of
\* the two the one whose change came last, by a count of the days.
LocalTime ==
    LET s == text.string
    IN  step = "done" =>
          CASE IsPosix /\ s.std = << >> -> local.offset = 0
            [] IsPosix /\ s.std # << >> /\ WellFormed(s) /\ s.dst = << >> -> local.offset = s.std[1]
            [] IsPosix /\ s.std # << >> /\ WellFormed(s) /\ s.dst # << >> ->
                 ByTheRules(Alternating(s), local.offset)
            [] ~IsPosix /\ Sorted(tz.transitions) /\ Beyond(tz) -> ByTheRules(tz.footer, local.offset)
            [] OTHER -> TRUE
=============================================================================
