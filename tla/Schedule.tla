------------------------------ MODULE Schedule ------------------------------
(***************************************************************************)
(* The fields of a schedule (schedule.rs): get_list reads one of them.     *)
(*                                                                         *)
(* A character, or the run of letters and digits that get_number takes at  *)
(* once, is a token <<kind, n>>: a number, a name of the field, junk, or   *)
(* punctuation.  A C int has 2 * C_INT values, a C long saturates at       *)
(* C_LONG_MAX.                                                             *)
(***************************************************************************)
EXTENDS Integers, Sequences, SequencesExt

CONSTANTS
    Low, High, HasNames,    \* Field::bounds and Field::names of the field that is read
    Numbers, MaxTokens,     \* the numbers in a list, and its length
    C_INT, C_LONG_MAX

ASSUME ScheduleAssumption ==
    /\ {Low, High, C_INT, C_LONG_MAX} \subseteq Nat /\ Numbers \subseteq Nat
    /\ Low < High /\ High + 1 < C_INT /\ C_INT <= C_LONG_MAX

VARIABLES
    stage,
    range,                  \* get_range: its state, low_, high_, step
    bits,                   \* get_list
    text, tokens, wanted, overflow  \* history: the range, the list's length, what it may select

listVars == <<stage, range, bits, text, tokens, wanted, overflow>>

-----------------------------------------------------------------------------
(* Numbers.                                                                *)

\* The C int with these low bits.
Wrap(n) == ((n + C_INT) % (2 * C_INT)) - C_INT

c_int_from_digits(n) == Wrap(IF n > C_LONG_MAX THEN C_LONG_MAX ELSE n)

\* get_number: one value, or none.
get_number(c, low, names) ==
    {n \in {IF c[1] = "num" THEN c_int_from_digits(c[2]) ELSE low + c[2]} :
        c[1] = "num" \/ (c[1] = "name" /\ names)}

Number(c) == get_number(c, Low, HasNames)

is_separator(c) == c[1] \in {",", "blank"}

-----------------------------------------------------------------------------
(* get_range.                                                              *)

\* Among the values of a range: it is rejected.
Rejected == -C_INT - 1

RangeAt(s, lo, hi, st) == [state |-> s, low_ |-> lo, high_ |-> hi, step |-> st]

Start   == RangeAt("Start", 0, 0, 1)
Failure == RangeAt("Bad", 0, 0, 1)

\* What becomes of it with one more character; a random range picks.
Scan(r, c) ==
    LET Goto(s)   == RangeAt(s, r.low_, r.high_, r.step)
        OrBad(S)  == IF S = {} THEN {Failure} ELSE S
        Ends      == IF is_separator(c) THEN {Goto("Finish")} ELSE {Failure}
        Picks(hs, s) == {RangeAt(s, p, p, r.step) : p \in UNION {r.low_ .. h : h \in hs}}
    IN  CASE r.state = "Start" ->
               (CASE c[1] = "*" -> {RangeAt("Ast", Low, High, 1)}
                  [] c[1] = "~" -> {RangeAt("Random", Low, 0, 1)}
                  [] OTHER      -> OrBad({RangeAt("Num1", n, 0, 1) : n \in Number(c)}))
          [] r.state \in {"Ast", "RangeNum2"} -> IF c[1] = "/" THEN {Goto("Step")} ELSE Ends
          [] r.state = "Step" ->
               OrBad({RangeAt("Terms", r.low_, r.high_, n) : n \in get_number(c, 0, FALSE) \ {0}})
          [] r.state = "Terms" -> Ends
          [] r.state = "Num1" ->
               (CASE c[1] = "-" -> {Goto("Range")}
                  [] c[1] = "~" -> {Goto("Random")}
                  [] is_separator(c) -> {RangeAt("Finish", r.low_, r.low_, 1)}
                  [] OTHER      -> {Failure})
          [] r.state = "Range" ->
               OrBad({RangeAt("RangeNum2", r.low_, n, r.step) : n \in Number(c)})
          [] r.state = "Random" ->
               OrBad(IF is_separator(c) THEN Picks({High}, "Finish") ELSE Picks(Number(c), "Terms"))
          [] OTHER -> {Failure}

\* Slip: the ends of the range are checked, not its elements.
SelectedBetween(r) ==
    IF r.state = "Finish" /\ {r.low_, r.high_} \subseteq Low .. High
    THEN {i \in r.low_ .. r.high_ : \E k \in 0 .. High : i = r.low_ + k * r.step} ELSE {Rejected}

\* for (i = low_; i <= high_; i += step), in C ints; leaving the field is an error.
Selected(r) ==
    LET i(k)     == Wrap(r.low_ + k * r.step)
        Stops(k) == i(k) > r.high_ \/ i(k) \notin Low .. High
        last     == CHOOSE k \in 0 .. High + 1 : Stops(k) /\ \A j \in 0 .. k - 1 : ~Stops(j)
    IN  IF r.state # "Finish" THEN {Rejected}
        ELSE {i(k) : k \in 0 .. last - 1} \cup (IF i(last) > r.high_ THEN {} ELSE {Rejected})

\* A list with one more range; one that is rejected leaves nothing.
Joined(b, new) == IF Rejected \in new THEN {Rejected} ELSE b \cup new

-----------------------------------------------------------------------------
(* What the documentation says: the sets of which a range selects one.     *)

InField(v) == IF v \subseteq Low .. High THEN v ELSE {Rejected}

\* a, a + s, ... up to b.  A number that turned negative leads out of the field.
Every(a, b, s) == InField(IF s > 0 THEN {i \in a .. b : \E k \in 0 .. b - a : i = a + k * s}
                          ELSE IF a <= b THEN {a, Low - 1} ELSE {})

Meaning(r) ==
    LET kind == [i \in DOMAIN r |-> IF Number(r[i]) # {} THEN "n" ELSE r[i][1]]
        n(i) == CHOOSE x \in Number(r[i]) : TRUE
        By(a, b, i) == {Every(a, b, s) : s \in get_number(r[i], 0, FALSE) \ {0}}
        Pick(a, b)  == {InField({i}) : i \in a .. b}
        Choice ==
            CASE kind = <<"*">>                -> {Low .. High}
              [] kind = <<"*", "/", "n">>      -> By(Low, High, 3)
              [] kind = <<"n">>                -> {Every(n(1), n(1), 1)}
              [] kind = <<"n", "-", "n">>      -> {Every(n(1), n(3), 1)}
              [] kind = <<"n", "-", "n", "/", "n">> -> By(n(1), n(3), 5)
              [] kind = <<"~">>                -> Pick(Low, High)
              [] kind = <<"n", "~">>           -> Pick(n(1), High)
              [] kind = <<"~", "n">>           -> Pick(Low, n(2))
              [] kind = <<"n", "~", "n">>      -> Pick(n(1), n(3))
              [] OTHER                         -> {}
    IN  IF Choice = {} THEN {{Rejected}} ELSE Choice

\* What a list may select with one more range.
Allowed(selections, r) == {Joined(w, m) : w \in selections, m \in Meaning(r)}

\* A step with which an element of the field is no C int any more.
Overflows(r) == \E i \in DOMAIN r : r[i][1] = "/" /\ i < Len(r)
                  /\ \E s \in get_number(r[i + 1], 0, FALSE) : s + High >= C_INT

-----------------------------------------------------------------------------
(* get_list: ranges up to a blank.                                         *)

Tokens == ({"num"} \X Numbers) \cup ({"name"} \X {0, 1})
          \cup ({"*", "~", "-", "/", ",", "blank", "junk"} \X {0})

IsWord(c) == c[1] \in {"num", "name", "junk"}

\* Two words would be one.
Follows(c) == IsWord(c) /\ text # << >> => ~IsWord(Last(text))

ReadToken(c) ==
    /\ stage = "list" /\ tokens < MaxTokens /\ Follows(c)
    /\ ~is_separator(c)
    /\ range' \in Scan(range, c)
    /\ text' = Append(text, c) /\ tokens' = tokens + 1
    /\ UNCHANGED <<stage, bits, wanted, overflow>>

EndRange(c) ==
    /\ stage = "list" /\ is_separator(c)
    /\ \E r \in Scan(range, c) :
          LET new == Selected(r) IN
          /\ bits' = Joined(bits, new)
          /\ stage' = IF c[1] = "," /\ Rejected \notin new THEN "list" ELSE "parsed"
    /\ range' = Start /\ text' = << >> /\ tokens' = tokens + 1
    /\ wanted' = Allowed(wanted, text)
    /\ overflow' = (overflow \/ Overflows(text))

InitList ==
    /\ stage = "list"
    /\ range = Start /\ bits = {} /\ text = << >> /\ tokens = 0
    /\ wanted = {{}} /\ overflow = FALSE

NextList == \E c \in Tokens : ReadToken(c) \/ EndRange(c)

ListSpec == InitList /\ [][NextList]_listVars

-----------------------------------------------------------------------------
(* Properties.                                                             *)

\* A list selects what its grammar says, or is rejected (module documentation of
\* schedule.rs), with C int numbers, reversed ranges, steps beyond the field and
\* picks outside it, unless an element plus the step is no C int any more.
ListMeaning == stage = "parsed" /\ ~overflow => bits \in wanted

\* "A step larger than its range is accepted", also in that case.
ListMeaningAlways == stage = "parsed" => bits \in wanted
=============================================================================
