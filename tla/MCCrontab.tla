----------------------------- MODULE MCCrontab -----------------------------
(* Small instances of Parser, Schedule and NextAfter, which share no state: *)
(* one of the three moves.  Files: short ones of any characters, alone and  *)
(* behind the time of a job, and longer ones of whole lines.  A field from 1 *)
(* to 3, C ints from -8 to 7; years of two months with leap days, weeks of  *)
(* two days.                                                                *)
EXTENDS Parser, Schedule, NextAfter, TLC

Q == Quote
B == Blank
Stars == <<"*", B, "*", B, B, "*", B, "*", B, "*", B>>
AtN   == <<"@", "n", B>>

MCShortcuts == {<<"n">>}

Short(len, S) == UNION {[1 .. n -> S] : n \in 0 .. len}

Lines == {Stars \o <<"n", NL>>, Stars \o <<"n", B, "=", NL>>,
          <<"-">> \o Stars \o <<"n", B, "n", NL>>, AtN \o <<"n", B, "=", NL>>,
          AtN \o <<"n", B, "-", "n", B, "-", NL>>, AtN \o <<"-", "n", B, "#", NL>>,
          <<"@", NL>>, <<"*", B, "n", NL>>, <<Q, "n", Q, "=", "n", NL>>, <<"=", Q, NL>>,
          <<"#", NL>>, <<"n", B, "=", B, Q, "@", Q, NL>>,
          Stars \o [i \in 1 .. 8 |-> "n"] \o <<NL>>}

MCFiles == Short(3, Chars) \cup Short(4, Chars \ {"#", "*", "@"})
           \cup {time \o rest : time \in {Stars, AtN}, rest \in Short(3, Chars)}
           \cup {a \o b \o c : a, b, c \in Lines}

MCOptions == {[system |-> FALSE, privileged |-> FALSE], [system |-> FALSE, privileged |-> TRUE],
              [system |-> TRUE, privileged |-> TRUE]}

-----------------------------------------------------------------------------

MCDaysIn == [k \in 0 .. 9 |-> CASE k % 2 = 0 -> 3 [] k = 3 -> 3 [] OTHER -> 2]

MCBefore == [k \in 0 .. 9 |-> MapThenSumSet(LAMBDA j : MCDaysIn[j], 0 .. k - 1)]

MCFirstDays == {<<0, 3>>, <<1, 1>>, <<3, 3>>}

MCSpecs == {five_fields(mi, h, dom, mon, dow) :
              mi \in {Only(1), Star(0 .. 1)}, h \in {Only(0), Only(1), Star(0 .. 1)},
              dom \in {Only(1), Only(3), Field({}, FALSE), Star({1, 2, 3})},
              mon \in {Only(2), Star({1, 2})},
              dow \in {Only(1), Only(2), Field({}, FALSE), Star({0, 1, 2})}}
           \cup {shortcut(n) : n \in {"yearly", "weekly", "hourly"}}

-----------------------------------------------------------------------------

Today == Moment(0, 1, 0, 0)

NoSearch == result = "off" /\ spec = Daily /\ after = Today /\ reached = Today

NoFile == data = << >> /\ pc = "skip" /\ options = [system |-> FALSE, privileged |-> FALSE]

MCInit == /\ Init /\ InitList
          /\ NoSearch \/ (NoFile /\ InitSearch)

MCNext == \/ result = "off" /\ tokens = 0 /\ Next /\ UNCHANGED <<listVars, search>>
          \/ result = "off" /\ NoFile /\ NextList /\ UNCHANGED <<vars, search>>
          \/ NextSearch /\ UNCHANGED <<vars, listVars>>

MCSpec == MCInit /\ [][MCNext]_<<vars, listVars, search>>
=============================================================================
