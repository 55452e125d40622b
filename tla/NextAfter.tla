----------------------------- MODULE NextAfter ------------------------------
(***************************************************************************)
(* When a schedule matches, and its next_after (schedule.rs), which        *)
(* searches the calendar jump by jump.  The months of the calendar are     *)
(* counted from some January on.                                           *)
(***************************************************************************)
EXTENDS Integers

CONSTANTS
    Months, WeekDays, Hours, Minutes, \* per year, week, day, hour
    LastMonth, DaysIn, Before, \* the months, their days, and the days before each
    FirstDays, Years,       \* where a search begins, and how far it looks
    Specs                   \* what is searched for

ASSUME CalendarAssumption ==
    /\ {Months, WeekDays, Hours, Minutes} \subseteq Nat \ {0} /\ {LastMonth, Years} \subseteq Nat
    /\ DaysIn \in [0 .. LastMonth -> Nat \ {0}] /\ Before \in [0 .. LastMonth -> Nat]
    /\ \A k \in 1 .. LastMonth : Before[k] = Before[k - 1] + DaysIn[k - 1]
    /\ \A f \in FirstDays : f[1] \in Nat /\ f[1] + Months * Years < LastMonth /\ f[2] \in 1 .. DaysIn[f[1]]

VARIABLES
    result,                 \* "searching", "found" or "none"
    spec, after,            \* the schedule and the moment asked for
    reached                 \* t, how far the search is

search == <<result, spec, after, reached>>

-----------------------------------------------------------------------------
(* A schedule: the sets of its fields, and whether they began with a star. *)

Field(S, star) == [set |-> S, star |-> star]
Star(S) == Field(S, TRUE)
Only(n) == Field({n}, FALSE)

AllDays   == 1 .. 31
AllMonths == 1 .. Months
AllDows   == 0 .. WeekDays - 1
AllHours  == 0 .. Hours - 1
AllMinutes == 0 .. Minutes - 1

\* load_schedule: the last day of the field is the first of the week again.
five_fields(mi, h, dom, mon, dow) ==
    [minutes |-> mi.set, hours |-> h.set, dom |-> dom.set, months |-> mon.set,
     dow |-> (dow.set \ {WeekDays}) \cup {x \in {0} : WeekDays \in dow.set},
     minute_star |-> mi.star, hour_star |-> h.star, dom_star |-> dom.star, dow_star |-> dow.star]

Daily == [minutes |-> {0}, hours |-> {0}, dom |-> AllDays, months |-> AllMonths, dow |-> AllDows,
          minute_star |-> FALSE, hour_star |-> FALSE, dom_star |-> FALSE, dow_star |-> FALSE]

shortcut(name) ==
    CASE name = "yearly"  -> [Daily EXCEPT !.dom = {1}, !.months = {1}, !.dow_star = TRUE]
      [] name = "monthly" -> [Daily EXCEPT !.dom = {1}, !.dow_star = TRUE]
      [] name = "weekly"  -> [Daily EXCEPT !.dow = {0}, !.dom_star = TRUE]
      [] name = "daily"   -> Daily
      [] name = "hourly"  -> [Daily EXCEPT !.hours = AllHours, !.hour_star = TRUE]

is_wild(s) == s.minute_star \/ s.hour_star

\* A moment is a minute m of an hour h of the day d of the month k of the calendar.
Moment(k, d, h, m) == [k |-> k, d |-> d, h |-> h, m |-> m]

Moments ==
    UNION {[k : {k}, d : 1 .. DaysIn[k], h : AllHours, m : AllMinutes] : k \in 0 .. LastMonth}

month(x)   == (x.k % Months) + 1
weekday(x) == (Before[x.k] + x.d) % WeekDays

day_matches(s, x) ==
    IF s.dom_star \/ s.dow_star THEN x.d \in s.dom /\ weekday(x) \in s.dow
    ELSE x.d \in s.dom \/ weekday(x) \in s.dow

matches(s, x) ==
    x.m \in s.minutes /\ x.h \in s.hours /\ month(x) \in s.months /\ day_matches(s, x)

-----------------------------------------------------------------------------
(* next_after.                                                             *)

Minute(x) == ((Before[x.k] + x.d) * Hours + x.h) * Minutes + x.m

NextDay(x) == IF x.d < DaysIn[x.k] THEN Moment(x.k, x.d + 1, 0, 0) ELSE Moment(x.k + 1, 1, 0, 0)

NextHour(x) == IF x.h + 1 < Hours THEN Moment(x.k, x.d, x.h + 1, 0) ELSE NextDay(x)

NextMinute(x) == IF x.m + 1 < Minutes THEN [x EXCEPT !.m = @ + 1] ELSE NextHour(x)

\* checked_add_months: the last day of the month if there is no such day.
limit == LET k == after.k + Months * Years
         IN  [after EXCEPT !.k = k, !.d = IF @ > DaysIn[k] THEN DaysIn[k] ELSE @]

InTime == Minute(reached) <= Minute(limit)

Jump(x) == reached' = x /\ UNCHANGED <<result, spec, after>>

SkipMonth == /\ result = "searching" /\ InTime
             /\ month(reached) \notin spec.months
             /\ Jump(Moment(reached.k + 1, 1, 0, 0))

\* Slip: the next day is looked at from the same time on.
SkipDayOnly == /\ result = "searching" /\ InTime
               /\ month(reached) \in spec.months /\ ~day_matches(spec, reached)
               /\ Jump([NextDay(reached) EXCEPT !.h = reached.h, !.m = reached.m])

SkipDay == /\ result = "searching" /\ InTime
           /\ month(reached) \in spec.months /\ ~day_matches(spec, reached)
           /\ Jump(NextDay(reached))

SkipHour == /\ result = "searching" /\ InTime
            /\ month(reached) \in spec.months /\ day_matches(spec, reached) /\ reached.h \notin spec.hours
            /\ Jump(NextHour(reached))

SkipMinute == /\ result = "searching" /\ InTime
              /\ month(reached) \in spec.months /\ day_matches(spec, reached) /\ reached.h \in spec.hours
              /\ reached.m \notin spec.minutes
              /\ Jump(NextMinute(reached))

EndSearch ==
    /\ result = "searching"
    /\ \/ InTime /\ matches(spec, reached) /\ result' = "found"
       \/ ~InTime /\ result' = "none"
    /\ UNCHANGED <<spec, after, reached>>

InitSearch ==
    /\ spec \in Specs
    /\ after \in {Moment(f[1], f[2], h, m) : f \in FirstDays, h \in AllHours, m \in AllMinutes}
    /\ reached = NextMinute(after)
    /\ result = "searching"

NextSearch == SkipMonth \/ SkipDay \/ SkipHour \/ SkipMinute \/ EndSearch

SearchSpec == InitSearch /\ [][NextSearch]_search

-----------------------------------------------------------------------------

Unmatched(n) ==
    \A x \in Moments : Minute(after) < Minute(x) /\ Minute(x) < n => ~matches(spec, x)

\* INVARIANT  "The first wall-clock minute strictly after `after` at which this schedule
\* fires" (:281), or none up to the limit: no jump passes a match.
NextIsFirst ==
    /\ result = "found" => matches(spec, reached) /\ Minute(after) < Minute(reached) /\ Unmatched(Minute(reached))
    /\ result = "none" => Unmatched(Minute(limit) + 1)
=============================================================================
