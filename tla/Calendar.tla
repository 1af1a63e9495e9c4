------------------------------ MODULE Calendar ------------------------------
(***************************************************************************)
(* The history's filter: internal/tracking/period.go, and the filter's way *)
(* through the page's signals and its address, internal/web                *)
(* (handlers_history.go, view/history.go).                                 *)
(*                                                                         *)
(* An instant is a count of the shortest time told apart, 24 of which make *)
(* a day: an hour here, and a minute in LogTime.  A day is known by its    *)
(* number, a month and a year by theirs, so a text in one of the three     *)
(* layouts is a number; day 0 is a Monday.  The company a filter may       *)
(* narrow to rides along unchanged and is left out.                        *)
(***************************************************************************)
EXTENDS Integers

CONSTANTS
  First,         \* the number of each month's first day
  MonthsInYear,
  Days,          \* bound of the model: the days a filter may name
  Picks,         \* of those, the ones picked by hand
  Zones,         \* time zones, each with one change of its offset from UTC
  Clock,         \* readings of the wall clock
  None           \* a field left blank, and no period

ASSUME CalendarAssumption ==
  /\ MonthsInYear \in Nat \ {0} /\ Days \subseteq Int /\ Picks \subseteq Days /\ Clock \subseteq Int
  /\ Zones \subseteq [at : Int, before : Int, after : Int]
  /\ None \notin Int \cup {"day", "month", "year", "range"} \cup [from : Int, to : Int]

\* The months follow one another, and are listed for a year to either side of
\* the years the filter may name.
InMonth(n, k) == k \in DOMAIN First /\ k + 1 \in DOMAIN First /\ First[k] <= n /\ n < First[k + 1]
ASSUME MonthsAssumption ==
  /\ \A k \in DOMAIN First : k \in Int /\ First[k] \in Int
  /\ \A j, k \in DOMAIN First : j < k => First[j] < First[k] /\ j .. k \subseteq DOMAIN First
  /\ \A n \in Days : \E k \in DOMAIN First :
       LET y == k \div MonthsInYear
       IN InMonth(n, k) /\ {MonthsInYear * (y - 1), MonthsInYear * (y + 2)} \subseteq DOMAIN First

\* The day of a reading of the clock, the day before and the first of its month
\* are among the days the filter may name.
ASSUME ClockAssumption ==
  \A z \in Zones, t \in Clock : \A offset \in {z.before, z.after} :
    LET n == (t + offset) \div 24
    IN {n - 1, n} \subseteq Days /\ \E k \in DOMAIN First : InMonth(n, k) /\ First[k] \in Days

VARIABLES
  zone,   \* the user's
  now,    \* the wall clock
  sig,    \* the filter as the page's signals
  url,    \* the filter as the page's address
  shown   \* the period the results are for
vars == <<zone, now, sig, url, shown>>

(***************************************************************************)
(* Civil time, as package time reckons it.                                 *)
(***************************************************************************)
Hours == 24
Offset(t) == IF t < zone.at THEN zone.before ELSE zone.after
Local(t) == t + Offset(t)
DayOf(t) == Local(t) \div Hours
HourOf(t) == Local(t) % Hours
MonthOf(n) == CHOOSE k \in DOMAIN First : First[k] <= n /\ n < First[k + 1]
FirstOf(n) == First[MonthOf(n)]

\* time.Date: the instant of hour h of day n.  It looks the offset up as if the
\* local hour were UTC, and once more at the instant that gives.  An hour the
\* zone skips becomes the one before or after it.
Date(n, h) == LET local == Hours * n + h IN local - Offset(local - Offset(local))

\* Mutant: days are added as 24 hours.
AddDaysOfHours(t, d) == t + Hours * d

\* Time.AddDate keeps the hour of the day, and counts on from an overlong month.
AddDays(t, d) == Date(DayOf(t) + d, HourOf(t))
AddMonths(t, m) == LET n == DayOf(t) IN Date(First[MonthOf(n) + m] + n - FirstOf(n), HourOf(t))

\* A zone where each day has one midnight for time.Date to find: none is in the
\* hour its clocks repeat or skip, nor where a time of that hour is moved to; and
\* they move by less than half a day.
KeepsMidnights(z) ==
  LET lost == z.after - z.before
      unsafe == IF lost > 0 THEN z.at + z.before - lost + 1 .. z.at + z.after + lost - 1
                            ELSE z.at + z.after .. z.at + z.before - 1
  IN -(Hours \div 2) < lost /\ \A l \in unsafe : l % Hours # 0

(***************************************************************************)
(* Filters.                                                                *)
(***************************************************************************)
\* The fields a mode reads.
Reads == [day |-> {"day"}, month |-> {"month"}, year |-> {"year"}, range |-> {"from", "to"}]
Modes == DOMAIN Reads

DefaultFilter(t) == LET n == DayOf(t) IN
  [mode |-> "month", day |-> n, month |-> MonthOf(n), year |-> MonthOf(n) \div MonthsInYear,
   from |-> DayOf(Date(FirstOf(n), 0)), to |-> n]

\* HistorySignals.Filter: a blank field takes its default around now.
Filter(s) == [x \in DOMAIN s |-> IF s[x] = None THEN DefaultFilter(now)[x] ELSE s[x]]

\* Mutant: a range's last day is not written.
HistoryQueryOpen(f) == [x \in DOMAIN f |-> IF x \in {"mode"} \cup (Reads[f.mode] \ {"to"}) THEN f[x] ELSE None]

HistoryQuery(f) == [x \in DOMAIN f |-> IF x \in {"mode"} \cup Reads[f.mode] THEN f[x] ELSE None]

Span(from, to) == [from |-> from, to |-> to]

\* Mutant: a range that ends before it starts is a period.
BetweenUnchecked(from, to) == Span(from, AddDays(to, 1))

\* A range's period: its last day is in it, and it ends no earlier than it starts.
Between(from, to) == IF to < from THEN None ELSE Span(from, AddDays(to, 1))

\* Filter.Period
Period(f) ==
  CASE f.mode = "day" -> LET d == Date(f.day, 0) IN Span(d, AddDays(d, 1))
    [] f.mode = "month" -> LET m == Date(First[f.month], 0) IN Span(m, AddMonths(m, 1))
    [] f.mode = "year" -> LET y == Date(First[MonthsInYear * f.year], 0) IN Span(y, AddMonths(y, MonthsInYear))
    [] f.mode = "range" -> Between(Date(f.from, 0), Date(f.to, 0))

\* Mutant: a range's length in days is truncated.
WholeDaysCut(p) == (p.to - p.from) \div Hours

\* math.Round of a length in days.
WholeDays(p) == (p.to - p.from + Hours \div 2) \div Hours

Shift(f, n) ==
  LET p == Period(f) IN
  CASE f.mode = "day" -> [f EXCEPT !.day = DayOf(AddDays(p.from, n))]
    [] f.mode = "month" -> [f EXCEPT !.month = MonthOf(DayOf(AddMonths(p.from, n)))]
    [] f.mode = "year" -> [f EXCEPT !.year = MonthOf(DayOf(AddMonths(p.from, n * MonthsInYear))) \div MonthsInYear]
    [] f.mode = "range" -> [f EXCEPT !.from = DayOf(AddDays(p.from, n * WholeDays(p))),
                                     !.to = DayOf(AddDays(p.to, n * WholeDays(p) - 1))]

\* Mutant: last month is a month before now, not before its first day.
LastMonthOfNow == MonthOf(DayOf(AddMonths(now, -1)))

LastMonth == MonthOf(DayOf(AddMonths(Date(FirstOf(DayOf(now)), 0), -1)))

Monday == AddDays(now, -(DayOf(now) % 7))

PresetFilter(name, f) ==
  CASE name = "today" -> [f EXCEPT !.mode = "day", !.day = DayOf(now)]
    [] name = "week" -> [f EXCEPT !.mode = "range", !.from = DayOf(Monday), !.to = DayOf(AddDays(Monday, 6))]
    [] name = "month" -> [f EXCEPT !.mode = "month", !.month = MonthOf(DayOf(now))]
    [] name = "last-month" -> [f EXCEPT !.mode = "month", !.month = LastMonth]
    [] name = "year" -> [f EXCEPT !.mode = "year", !.year = MonthOf(DayOf(now)) \div MonthsInYear]
Presets == {"today", "week", "month", "last-month", "year"}

(***************************************************************************)
(* Requests.                                                               *)
(***************************************************************************)
Months == {MonthOf(n) : n \in Days}
Years == {k \div MonthsInYear : k \in Months}
Filters == [mode : Modes, day : Days, month : Months, year : Years, from : Days, to : Days]
Signals == [mode : Modes, day : Days \cup {None}, month : Months \cup {None},
            year : Years \cup {None}, from : Days \cup {None}, to : Days \cup {None}]

\* GetHistory: the page for the filter in the address.
Render(q) == /\ url' = q
             /\ sig' = Filter(q)
             /\ shown' = Period(Filter(q))

\* GetHistoryResults: the results for f, its address, and signals when f is not
\* what the page sent.
Answer(f, s) == /\ url' = HistoryQuery(f)
                /\ sig' = s
                /\ shown' = Period(f)
                /\ f \in Filters /\ sig' \in Signals
                /\ UNCHANGED <<zone, now>>

BlankQuery == [x \in {"mode", "day", "month", "year", "from", "to"} |-> None]

Init == /\ zone \in Zones /\ now \in Clock
        /\ url = BlankQuery
        /\ sig = Filter(BlankQuery)
        /\ shown = Period(Filter(BlankQuery))

\* The mode is changed, or an input of the mode's own is changed or cleared.
Change(x, v) == LET s == [sig EXCEPT ![x] = v] IN Answer(Filter(s), s)
Inputs(x) == CASE x = "month" -> Months [] x = "year" -> Years [] OTHER -> Picks
ChangeField ==
  \/ \E m \in Modes : Change("mode", m)
  \/ \E x \in Reads[sig.mode] : \E v \in Inputs(x) \cup {None} : Change(x, v)

PressPreset(name) == LET f == PresetFilter(name, Filter(sig)) IN Answer(f, f)

\* Previous and next; a filter that names no period stays where it is.
PressShift(n) ==
  LET f == Filter(sig) IN
  IF Period(f) = None THEN Answer(f, sig) ELSE Answer(Shift(f, n), Shift(f, n))

Reload == Render(url) /\ UNCHANGED <<zone, now>>

ClockMoves == now' \in Clock /\ UNCHANGED <<zone, sig, url, shown>>

Next == \/ ChangeField
        \/ \E name \in Presets : PressPreset(name)
        \/ \E n \in {-1, 1} : PressShift(n)
        \/ Reload \/ ClockMoves

Spec == Init /\ [][Next]_vars

-----------------------------------------------------------------------------
(***************************************************************************)
(* Properties.                                                             *)
(***************************************************************************)
TypeOK == /\ zone \in Zones /\ now \in Clock
          /\ sig \in Signals
          /\ DOMAIN url = DOMAIN sig
          /\ shown # None => shown.from < shown.to

Day(n) == Period([mode |-> "day", day |-> n])
Month(k) == Period([mode |-> "month", month |-> k])
Year(y) == Period([mode |-> "year", year |-> y])

\* Days meet, with no hour between them and none in both, across a change of
\* the clocks too; and a month or a year is from its first day to its last.
PeriodsTile ==
  /\ \A n \in Days : Day(n).to = Day(n + 1).from
  /\ \A k \in Months : Month(k) = Span(Day(First[k]).from, Day(First[k + 1] - 1).to)
  /\ \A y \in Years : Year(y) = Span(Month(MonthsInYear * y).from,
                                     Month(MonthsInYear * (y + 1) - 1).to)

\* Next begins where the period ends and previous ends where it begins; and one
\* after the other is back at the filter it started from.
ShiftsMeet ==
  LET f == Filter(sig)
      p == Period(f)
  IN p # None => /\ Period(Shift(f, 1)).from = p.to
                 /\ Period(Shift(f, -1)).to = p.from
                 /\ \A n \in {-1, 1} : Shift(Shift(f, n), -n) = f

\* A quick period holds the present, a week runs from Monday to Sunday, and last
\* month ends where this one begins.
PresetsHoldNow ==
  \A name \in Presets :
    LET f == PresetFilter(name, Filter(sig))
        p == Period(f)
    IN IF name = "last-month" THEN p.to = Month(MonthOf(DayOf(now))).from
       ELSE /\ p.from <= now /\ now < p.to
            /\ name = "week" => f.from % 7 = 0 /\ f.to = f.from + 6

\* The address the results handler leaves names the period on screen, whatever
\* the time is when it is opened: a reload or a bookmark shows the same.
AddressNamesPeriod == url # BlankQuery => Period(Filter(url)) = shown
=============================================================================
