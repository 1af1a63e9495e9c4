------------------------------ MODULE History ------------------------------
(***************************************************************************)
(* The history screen and its export: internal/web (handlers_history,      *)
(* handlers_export, view/history, view/report) over the tables of Tracking *)
(* and the queries Totals and Entries of internal/tracking/repo.go.        *)
(*                                                                         *)
(* One request renders the page.  It reads the clock once, the totals in   *)
(* one query and the rows in another, and statements run in between.       *)
(*                                                                         *)
(* The tables and the queries reckon in whole seconds, the page in the     *)
(* clock's own unit, of which the queries are given what is whole seconds. *)
(***************************************************************************)
EXTENDS Tracking, Functions

CONSTANTS
  Midnights,  \* the instants a period may begin or end at
  Second,     \* time.Second, in units of Go's clock
  HalfMinute, \* half a minute, in seconds
  Limit       \* historyLimit

ASSUME PeriodAssumption == Midnights \subseteq Int
ASSUME SecondAssumption == Second \in Nat \ {0} /\ HalfMinute \in Nat \ {0} /\ Limit \in Nat \ {0}

VARIABLE page  \* the request rendering the history
historyVars == <<companies, entries, now, call, page>>

Period == [from : Midnights, to : Midnights]
Periods == {p \in Period : p.from < p.to}
Everyone == 0  \* the company id that narrows nothing

\* Seconds in Go's unit, and the seconds of an instant, rounded down.
Nanos(s) == Second * s
Unix(t) == t \div Second
Minute == Nanos(2 * HalfMinute)

\* What the clock may be read as while it shows the second now.
Readings == {Nanos(now) + f : f \in 0 .. Second - 1}
Instants == {Nanos(t) + f : t \in Times, f \in 0 .. Second - 1}

(***************************************************************************)
(* The two queries.                                                        *)
(***************************************************************************)
EarlierOf(a, b) == IF a < b THEN a ELSE b

\* coalesce(stopped_at, now): a timer that runs ends at the second now is in.
Ended(e, at) == IF e.stopped = None THEN Unix(at) ELSE e.stopped

\* Mutant: what ended before the period is not left out.
OverlapsFromBefore(e, p, at) == ~e.deleted /\ e.started < p.to

Overlaps(e, p, at) == ~e.deleted /\ e.started < p.to /\ Ended(e, at) > p.from

Overlapping(u, p, k, at) ==
  {i \in DOMAIN entries : /\ entries[i].user = u
                          /\ Overlaps(entries[i], p, at)
                          /\ k # Everyone => entries[i].company = k}

\* Mutant: the end is not clipped to the period's.
SecondsToTheEnd(e, p, at) == Ended(e, at) - LaterOf(e.started, p.from)

\* What the SQL adds for an entry: min(coalesce(stopped_at, now), to) less
\* max(started_at, from), with no floor at zero.
Seconds(e, p, at) == EarlierOf(Ended(e, at), p.to) - LaterOf(e.started, p.from)

Totals(u, p, k, at) ==
  LET over == Overlapping(u, p, k, at)
      of(c) == {i \in over : entries[i].company = c}
  IN [c \in {entries[i].company : i \in over} |->
        [entries |-> Cardinality(of(c)),
         duration |-> Nanos(SumFunction([i \in of(c) |-> Seconds(entries[i], p, at)]))]]

\* ORDER BY started_at DESC, id DESC
IsNewer(i, j) == \/ entries[i].started > entries[j].started
                 \/ entries[i].started = entries[j].started /\ i > j
Newest(ids) == CHOOSE s \in [1 .. Cardinality(ids) -> ids] :
                 \A m, n \in DOMAIN s : m < n => IsNewer(s[m], s[n])

(***************************************************************************)
(* What is made of them.                                                   *)
(***************************************************************************)
\* Entry.End: a timer that runs ends now, to the nanosecond.
End(e, at) == IF e.stopped = None THEN at ELSE Nanos(e.stopped)

\* Mutant: no floor at zero.
ClipWithoutFloor(p, start, end) == EarlierOf(end, Nanos(p.to)) - LaterOf(start, Nanos(p.from))

Clip(p, start, end) ==
  LET s == LaterOf(start, Nanos(p.from))
      e == EarlierOf(end, Nanos(p.to))
  IN IF e > s THEN e - s ELSE 0

Duration(e, p, at) == Clip(p, Nanos(e.started), End(e, at))

\* An EntryRow: when it ran, and its part inside the period.
Row(i, p, at) == [id |-> i, started |-> entries[i].started, running |-> IsRunning(i),
                  duration |-> Duration(entries[i], p, at)]

\* BuildHistory's sums over the per-company totals.
Entries(totals) == SumFunction([c \in DOMAIN totals |-> totals[c].entries])
Total(totals) == SumFunction([c \in DOMAIN totals |-> totals[c].duration])
RowsTotal(rows) == SumFunction([n \in DOMAIN rows |-> rows[n].duration])

\* Mutant: a minute begun counts as a whole one.
WholeMinutesBegun(d) == (d + Minute - 1) \div Minute

\* Nearest minute, half a minute up.
WholeMinutes(d) == (d + Nanos(HalfMinute)) \div Minute

\* The export: one read without a limit, and of each entry the minutes on its
\* line; an entry of no minutes gets none.
Report(u, p, k, at) ==
  LET over == Overlapping(u, p, k, at)
      minutes == [i \in over |-> WholeMinutes(Duration(entries[i], p, at))]
  IN [i \in {j \in over : minutes[j] # 0} |-> minutes[i]]

(***************************************************************************)
(* The request.                                                            *)
(***************************************************************************)
NoPage == [step |-> "none"]
Rows == Seq([id : Nat, started : Int, running : BOOLEAN, duration : Nat])

HistoryInit == Init /\ page = NoPage

\* GetHistory, or GetHistoryResults with the filter it has moved.
Open(u, p, k, at) ==
  /\ page.step = "none"
  /\ page' = [step |-> "totals", user |-> u, period |-> p, company |-> k, at |-> at]
  /\ UNCHANGED vars

ReadTotals ==
  /\ page.step = "totals"
  /\ page' = [step |-> "rows", user |-> page.user, period |-> page.period,
               company |-> page.company, at |-> page.at, torn |-> FALSE,
               totals |-> Totals(page.user, page.period, page.company, page.at)]
  /\ UNCHANGED vars

\* Mutant: the rows are reckoned by a second reading of the clock.
ReadRowsNow ==
  /\ page.step = "rows"
  /\ \E at \in Readings :
       LET newest == Newest(Overlapping(page.user, page.period, page.company, at))
       IN page' = [step |-> "shown", at |-> page.at, torn |-> page.torn, totals |-> page.totals,
                   rows |-> [n \in 1 .. EarlierOf(Limit, Len(newest)) |->
                               Row(newest[n], page.period, at)]]
  /\ UNCHANGED vars

ReadRows ==
  /\ page.step = "rows"
  /\ LET newest == Newest(Overlapping(page.user, page.period, page.company, page.at))
     IN page' = [step |-> "shown", at |-> page.at, torn |-> page.torn, totals |-> page.totals,
                 rows |-> [n \in 1 .. EarlierOf(Limit, Len(newest)) |->
                             Row(newest[n], page.period, page.at)]]
  /\ UNCHANGED vars

\* Either read fails: the request ends with a message and no results.
ReadFails == page.step \in {"totals", "rows"} /\ page' = NoPage /\ UNCHANGED vars

\* Anyone's statement, or the clock, between the steps of the request.  Of a
\* page once answered the process keeps nothing.
Meanwhile ==
  /\ Next
  /\ page' = IF page.step = "shown" THEN NoPage
             ELSE IF page.step = "rows" /\ entries' # entries THEN [page EXCEPT !.torn = TRUE]
             ELSE page

HistoryNext ==
  \/ \E u \in Users, p \in Periods, k \in {Everyone} \cup Ids(companies), at \in Readings :
       Open(u, p, k, at)
  \/ ReadTotals \/ ReadRows \/ ReadFails
  \/ Meanwhile

HistorySpec == HistoryInit /\ [][HistoryNext]_historyVars

-----------------------------------------------------------------------------
(***************************************************************************)
(* Properties.                                                             *)
(***************************************************************************)
IsTotals(t) == /\ DOMAIN t \subseteq DOMAIN companies
               /\ t \in [DOMAIN t -> [entries : Nat, duration : Int]]

HistoryTypeOK ==
  \/ page = NoPage
  \/ page \in [step : {"totals"}, user : Users, period : Periods, company : Nat, at : Instants]
  \/ /\ page \in [step : {"rows"}, user : Users, period : Periods, company : Nat, at : Instants,
                  torn : BOOLEAN, totals : {page.totals}]
     /\ IsTotals(page.totals)
  \/ /\ page \in [step : {"shown"}, at : Instants, torn : BOOLEAN, totals : {page.totals}, rows : Rows]
     /\ IsTotals(page.totals) /\ Len(page.rows) <= Limit

\* A timer is ahead of a reading of the clock when it started after it: the
\* clock stepped back, or the timer was started after a request read it.
Ahead(e, at) == e.stopped = None /\ Nanos(e.started) > at

\* Rows that sum to what is counted of them, but for the part of a second each
\* running timer is into: the rows have it and the count has not.
ToTheSecond(counted, rows, timers) == counted <= rows /\ rows <= counted + (Second - 1) * timers

\* The totals are read and no write has fallen since: the rows of the same tables
\* are those the totals were made of, all of them, with or without a limit.
Together == page.step = "rows" /\ ~page.torn
Matching == Overlapping(page.user, page.period, page.company, page.at)

\* A total and its rows say the same: Totals, which clips in SQL, counts for
\* each company what Clip gives the entries listed, to the second.
TotalsMatchRows ==
  Together => \A c \in DOMAIN page.totals :
    LET of == {i \in Matching : entries[i].company = c}
    IN ToTheSecond(page.totals[c].duration,
                   SumFunction([i \in of |-> Duration(entries[i], page.period, page.at)]),
                   Cardinality({i \in of : IsRunning(i)}))

\* What holds of that in this code: where no timer is ahead of the clock.
TotalsMatchRowsOnTime ==
  Together /\ (\A i \in Matching : ~Ahead(entries[i], page.at)) => TotalsMatchRows

\* Periods that meet share no time and lose none: what an entry adds to the
\* totals of two of them is what it adds to the total of both together.
Counted(e, p, at) == IF Overlaps(e, p, at) THEN Seconds(e, p, at) ELSE 0
PeriodsMeet ==
  \A at \in Readings, i \in DOMAIN entries, a, b, c \in Midnights :
    a < b /\ b < c /\ ~Ahead(entries[i], at) =>
      Counted(entries[i], [from |-> a, to |-> b], at) + Counted(entries[i], [from |-> b, to |-> c], at)
        = Counted(entries[i], [from |-> a, to |-> c], at)

\* A page whose two reads met the same rows adds up: the list is short only
\* when limited, and otherwise the totals are its sum, to the second.
PageAddsUp ==
  LET listed == Len(page.rows)
      running == {n \in DOMAIN page.rows : page.rows[n].running}
      ahead == \E n \in running : Nanos(page.rows[n].started) > page.at
  IN page.step = "shown" /\ ~page.torn /\ ~ahead =>
       IF listed < Entries(page.totals)
       THEN listed = Limit
       ELSE /\ listed = Entries(page.totals)
            /\ ToTheSecond(Total(page.totals), RowsTotal(page.rows), Cardinality(running))

\* The report's header, the sum of its lines, is within half a minute an entry
\* of the page's total; the part of a second it counts more never makes a minute.
ReportIsNear ==
  Together /\ (\A i \in Matching : ~Ahead(entries[i], page.at)) =>
    LET lines == Report(page.user, page.period, page.company, page.at)
        off == Minute * SumFunction(lines) - Total(page.totals)
    IN LaterOf(2 * off, -2 * off) <= Minute * Cardinality(Matching)
=============================================================================
