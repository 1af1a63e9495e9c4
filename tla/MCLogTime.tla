------------------------------ MODULE MCLogTime ------------------------------
(* A small instance of LogTime, and in it of Calendar, for TLC: a day of six
   hours of four minutes. *)
EXTENDS LogTime, FiniteSets

\* A year of months of 2 and 4 days, the next of 4 and 2, and the years around them.
FirstDays == <<-6, -2, 0, 2, 6, 10, 12, 14, 18>>
MCFirst == [k \in -2 .. 6 |-> FirstDays[k + 3]]
MCDays == 0 .. 6
MCPicks == {3}

\* The last minute of a year, and the midnight after it, in UTC.
MCClock == {6 * 24 - 1, 6 * 24}

\* Clocks go forward by an hour at noon on the first of a month, and back by one
\* in the small hours of New Year's day.
MCZones == {[at |-> 2 * 24 + 12, before |-> -4, after |-> 0],
            [at |-> 6 * 24 + 8 + 12, before |-> -12, after |-> -16]}

\* Clocks go back from one in the morning to midnight, as they did in Jordan: the
\* hour after midnight comes twice.
TwiceZones == {[at |-> 6 * 24 - 8, before |-> 12, after |-> 8]}

\* The theorems that ask for midnights speak of the first zones, and not of the last.
ASSUME ZonesAreTold == /\ \A z \in MCZones : KeepsMidnights(z)
                       /\ \A z \in TwiceZones : ~KeepsMidnights(z)

\* Midnight, a minute the clocks skip, one they show twice, and the last of a day.
MCStarts == {0, 5, 9, 23}

Number(n, unit) == [n |-> n, unit |-> unit]
MCLengths ==
  \* 0:00, 0:03, 1:02, 1:2, 1:04, 6:00, 6:01, 7:00, one that wraps and one too large
  {[form |-> "clock", h |-> p[1], m |-> p[2], mm |-> p[3]] :
     p \in {<<0, 0, "00">>, <<0, 3, "03">>, <<1, 2, "02">>, <<1, 2, "2">>, <<1, 4, "04">>,
            <<6, 0, "00">>, <<6, 1, "01">>, <<7, 0, "00">>, <<32, 1, "01">>, <<1000, 0, "00">>}}
  \* 3m, 0.5m, 1h2m, 1h2, 1.5h, 3m2, 1h1m1, 6h, 6h0.5m, 100h
  \cup {[form |-> "units", parts |-> p] :
     p \in {<<Number(6, "m")>>, <<Number(1, "m")>>, <<Number(2, "h"), Number(4, "m")>>,
            <<Number(2, "h"), Number(4, "none")>>, <<Number(3, "h")>>,
            <<Number(6, "m"), Number(4, "none")>>,
            <<Number(2, "h"), Number(2, "m"), Number(2, "none")>>,
            <<Number(12, "h")>>, <<Number(12, "h"), Number(1, "m")>>, <<Number(200, "h")>>}}
  \* 0, 0.5, 2, 6, 6.5, 500
  \cup {[form |-> "plain", n |-> n] : n \in {0, 1, 4, 12, 13, 1000}}
  \cup {[form |-> "blank"], [form |-> "other"]}

(* Bound: two fields of a filter, at most, name what none of its defaults does. *)
Touched == {x \in DOMAIN sig \ {"mode"} : \A t \in MCClock : sig[x] # DefaultFilter(t)[x]}
FewTouched == screen = "history" => Cardinality(Touched) <= 2
=============================================================================
