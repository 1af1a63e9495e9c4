----------------------------- MODULE MCCalendar -----------------------------
(* Small instances of Calendar for TLC. *)
EXTENDS Calendar

\* A year of months of 2 and 4 days, the next of 4 and 2, and the years around them.
FirstDays == <<-6, -2, 0, 2, 6, 10, 12, 14, 18>>
MCFirst == [k \in -2 .. 6 |-> FirstDays[k + 3]]
MCDays == 0 .. 6
MCPicks == {3}

\* Noon, UTC, on the fourth of the second month; and the midnight after it, when
\* it is New Year's day to the east and still the year's last night to the west.
MCClock == {5 * 24 + 12, 6 * 24}

\* Clocks go forward at midnight, as they do in Egypt and Lebanon, and in Chile
\* and Cuba: the hour after midnight does not exist.
MidnightZones == {[at |-> 3 * 24 - 2, before |-> 2, after |-> 3],
                  [at |-> 3 * 24 + 4, before |-> -4, after |-> -3]}
=============================================================================
