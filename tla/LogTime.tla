------------------------------- MODULE LogTime -------------------------------
(***************************************************************************)
(* Time logged by hand: the log-time dialog (internal/web: handlers_log.go *)
(* and view/logdialog), the reading of what is typed into it               *)
(* (internal/tracking/logged.go), and the way from its notice to the       *)
(* history page of Calendar, whose state this module shares.               *)
(*                                                                         *)
(* The unit of time, Calendar's hour, is here a minute; an hour has        *)
(* HourLen of them.  A length is typed as a text, which is known by its    *)
(* form and its numbers, counted in halves; read, it is a number of        *)
(* half-minutes, rounded at the end.  Which company it is for, and the     *)
(* row that is written, are Tracking's.                                    *)
(***************************************************************************)
EXTENDS Calendar, Sequences, Functions

CONSTANTS
  HourLen,     \* minutes in an hour; a day has Hours \div HourLen of these
  MaxInt,      \* the largest number Atoi reads
  Width,       \* values of a time.Duration, in half-minutes
  Lengths,     \* texts typed as a length
  Starts,      \* times of day picked as a start
  Bad          \* a day or a time that does not parse

\* A day is a whole number of hours, and a number or a length may be one.
ASSUME LogAssumption ==
  /\ HourLen \in Nat \ {0} /\ Hours % HourLen = 0
  /\ MaxInt \in Nat /\ Hours <= MaxInt /\ Width \in Nat /\ 2 * Hours < Width \div 2
  /\ Starts \subseteq 0 .. Hours - 1
  /\ Bad \notin Int \cup {None}
  /\ \A x \in Lengths :
       \/ x.form = "clock" /\ x.h \in Nat /\ x.m \in Nat
       \/ x.form = "units" /\ x.parts \in Seq([n : Nat, unit : {"h", "m", "none"}])
       \/ x.form = "plain" /\ x.n \in Nat
       \/ x.form \in {"blank", "other"}

VARIABLES
  screen,   \* the page open: "history", or "timers" with its dialog
  dialog,   \* the day the log-time dialog was opened on, or None
  pending,  \* what PostLog has read and hands to the service
  notice,   \* the entry just added, with the day its link leads to
  sought    \* the start of the entry a followed link is about
logVars == <<screen, dialog, pending, notice, sought>>
allVars == <<vars, logVars>>

(***************************************************************************)
(* ParseDuration.  A text is blank, a clock reading h:mm, numbers with     *)
(* units (the last may go without), a plain number of hours, or other.     *)
(***************************************************************************)
MaxLogged == Hours
Hour == 2 * HourLen
Minute == 2
Invalid == -1
TooLong == -2

\* int64 arithmetic.
Wrap(n) == ((n + Width \div 2) % Width) - Width \div 2

\* Mutant: the hours of a clock reading are multiplied before they are compared.
ClockReadingWraps(x) ==
  IF x.h > MaxInt \/ Len(x.mm) # 2 \/ x.m >= HourLen THEN Invalid
  ELSE Wrap(Hour * x.h) + Minute * x.m

ClockReading(x) ==
  IF x.h > MaxInt \/ Len(x.mm) # 2 \/ x.m >= HourLen THEN Invalid
  ELSE IF x.h > MaxLogged \div HourLen THEN TooLong
  ELSE Wrap(Hour * x.h) + Minute * x.m

\* Numbers in halves, with their units: time.ParseDuration refuses one without a
\* unit, and a sum that overflows.
UnitLength == [h |-> Hour \div 2, m |-> Minute \div 2]
Sum(parts) == SumFunction([i \in DOMAIN parts |-> parts[i].n * UnitLength[parts[i].unit]])
WithUnits(x) ==
  LET bare == {i \in DOMAIN x.parts : x.parts[i].unit = "none"}
      spelt == [i \in DOMAIN x.parts |-> IF i \in bare THEN [x.parts[i] EXCEPT !.unit = "m"] ELSE x.parts[i]]
      hours == \E i \in DOMAIN x.parts : x.parts[i].unit = "h"
  IN IF (bare # {} /\ ~hours) \/ Sum(spelt) >= Width \div 2 THEN Invalid ELSE Sum(spelt)

PlainHours(x) == IF x.n > 2 * (MaxLogged \div HourLen) THEN TooLong ELSE x.n * (Hour \div 2)

\* The length, not yet rounded; or how it is refused.
Parsed(x) == CASE x.form = "clock" -> ClockReading(x)
               [] x.form = "units" -> WithUnits(x)
               [] x.form = "plain" -> PlainHours(x)
               [] OTHER -> Invalid

ParseDuration(x) ==
  LET n == Parsed(x)
      d == (n + Minute \div 2) \div Minute
  IN IF n = TooLong \/ d > MaxLogged THEN TooLong ELSE IF d <= 0 THEN Invalid ELSE d

(***************************************************************************)
(* The dialog and its handlers.                                            *)
(***************************************************************************)
\* What the dialog's fields may hold: the day it came with, another or none; a
\* start, or none.
LogSignals == [duration : Lengths, date : {dialog, None, Bad} \cup Days, at : Starts \cup {None, Bad}]

Today == DayOf(now)

\* Mutant: what was picked is taken for UTC.
LogStartUTC(date, at, d) ==
  LET day == IF date = None THEN Today ELSE date IN
  CASE day = Bad \/ at = Bad -> None
    [] at = None -> IF day = Today THEN now - d ELSE None
    [] OTHER -> Hours * day + at

\* When a length of d began: at the start picked, or so that it ends now, if it
\* is for today; None when there is no telling.
LogStart(date, at, d) ==
  LET day == IF date = None THEN Today ELSE date IN
  CASE day = Bad \/ at = Bad -> None
    [] at = None -> IF day = Today THEN now - d ELSE None
    [] OTHER -> Date(day, at)

\* The timers page has no filter; a filter it does not show is kept blank.
BlankSignals == [BlankQuery EXCEPT !.mode = "month"]
Timers == screen = "timers"
Onward == UNCHANGED <<vars, screen, sought>>

GetDashboard == /\ screen = "history" /\ screen' = "timers"
                /\ url' = BlankQuery /\ sig' = BlankSignals /\ shown' = None
                /\ sought' = None
                /\ UNCHANGED <<zone, now, dialog, pending, notice>>

\* The history page is opened from the top bar.
OpenHistory == /\ Timers /\ pending = None
               /\ Render(BlankQuery)
               /\ screen' = "history" /\ dialog' = None /\ notice' = None
               /\ UNCHANGED <<zone, now, pending, sought>>

\* "See that day"
FollowNotice == /\ Timers /\ pending = None /\ notice # None
                /\ Render([BlankQuery EXCEPT !.mode = "day", !.day = notice.day])
                /\ screen' = "history" /\ dialog' = None /\ notice' = None
                /\ sought' = notice.start
                /\ UNCHANGED <<zone, now, pending>>

\* One notice at a time (a bound of the model): nothing reads an older one.
GetLogDialog == /\ Timers /\ dialog = None /\ notice = None
                /\ dialog' = Today
                /\ Onward /\ UNCHANGED <<pending, notice>>

GetCloseLogDialog == /\ Timers /\ dialog # None /\ pending = None
                     /\ dialog' = None
                     /\ Onward /\ UNCHANGED <<pending, notice>>

\* PostLog, up to the service.  A refusal leaves the dialog as it is.
PostLog(x, date, at) ==
  /\ Timers /\ dialog # None /\ pending = None
  /\ LET d == ParseDuration(x)
         start == LogStart(date, at, d)
     IN /\ d > 0 /\ start # None
        /\ pending' = [start |-> start, d |-> d, date |-> date, at |-> at, read |-> now]
  /\ Onward /\ UNCHANGED <<dialog, notice>>

\* Mutant: the link's day is the start's in UTC.
DayOfNoticeUTC(start) == start \div Hours

DayOfNotice(start) == DayOf(start)

\* Service.Log reads the clock anew, with a minute's grace; then the notice is
\* sent and the dialog taken away.
Log ==
  /\ Timers /\ pending # None
  /\ pending' = None
  /\ IF pending.start + pending.d > now + 1 THEN UNCHANGED <<dialog, notice>>
     ELSE /\ notice' = [start |-> pending.start, day |-> DayOfNotice(pending.start)]
          /\ dialog' = None
  /\ Onward

\* The history's own steps; but for a reload, they lead away from the link's day.
Browse == /\ screen = "history" /\ Next
          /\ sought' = IF <<url, sig>>' = <<url, sig>> THEN sought ELSE None
          /\ UNCHANGED <<screen, dialog, pending, notice>>

LogInit == /\ Init
           /\ screen = "history" /\ sought = None
           /\ dialog = None /\ pending = None /\ notice = None

LogNext == \/ Browse \/ GetDashboard \/ OpenHistory \/ FollowNotice
           \/ GetLogDialog \/ GetCloseLogDialog \/ Log
           \/ \E in \in LogSignals : PostLog(in.duration, in.date, in.at)
           \/ Timers /\ ClockMoves /\ UNCHANGED logVars

LogSpec == LogInit /\ [][LogNext]_allVars

-----------------------------------------------------------------------------
(***************************************************************************)
(* Properties.                                                             *)
(***************************************************************************)
LogTypeOK ==
  /\ TypeOK
  /\ screen \in {"history", "timers"} /\ dialog \in Int \cup {None} /\ sought \in Int \cup {None}
  /\ pending # None => /\ pending.start \in Int /\ pending.d \in 1 .. MaxLogged
                       /\ pending.read \in Clock
  /\ notice # None => notice.start \in Int /\ notice.day \in Days

\* What the person meant by a length, in half-minutes; None if it says none.
Meant(x) ==
  CASE x.form = "clock" /\ Len(x.mm) = 2 /\ x.m < HourLen -> Hour * x.h + Minute * x.m
    [] x.form = "units" /\ (\E i \in DOMAIN x.parts : x.parts[i].unit = "h") ->
         Sum([i \in DOMAIN x.parts |-> IF x.parts[i].unit = "h" THEN x.parts[i]
                                       ELSE [x.parts[i] EXCEPT !.unit = "m"]])
    [] x.form = "units" /\ (\A i \in DOMAIN x.parts : x.parts[i].unit = "m") -> Sum(x.parts)
    [] x.form = "plain" -> x.n * (Hour \div 2)
    [] OTHER -> None

\* A length is read as what was meant, to the nearest minute, and is refused when
\* that is nothing, more than a day, or not to be made out: however large the
\* numbers typed, none wraps around into a length that is accepted.
ReadsAsMeant ==
  dialog # None => \A x \in Lengths :
    LET d == ParseDuration(x)
        m == Meant(x)
    IN /\ d > 0 => m # None /\ Minute * d - m \in 0 .. Minute \div 2 /\ d <= MaxLogged
       /\ m # None => (0 < m /\ m <= Minute * MaxLogged => d > 0)

\* Time goes down where it was typed: on the day picked at the local time picked,
\* unless the clocks skip it; or, with no time picked, so that it ends as Add was
\* pressed, on the day it was pressed.
Exists(day, at) == \E t \in Hours * (day - 1) .. Hours * (day + 2) : DayOf(t) = day /\ HourOf(t) = at
LoggedWhereTyped ==
  pending # None =>
    LET p == pending
        day == IF p.date = None THEN DayOf(p.read) ELSE p.date
    IN IF p.at = None THEN p.start + p.d = p.read /\ day = DayOf(p.read)
       ELSE Exists(day, p.at) => DayOf(p.start) = day /\ HourOf(p.start) = p.at

\* The link of a notice leads to a page that has the entry, in the user's zone
\* and across a change of its clocks.
LinkShowsEntry == sought # None => shown.from <= sought /\ sought < shown.to
=============================================================================
