# A verification of tasker

Tasker is a time tracker in one Go binary over one SQLite file: people start
and stop timers for the companies they work for, log time afterwards, correct
and delete entries, and watch it all live on a dashboard that the server
patches over a stream. These modules model the parts of it in which order,
concurrency, failure and the clock matter, check them with TLC on small
instances, and prove the most important facts with TLAPS for instances of any
size.

## The system

| Part (source) | State | Operations | What is hard | Correct means |
|---|---|---|---|---|
| Tracking (`internal/tracking/service.go`, `repo.go`) | tables `companies`, `time_entries` | add company, start, log, stop, rename, delete, restore; list companies, running timers | calls from several tabs wait for the one write connection; the clock is read before the wait and may step back | schema's rules never refuse a write; a stop is final; delete and undo lose nothing; nobody touches another's rows; one company per name |
| Bus (`internal/web/bus.go`) | listeners by user; one pending signal each | subscribe, unsubscribe, broadcast | signals are dropped when one is pending; old and new streams of a page overlap | exactly the open streams are told, of their own user's changes |
| Stream (`handlers_stream.go`) | last read rows, `paused`, timer | first read, reload on a signal, tick, end | reads torn by commits, cached rows resent, failed reads, shutdown | what it brings is never older than what it brought; nothing stale waits unsignalled |
| Dashboard (`handlers_dashboard.go`) | the page | write, announce, re-read, answer | the answer and the stream are separate connections | the page ends at the current truth |
| Entry dialog (`handlers_entry.go`, `view/entrydialog`, the message slot of `view/layout`) | the page's dialog, input and message slot | open, close, save, delete, undo | answers are several patches each, and those of two presses interleave; another tab does the same | the dialog shows its own entry; Undo is there when due and only then |
| Process (`cmd/tasker/main.go`) | up, closing, down | shutdown, timeout, restart | streams never end by themselves | shutdown ends; pages recover |
| History, export (`handlers_history.go`, `handlers_export.go`, `view/history.go`, `view/report.go`) | one request | list, total, export | two reads at two moments; clipping in SQL, in whole seconds, and again in Go, in nanoseconds; rounding | totals are the sums of the rows, to the second of each timer that runs |
| Periods (`tracking/period.go`, the filter in `handlers_history.go`) | the page's filter and its address | resolve, step, preset, reload | days of 23 and 25 hours, months of unequal length | periods meet and do not overlap; a step returns; the address names what is shown |
| Logged time (`tracking/logged.go`, `handlers_log.go`, `view/logdialog`) | the log-time dialog, the notice | read a duration, choose a start, log, lead to the day | bounds, overflow; days that change under an open dialog; hours a zone skips or repeats | a length is read as meant or refused; time is logged where it was typed and found where the notice leads |
| Accounts, sessions (`internal/auth`, `handlers_auth.go`, `session.go`, `routes.go`, `render/sse.go`) | users, sessions, the browser's cookie | register, sign in, sign out; a page or a sign-in screen asked for | simultaneous registrations, tabs with one cookie, partial failure, lost answers, the cookie racing the redirect | one account per address; signed in means by password; signing out revokes; nobody is redirected for ever |
| Store (`internal/store`) | the file | open, migrate | | taken as the driver promises |
| Rendering, assets, build | none | | | not modelled |

They interact so: a write handler calls the service, which hands the
repository one statement; when it has committed, and only then, the handler
broadcasts on the bus, re-reads the dashboard and answers its own page. Each
dashboard stream of that user finds a signal on its channel, re-reads and sends.
History has no stream and is read when it is opened: a filter names a period, and
the period's rows and totals are read one after the other. Time logged by hand
is written through the same service and leads to the history by a link; an entry
is edited and deleted from either page, through the same service again. Every
request but those of the sign-in screens passes `requireUser` first.

## Modules

* `Tracking` is the write side over both tables. A caller is a request in
  flight: the service's operations (`AddCompany`, `Start`, `Log`, `Stop`,
  `Rename`, `Delete`, `Restore`) validate, read the clock and leave a statement
  in `call`; the repository's (`CreateCompany`, `StartEntry`, ...) run it, one at
  a time, as the single write connection does. Between the two the clock and
  every other caller may move, which is where the hazards are. A refusal
  (validation, `ErrNotFound`, `ErrCompanyExists`) changes no row. Texts are model
  values with two functions on them, `Collapse` for whitespace and `Fold` for
  what NOCASE ignores. Ids are positions, as rows are never erased.
* `Timesheet` is the abstract specification of entries: a sheet and a bin, and
  five things that can happen to an entry. `Tracking` implements it, with the
  live rows as the sheet and the deleted ones as the bin
  (`ImplementsTimesheet`).
* `Bus` has the operations of `bus.go`, each atomic under its mutex. `Live`
  extends it.
* `Live` composes write handlers, bus, streams, pages and the process. What a
  dashboard shows is abstracted to a version: `db[u]` counts a user's committed
  changes and a list is known by the version it was read at; `busy[u]` is
  whether a timer runs, which is what a tick asks. A request goes through
  `write`, `announce`, `companies`, `timers`, `sent`, a commit of anyone else's
  falling anywhere between; a stream through `companies`, `timers`, `select`. A
  send is one message and is applied whole; a stream delivers in order, and
  nothing orders a response against it.
* `Mirror` is the abstract specification of live pages: a list only moves
  forward, to a version the data has already been at. What the streams bring to
  pages implements it (`StreamedNeverGoesBack`).
* `History` extends `Tracking` with one request for the history screen: `Open`
  reads the clock, `ReadTotals` and `ReadRows` read the tables, and `Meanwhile`
  is any step of Tracking in between. `Seconds` is what the SQL adds up, `Clip`
  what the rows are given, `Report` the exported lines. A period is any two
  instants of `Midnights`. The tables and the SQL reckon in whole seconds (`now`,
  `Ended`), the page in a finer unit of which a second has `Second` (`End`,
  `Clip`): a request reads the clock anywhere inside the second it shows
  (`Readings`), and the queries are given what `Unix` leaves of that. What the
  database returns comes back through `Nanos`. `torn` notes that a write fell
  between the reads, for the properties of both reads to leave out. A failed read
  ends the request.
* `Calendar` is the filter that names the period: the page's signals, its
  address and the period shown, under changed inputs, quick periods, previous
  and next, and reload. A text in a date layout is a number, an instant an hour,
  a zone has one change of its offset. `Date`, `AddDays` and `AddMonths` are
  Go's: an hour is looked up twice in the zone, and one that does not exist
  becomes a neighbour of it. History takes the period over as any two
  midnights, so the two are checked apart.
* `LogTime` extends `Calendar`, whose page it leaves and comes back to. It has
  the three ways `ParseDuration` reads a length, on texts known by their form
  and numbers, in 64-bit arithmetic made small (`Wrap`, `Width`); `LogStart`;
  and the dialog in two steps, as the handler and the service each read the
  clock. The unit of time is a minute here. `FollowNotice` is the link the notice
  carries, read back by the history's own code.
* `Sessions` has the users table, the session store, one browser's cookie and its
  tabs. A request goes through `loaded`, `signing in`, `renewed` and `answered`,
  one step for each use of the store, so that two tabs interleave there. The
  session manager is a library: a token is live, issued and not stored, revoked or
  run out. `Fails` is a statement that fails, answered as each handler answers
  it; `Lose` an answer lost, or the process killed, which keeps no session in
  memory.
* `Dialogs` extends `Tracking` with one page: its dialog, the signal the input is
  bound to, the message slot, and requests whose answers are sequences of
  patches. Its requests are callers of Tracking, and so are other tabs, which
  delete and restore. `deleting` is the dialog's Delete button, disabled while its
  request is under way; a dialog opened after has a button of its own. A refusal
  shown in the dialog changes nothing kept here.
* `MCTracking`, `MCHistory`, `MCCalendar`, `MCLogTime`, `MCLive`, `MCSessions`,
  `MCDialogs` give the constants of the runs their values.
* `TrackingProofs`, `HistoryProofs`, `LogTimeProofs` (with the Calendar's),
  `LiveProofs`, `LiveMirrorProofs`, `SessionsProofs` and `DialogsProofs` hold the
  theorems; `Sums` has the lemmas about adding up that the second and third rest on.

Definitions called *Mutant* in a comment are deliberate bugs and are part of no
specification. They stand in for the operation after them when the checks
themselves are tested: each property below is violated by one of them.

## What the runs check

| Run | Instance | Shows |
|---|---|---|
| `MCTracking` | 2 users, 2 callers, 2 companies, 1 entry, 6 spellings, 2 clock readings | `TypeOK`; `SchemaHolds`: the two CHECKs and the composite foreign key hold of every row, so no press is ever answered with a constraint error; `NamesAreUnique`, `CountsMatchTimers`; `StopIsFinal`; `OwnerOnly`; `ImplementsTimesheet` |
| `MCHistory_pages` | 1 user and company, 2 entries, 2 clock readings, midnights a second before the first, at the second and after, list limited to 1 | `HistoryTypeOK`; `TotalsMatchRowsOnTime`: SQL and Go clip alike, company by company, to the second of each timer that runs; `PeriodsMeet`; `PageAddsUp`: the same over both reads, the list and its limit; `ReportIsNear`: half a minute an entry |
| `MCHistory_ahead` | the same | finding 1 (violation of `TotalsMatchRows`) |
| `MCLogTime` | months of 2 and 4 days, 7 days in 2 years, 2 zones, 2 moments; 28 lengths, 4 starts | of the filter: `PeriodsTile`, `ShiftsMeet`, `PresetsHoldNow`, `AddressNamesPeriod`; of the dialog: `LogTypeOK`, `ReadsAsMeant`, `LoggedWhereTyped`; of both: `LinkShowsEntry` |
| `MCCalendar_midnight` | 2 zones whose clocks change at midnight | finding 2 (violation of `PeriodsTile`) |
| `MCLive_changes` | 1 page, 2 requests, 1 stream, 2 changes, 2 messages unsent | `TypeOK`, `StaleIsSignalled` without failures |
| `MCLive_upsets` | 1 page, 1 request, 2 streams, 2 changes, 1 failure | `ListenersAreStreams`, `QuietStreamIsCurrent`, `StreamedNeverGoesBack`, across failure, reconnection and restart |
| `MCLive_converges` | 1 page, 2 requests, 1 stream, 1 change | `TicksHeal` under fairness |
| `MCLive_recovers` | 1 page, 1 request, 1 stream, 1 change, 2 failures | `CatchesUp`, `ShutdownEnds` under fairness |
| `MCLive_late_response` | 1 page, 2 requests, 1 stream, 2 changes | finding 3 (violation of `QuietPageIsCurrent`) |
| `MCSessions` | 2 tabs, 1 address in 2 spellings and a text that is none, 3 passwords, 2 tokens, 1 failure | `TypeOK`, `OneAccountPerAddress`, `SessionsAreByPassword`, `SessionsNeverChangeHands`, `SignOutRevokes`, `SignInSticks`, `CookieWorks`; `ComesToRest` under fairness |
| `MCDialogs` | 2 requests of one page, 1 other tab, 2 entries, one of them shared with it, 3 names | `DialogTypeOK`, `DialogIsItsOwn`, `UndoIsOffered`, `UndoIsDue` |

Bounds. `MaxCompanies`, `MaxEntries`, `MaxChanges`, `MaxUpsets` and `MaxOut`
bound the models and nothing in the program. Two callers are enough for a race
on a row, as a statement is atomic and looks at one row; one entry is enough
where the property is of one entry, two where the order or the sum of several
matters. Two clock readings allow a start and a press on either side of it. Two changes by two
requests give a torn read, a coalesced signal and an overtaken response; two
streams a reconnection before the old stream has ended. `MaxUpsets` counts
failed reads, lost responses and connections, pages left, crashes, shutdowns
and shutdowns timing out, together.

A failure of the store in Sessions is counted by `MaxUpsets` too; answers are
lost and sessions run out without a bound. `MaxTokens` counts tokens issued:
two are a session and the one that takes its place, or one for each tab. One
address allows one account, and a second would share nothing with it but the
cookie, which `SessionsNeverChangeHands` follows. In Dialogs two requests are
enough for two answers to cross, three entries would share the same slots as
two, and an entry that no other tab touches shows what holds without it. In
LogTime a day has six hours of four minutes and arithmetic wraps at 256
half-minutes, so that `32:01`, as a product, would come back as a minute.

In History the entries span midnights, a second has two units so that the clock is
read on one and inside one, a minute has two seconds so that lines round, and the list holds one row so that it is limited with two. In Calendar and LogTime the
months are short and unequal, so that a month back from a month's last day has no
such day; clocks change on the first of a month and of a year, and the moments are on
either side of New Year's night; a week still has seven days. `Days` bounds what a filter may name,
`Picks` what is picked by hand; and of the fields a filter carries along at most two name
what no default does (`FewTouched`), enough for a range's two ends.

Nothing ever stops: Tracking's clock can always move, as can Calendar's, and in
Live a request can always be sent or the process restarted; a tab can always ask
for a page, and a page for a dialog. Deadlock is checked everywhere.

Symmetry is used over callers and users in Tracking, which the specification
does not tell apart, over streams and requests in Live's safety runs, and over
requests in Dialogs. The runs with a liveness property use none.

### Fairness

`FairSpec` asks that a handler that can go on goes on; that a ready case of the
stream's select is taken some time (Go picks among ready cases at random); that
a browser reads what it is sent, notices a stream's end and reopens it (the page
says `retry: 'always'`; the client library has a limit of its own on retries in a
row, which is not in this repository and not modelled: in an outage that outlasts it
the page waits for a reload); and that a stopped process is started again. It does
not ask that anyone presses a button, that anything fails, or that a crash is
followed by quiet: `MaxUpsets` bounds the failures, so convergence is after the
last of them. A shutdown that has to wait for a blocked stream ends because the
browser reads on.

In Sessions the fairness is a tab's: its request's handler runs on, a failing
statement being one way to do so, and an answer that is not lost arrives.

## Findings

1. *A row's duration is what the totals count* (`view/history.go:123`) fails for
   a running timer that started after the request read the clock: the SQL has no
   floor at zero (`repo.go:278`), `Clip` has, and the timer takes time away from
   its company's total. The clock set back does it, and so, by a second, does a
   timer started between the reading and the query. Where no timer is
   ahead of the clock the two agree, but for the part of a second a running
   timer is into (`TotalsMatchRowsOnTime`, `RowsAlwaysMatch`).
2. *Day boundaries are at midnight* (`period.go:82`) fails where the clocks go
   forward at midnight, as in Egypt, Lebanon, Chile, Cuba and the Azores. Go
   gives that day an hour next to the midnight it lacks, and the day ends at the
   same hour of the next: an hour is in both days, or in none, and *next*, which
   formats the start again, stays on the day for ever in the second case. With
   midnights that exist, days meet and steps return (`DaysMeet`,
   `DayStepsReturn`, `PeriodsMeet`).
3. *Two changes racing each other both end in the current truth* (`bus.go:7`)
   holds of what the stream brings (`QuietStreamIsCurrent`, `CatchesUp`) and not
   of the page: the response to a press is rendered HTML on another connection,
   and one rendered before a second change can arrive after the stream's render
   of it. While a timer runs, the next tick puts the timers right
   (`TicksHeal`); otherwise, and for the company list, it stays until the next
   change.

Five more, without a run. *Day boundaries are at midnight*, and *See that day*
(`handlers_log.go:92`), fail the other way round where the clocks go back from one
in the morning to midnight, east of Greenwich (Jordan until 2021): midnight comes
twice, Go gives the second, and the day's first hour counts for the day before,
which has 25. An entry started in that hour is dated by its local day, and the
link of its notice leads to a page without it. The proof of `LinkShowsEntry` stops
there, and TLC shows it with `Zones <- TwiceZones` in `MCLogTime.cfg`; to the west
Go gives the first midnight.

*The part inside the period, which is what the totals count* (`view/history.go:123`)
is, of a running timer, up to a second more than they count: the queries are given the
clock in whole seconds (`repo.go:275`), `Clip` to the nanosecond. One timer's figures still round to the same minute;
the sums over two or more, a day's beside a company's, may be a minute apart.
`ToTheSecond` is what is left of the promise, and its bound is met: `TotalsMatchRowsOnTime`
and `PageAddsUp` fail with a unit less.

*A failure to read is shown on the page*, and the
notice *comes down again once a reload succeeds* (`handlers_stream.go:48-54`): it
shares its slot with every other message, and a refused press's takes its place
before that. *A name the user already has, in any letter case, is refused*
(`repo.go:31`) holds of ASCII letters only, as SQLite's NOCASE folds no others;
`NamesAreUnique` is about what NOCASE folds. And the entry dialog, which *opens
with the name as it stands* (`view/entrydialog.go`, `Task`), opens with another
entry's when two Edit buttons are pressed before the first answer is in and the
answers cross signal by signal, dialog by dialog: `DialogShowsItsName` is that
promise, `DialogIsItsOwn` what is left of it, that it takes two openings at once.

## What is proved

Every invariant and every action property of a passing run, for any values of the
constants that meet the assumptions named below. All assumptions are evaluated by
TLC on the constants of the runs.

### Tracking

For any users, callers, texts, clock readings and bounds (`TimeAssumption`:
times are integers and `None` is not one; `TextAssumption`: collapsing a text
again changes nothing), in `TrackingProofs`:

* `TypeCorrect`, and from it `StatementEffect`: whatever statement runs, the
  entries table is unchanged, has one row more that obeys the schema, or has one
  row stopped, renamed, deleted or restored. Everything else is argued from
  these five effects.
* `SchemaAlwaysHolds`. `SchemaHolds` alone is not inductive: a waiting `log`
  statement must be known to end after it starts (`LogsForward`), and companies
  never to change (`CompaniesOnlyGrow`), or an entry could lose its owner.
* `StopsAreFinal`, `OwnersOnly`: action properties, from the effects.
* `UniqueNames`: inductive once waiting names are known to be collapsed.
* `CountsAgree`: of one snapshot, and so of every one. The count and the list are
  two filters of the same rows; by the schema a row's company is its owner's.
* `TrackingImplementsTimesheet`: the initial tables are an empty sheet and bin,
  and each effect is one step of `Timesheet` or none.

### History

For any midnights, unit of the clock, minute of whole seconds and limit as well
(`PeriodAssumption`, `SecondAssumption`: each is at least one), in `HistoryProofs`, from `HistoryOnlyReads`: the request
writes nothing, so what is proved of Tracking's tables holds here.

* `NanosScale`, `NanosKeepOrder`, `UnixFloors`: seconds keep their order in the
  finer unit, and `Unix` drops less than one.
* `RowsAlwaysMatch`: entry by entry, the SQL's arithmetic and `Clip` are equal
  once the entry has ended, and less than a second apart while it runs, unless it
  is ahead of the clock. `SchemaHolds` is needed: an entry that ended before its
  start would be a negative sum and a row of zero.
* `PeriodsAlwaysMeet`: `PeriodsMeet`, for any three midnights in order.
* `TotalsMatchOnTime`: the step from each row to the sum of a company's rows, by
  `SumsToTheSecond`: terms that agree but for a second of some of them have sums
  that agree but for as many seconds.
* `PagesAddUp`: `PageAddsUp` is inductive with `ReadTogether`: until a write falls
  between the two reads, the totals read are still those of the tables. What is
  left is arithmetic: the rows of all companies are split by company, added up
  company by company and put in the order of the list, and the sum is the same, to the second.
* `HistoryTypeCorrect`; `ReportsAreNear`: each line is within half a minute of what
  the totals count (`WholeMinutesNear`: half a minute is a whole number of seconds,
  so the part of a second a line has more never makes a minute of it), and a sum of
  as many lines as there are entries, at most, within that many halves.

The sums are the library's folds over finite sets, about which nothing is known
but their definition. `Sums` proves what is needed of them: that a sum is an
integer, depends on the summands alone, takes an element out, is bounded by bounds
of its parts, and survives renaming and grouping. The library's induction
theorems take a predicate as a parameter, which no prover here can instantiate; in
their place each lemma looks at a least set, by inclusion, for which it would fail
(`LeastSubset`, from the strict subset ordering being well-founded).

### Calendar and LogTime

For any zone with one change of its offset, any months that follow one another
(`CalendarAssumption`; `MonthsAssumption`: every day a filter names is in a listed
month, and the years to either side are listed, as they are in a calendar without
end; `ClockAssumption`: what the clock reads is on such a day), any lengths typed
and any sizes of day, hour and machine word (`LogAssumption`: a day is a whole number
of hours, and its length in half-minutes is less than half of what a word holds), in
`LogTimeProofs`:

* `LengthsReadAsMeant`: of each form of a length, that what is read is what was
  meant or a refusal, and that nothing within a day is refused.
* `TimeGoesWhereTyped`: what is on its way to the service began where `LogStart` put
  it (`StartPicked`, inductive), and `DateFindsWhatExists`: a local time that any
  instant shows is one `time.Date` finds, on whichever side of the change.
* `AddressesLast`: `AddressInv` says that the address has every field its mode
  reads and names what is shown. Then the clock, which only fills in what is
  blank, does not matter (`NamedPeriod`).
* `DaysMeet` and `DayStepsReturn`, wherever the midnights concerned exist.

The other five ask for a zone that keeps its midnights (`KeepsMidnights`), which
is what finding 2 and the repeated midnight lack: no midnight is in the hour that is skipped or
repeated, nor within an hour of a skipped one. It is the shape of most
zones' rules (London, Berlin, New York, Sydney), and a pure condition on the zone, so
it stands in front of the theorem and not in the specification; TLC checks that
it holds of the zones of `MCLogTime` and not of the one where midnight comes
twice (`ZonesAreTold`). From it `MidnightStarts`: a day begins at its midnight
and an instant is in day `n` or later exactly from then on; everything after is
about days and months and no longer about offsets.

* `LogTypeCorrect`: by `PageInv`, every filter the page can come to is over days,
  months and years that are listed.
* `PeriodsMeet`; `StepsMeet`, mode by mode: a range's length, over a change of the
  clocks, is rounded to the days it has (`DaysAreWhole`), so it steps by itself;
  `PresetsMeetNow`.
* `LinksShowTheirEntry`: while a followed link's entry is looked for, the address
  names its local day, and that day's period holds it.

### Live

For any users, pages, streams, requests and bounds (`OwnerAssumption`,
`NoneAssumption`: a page has one user, and `None` is not an actor), in
`LiveProofs`:

* `TypeCorrect`, one lemma for each kind of actor.
* `BusKnowsItsStreams`: `ListenersAreStreams` is inductive with `TypeOK`. The
  lemmas `RequestsStandBy` and `BrowsersStandBy` show once that all but five kinds of
  step leave bus and streams alone.
* `NothingStaleUnsignalled`: `StaleIsSignalled` is not inductive. It needs that
  between its two reads a stream's companies are current or a change is coming,
  which is the second conjunct of `Signalled`; and `ListenersAreStreams`, by
  which an announcement reaches every stream of its user.
* `SignalsAreOwn`: the action property `OwnSignalsOnly`, from
  `ListenersAreStreams`. It says nothing of one user alone and no run has two, so
  it is proved and not checked.

In `LiveMirrorProofs`, on top of those:

* `NothingOlderIsOwed`: the invariant `MirrorInv`. Of each page, what it has, what is
  unsent to it in order, what its stream last read and what is committed never go
  down (`Climbs`, `Owed`); no stream feeds two pages (`FeedsApart`), and a
  page that is being loaded has no other request (`LoadsApart`).
* `StreamsOnlyMoveForward`: with it each step of `Live` is a step of `Mirror` or a
  stutter for what streams brought.
* `QuietStreamsAreCurrent`: with `NothingStaleUnsignalled`, as the last message to
  arrive is the last thing read.

### Sessions

For any tabs, addresses, passwords and bounds (`AddressAssumption`: lowering an
address twice is lowering it once; `BoundAssumption`; `NoneAssumption`: `None` is
no request), in `SessionsProofs`, from one invariant `IInv`:

* `RequestStands`: what a handler holds at each of its stages is still so, though
  others have run since; above all, a sign-in past its check is for the
  account whose address and password were given. `TokensApart`: a token a
  request was issued is neither the cookie nor known to another request. `AccountsApart`:
  addresses are stored lowered, each once.
* From it `TypeCorrect`, `OneAccount`, `SignOutsRevoke`, `SignInsStick`, `CookiesWork`,
  and the action properties `SessionsByPassword` and `SessionsStayPut`.

### Dialogs

For any requests, other tabs and texts (`DialogAssumption`: the page's requests are
callers of Tracking; `NullAssumption`: `None` is no request), in `DialogsProofs`, from
one invariant `IInv`:

* `AnswersFit`: what is left of an answer is a rest of what its handler sends, in
  order. `OneOpening`: until two openings overlap, one that is under way is the
  only one, and no dialog shows meanwhile. `OfferStands` and `UndoStands`: an offer of Undo is on the page or on
  its way, and whatever is told of an entry is so of the entry, or another tab has
  been at it.
* `DialogTypeCorrect`, `DialogsAreTheirOwn`, `UndosAreOffered`, `UndosAreDue`.

### Only model-checked

`CatchesUp`, `TicksHeal`, `ShutdownEnds` and `ComesToRest`: liveness under fairness
is beyond the prover. And `TotalsMatchRows`, `QuietPageIsCurrent`, and `PeriodsTile`
and `LinkShowsEntry` in zones that do not keep their midnights, because they fail. The
bounds of the runs are not theorems' bounds: Calendar's `FewTouched` and the symmetry
of the runs are TLC's alone.

## Not modelled

* Statements that fail inside SQLite, but in Sessions and for reads in Live: they
  have no effect and answer with an error.
* What a row looks like: labels, elapsed times, days and bars; focus; the
  keepalive. A send cut in the middle: in Live a message is applied whole.
* Texts in the history's filter that are no date, and the company that rides
  along with it. Which of several history requests' answers comes last, which
  is for the client library to say.
* In LogTime, the company and the row (Tracking's), the picker's seconds, and
  texts that are typed in other words for the same form. A clock reading with more
  hours than `Atoi` reads is refused as unreadable and not as too long, as in the
  code; `ReadsAsMeant` does not ask which refusal.
* In Sessions, bcrypt and its timing, the browser's time zone, what net/mail takes
  for an address, the header that `requireDatastarAction` asks for, and the branch of
  `requireUser` for an account that is gone: no code removes one.
* In Live, the client library's limit on retries: `CatchesUp` is of a browser that
  goes on trying.
* In Dialogs, answers lost or cancelled, the messages of the stream and of other
  buttons in the same slot (a stream that reloads after a pause clears it, and Undo
  with it), and the words of a confirmation.
* Static files, the build, pragmas and migrations.

## Plan

Done: `Tracking`, `Timesheet`, `History`, `Calendar`, `LogTime`, `Bus`, `Live`,
`Mirror`, `Sessions`, `Dialogs` and their runs; the theorems above.

Next:

1. A weaker condition than `KeepsMidnights` for `PeriodsMeet` and
   `LinksShowTheirEntry`: to the west of Greenwich clocks that go back to midnight
   do no harm.
2. `Dialogs` as a Tracking: that its statements are among Tracking's, so that
   `SchemaHolds` and `ImplementsTimesheet` carry over to it by theorem.
3. The safety half of `ShutdownEnds`: what a closing server still waits for.
