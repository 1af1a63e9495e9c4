------------------------------ MODULE Tracking ------------------------------
(***************************************************************************)
(* Time tracking: internal/tracking (service and repository) over the      *)
(* companies and time_entries tables.                                      *)
(*                                                                         *)
(* A caller is one request in flight.  The service validates it and reads  *)
(* the clock; the statement it then builds waits for the store's only      *)
(* write connection, so the clock, and every other caller, may move before *)
(* it runs.  A statement that runs is one atomic step.                     *)
(*                                                                         *)
(* Rows are never erased, so an id is its row's position in the table.     *)
(* created_at and the value of deleted_at are never read back: the first   *)
(* is left out and the second is a flag.                                   *)
(***************************************************************************)
EXTENDS Integers, Sequences, FiniteSets

CONSTANTS
  Users, Callers,
  Names, Tasks,    \* what the text boxes of the two forms may hold
  Collapse, Fold,  \* a text with its whitespace collapsed; as NOCASE compares it
  Blank,           \* the empty text
  TooLong,         \* texts above MaxCompanyName and MaxTask
  Times,           \* readings of the wall clock, which may step backwards
  Durations,       \* lengths a person may ask to log, good and bad
  MaxLogged, Grace,
  MaxCompanies, MaxEntries,  \* bounds of the model, not of the program
  None             \* SQL NULL, and a caller with no call in flight

Texts == Names \cup Tasks

ASSUME TimeAssumption == /\ Times \subseteq Int
                         /\ Durations \subseteq Int
                         /\ MaxLogged \in Int /\ Grace \in Int
                         /\ None \notin Int
ASSUME TextAssumption == \A t \in Texts : /\ Collapse[t] \in Texts
                                          /\ Collapse[Collapse[t]] = Collapse[t]

VARIABLES
  companies,  \* the companies table
  entries,    \* the time_entries table
  now,        \* the wall clock
  call        \* per caller, the statement waiting for the write connection
vars == <<companies, entries, now, call>>

Company == [user : Users, name : Texts]
Entry == [user : Users, company : Nat, task : Texts, started : Int,
          stopped : Int \cup {None}, manual : BOOLEAN, deleted : BOOLEAN]

Call == [op : {"create"}, user : Users, name : Texts]
          \cup [op : {"start"}, user : Users, company : Nat, task : Texts, at : Int]
          \cup [op : {"log"}, user : Users, company : Nat, task : Texts,
                start : Int, end : Int]
          \cup [op : {"stop"}, user : Users, id : Nat, at : Int]
          \cup [op : {"rename"}, user : Users, id : Nat, task : Texts]
          \cup [op : {"delete", "restore"}, user : Users, id : Nat]
          \cup {None}

Init == /\ companies = <<>>
        /\ entries = <<>>
        /\ now \in Times
        /\ call = [c \in Callers |-> None]

(***************************************************************************)
(* The service: validate, read the clock, hand a statement to the store.   *)
(***************************************************************************)
Idle(c) == call[c] = None
Waiting(c, op) == ~Idle(c) /\ call[c].op = op
\* Inserts already waiting, so that the bounds below hold of the tables.
Inserts(ops) == Cardinality({c \in Callers : ~Idle(c) /\ call[c].op \in ops})

Issue(c, stmt) == /\ Idle(c)
                  /\ call' = [call EXCEPT ![c] = stmt]
                  /\ UNCHANGED <<companies, entries, now>>

\* An id a form may carry: a row's, or one nobody has.
Ids(table) == 1 .. (Len(table) + 1)

AddCompany(c, u, typed) ==
  LET name == Collapse[typed] IN
  /\ Len(companies) + Inserts({"create"}) < MaxCompanies
  /\ name # Blank /\ name \notin TooLong
  /\ Issue(c, [op |-> "create", user |-> u, name |-> name])

\* Mutant: the clock is never read.
StartUntimed(c, u, company, typed) ==
  Issue(c, [op |-> "start", user |-> u, company |-> company, task |-> Collapse[typed], at |-> None])

Start(c, u, company, typed) ==
  LET task == Collapse[typed] IN
  /\ Len(entries) + Inserts({"start", "log"}) < MaxEntries
  /\ task \notin TooLong
  /\ Issue(c, [op |-> "start", user |-> u, company |-> company, task |-> task, at |-> now])

Log(c, u, company, typed, start, d) ==
  LET task == Collapse[typed] IN
  /\ Len(entries) + Inserts({"start", "log"}) < MaxEntries
  /\ task \notin TooLong
  /\ d > 0 /\ d <= MaxLogged
  /\ start + d <= now + Grace
  /\ Issue(c, [op |-> "log", user |-> u, company |-> company, task |-> task,
               start |-> start, end |-> start + d])

Stop(c, u, id) == Issue(c, [op |-> "stop", user |-> u, id |-> id, at |-> now])

Rename(c, u, id, typed) ==
  LET task == Collapse[typed] IN
  /\ task \notin TooLong
  /\ Issue(c, [op |-> "rename", user |-> u, id |-> id, task |-> task])

Delete(c, u, id) == Issue(c, [op |-> "delete", user |-> u, id |-> id])
Restore(c, u, id) == Issue(c, [op |-> "restore", user |-> u, id |-> id])

(***************************************************************************)
(* The repository: one statement on the write connection.                  *)
(***************************************************************************)
Done(c) == call' = [call EXCEPT ![c] = None] /\ now' = now

\* Mutant: the unique index without COLLATE NOCASE.
NameTakenExactly(u, name) ==
  \E k \in DOMAIN companies : companies[k].user = u /\ companies[k].name = name

\* UNIQUE (user_id, name COLLATE NOCASE)
NameTaken(u, name) ==
  \E k \in DOMAIN companies : companies[k].user = u /\ Fold[companies[k].name] = Fold[name]

CreateCompany(c) ==
  /\ Waiting(c, "create")
  /\ companies' = IF NameTaken(call[c].user, call[c].name)
                  THEN companies
                  ELSE Append(companies, [user |-> call[c].user, name |-> call[c].name])
  /\ entries' = entries
  /\ Done(c)

\* The company row the INSERT ... SELECT finds: scoped to the caller's user.
OwnsCompany(u, k) == k \in DOMAIN companies /\ companies[k].user = u

InsertEntry(c, row) ==
  /\ entries' = IF OwnsCompany(call[c].user, call[c].company)
                THEN Append(entries, row) ELSE entries
  /\ companies' = companies
  /\ Done(c)

StartEntry(c) ==
  /\ Waiting(c, "start")
  /\ InsertEntry(c, [user |-> call[c].user, company |-> call[c].company,
                     task |-> call[c].task, started |-> call[c].at, stopped |-> None,
                     manual |-> FALSE, deleted |-> FALSE])

LogEntry(c) ==
  /\ Waiting(c, "log")
  /\ InsertEntry(c, [user |-> call[c].user, company |-> call[c].company,
                     task |-> call[c].task, started |-> call[c].start,
                     stopped |-> call[c].end, manual |-> TRUE, deleted |-> FALSE])

\* Mutant: the statements find the row by its id alone.
MineByIdAlone(c, i) == i \in DOMAIN entries

\* The WHERE clauses: the row is the caller's and, but for a restore, not deleted.
Mine(c, i) == i \in DOMAIN entries /\ entries[i].user = call[c].user
Live(i) == ~entries[i].deleted
LaterOf(a, b) == IF a > b THEN a ELSE b

\* UPDATE one row WHERE matches; no row matched is ErrNotFound and no change.
ChangeEntry(c, matches, row) ==
  /\ entries' = IF matches THEN [entries EXCEPT ![call[c].id] = row] ELSE entries
  /\ companies' = companies
  /\ Done(c)

\* Mutant: a stop matches an entry that has already stopped.
CanStopAgain(c) == Mine(c, call[c].id) /\ Live(call[c].id)

CanStop(c) == LET i == call[c].id IN Mine(c, i) /\ Live(i) /\ entries[i].stopped = None
\* Mutant: the end is the time Stop was pressed, without the MAX.
StopEntryAtPress(c) ==
  /\ Waiting(c, "stop")
  /\ ChangeEntry(c, CanStop(c), [entries[call[c].id] EXCEPT !.stopped = call[c].at])

StopEntry(c) ==
  /\ Waiting(c, "stop")
  /\ ChangeEntry(c, CanStop(c), LET e == entries[call[c].id] IN
                   [e EXCEPT !.stopped = LaterOf(call[c].at, e.started)])

\* Mutant: a rename reaches deleted rows.
CanRenameDeleted(c) == Mine(c, call[c].id)

CanRename(c) == Mine(c, call[c].id) /\ Live(call[c].id)
RenameEntry(c) ==
  /\ Waiting(c, "rename")
  /\ ChangeEntry(c, CanRename(c), [entries[call[c].id] EXCEPT !.task = call[c].task])

CanDelete(c) == Mine(c, call[c].id) /\ Live(call[c].id)
DeleteEntry(c) ==
  /\ Waiting(c, "delete")
  /\ ChangeEntry(c, CanDelete(c), [entries[call[c].id] EXCEPT !.deleted = TRUE])

CanRestore(c) == Mine(c, call[c].id) /\ ~Live(call[c].id)
RestoreEntry(c) ==
  /\ Waiting(c, "restore")
  /\ ChangeEntry(c, CanRestore(c), [entries[call[c].id] EXCEPT !.deleted = FALSE])

\* The wall clock moves, forwards or (set by hand, or by NTP) backwards.
ClockMoves == /\ now' \in Times
              /\ UNCHANGED <<companies, entries, call>>

Service(c, u) ==
  \/ \E t \in Names : AddCompany(c, u, t)
  \/ \E k \in Ids(companies), t \in Tasks : Start(c, u, k, t)
  \/ \E k \in Ids(companies), t \in Tasks, s \in Times, d \in Durations : Log(c, u, k, t, s, d)
  \/ \E i \in Ids(entries), t \in Tasks : Rename(c, u, i, t)
  \/ \E i \in Ids(entries) : Stop(c, u, i) \/ Delete(c, u, i) \/ Restore(c, u, i)

Statement(c) == \/ CreateCompany(c) \/ StartEntry(c) \/ LogEntry(c) \/ StopEntry(c)
                \/ RenameEntry(c) \/ DeleteEntry(c) \/ RestoreEntry(c)

Next == \/ \E c \in Callers : Statement(c) \/ \E u \in Users : Service(c, u)
        \/ ClockMoves

Spec == Init /\ [][Next]_vars

(***************************************************************************)
(* The read side, each query over one snapshot of the tables.              *)
(***************************************************************************)
IsRunning(i) == entries[i].stopped = None

\* Repo.Running: the user's running timers, joined to an existing company.
Running(u) == {i \in DOMAIN entries : /\ entries[i].user = u
                                      /\ IsRunning(i) /\ Live(i)
                                      /\ entries[i].company \in DOMAIN companies}

\* Mutant: the count beside a company forgets deleted_at IS NULL.
RunningCountDeleted(k) == Cardinality({i \in DOMAIN entries :
                            /\ entries[i].user = companies[k].user
                            /\ entries[i].company = k
                            /\ IsRunning(i)})

\* Repo.Companies: the user's companies, each with its count of running timers.
RunningCount(k) == Cardinality({i \in DOMAIN entries :
                     /\ entries[i].user = companies[k].user
                     /\ entries[i].company = k
                     /\ IsRunning(i) /\ Live(i)})
Companies(u) == {k \in DOMAIN companies : companies[k].user = u}

-----------------------------------------------------------------------------
(***************************************************************************)
(* Properties.                                                             *)
(***************************************************************************)
TypeOK == /\ companies \in Seq(Company)
          /\ entries \in Seq(Entry)
          /\ now \in Times
          /\ call \in [Callers -> Call]

\* An entry's company exists and has the entry's owner: what the composite
\* foreign key asks, so that no write of the service is ever refused by it.
OwnerIsCompanysOwner ==
  \A i \in DOMAIN entries : OwnsCompany(entries[i].user, entries[i].company)

\* An entry never ends before it starts, whatever the clock did between the
\* start, the press of Stop and the moment the UPDATE ran; and an entry logged
\* by hand is never running.  These are the two CHECKs of time_entries.
EndsAfterStart ==
  \A i \in DOMAIN entries : entries[i].stopped # None => entries[i].stopped >= entries[i].started
ManualIsStopped ==
  \A i \in DOMAIN entries : entries[i].manual => entries[i].stopped # None

SchemaHolds == OwnerIsCompanysOwner /\ EndsAfterStart /\ ManualIsStopped

\* No user has two companies whose names differ only in whitespace and in what
\* NOCASE ignores, however many tabs add them at once.
NamesAreUnique ==
  \A j, k \in DOMAIN companies :
    /\ companies[j].user = companies[k].user
    /\ Fold[Collapse[companies[j].name]] = Fold[Collapse[companies[k].name]]
    => j = k

\* The company list and the running list of one snapshot agree: the counts
\* shown beside the companies add up to the timers shown running.
CountsMatchTimers ==
  \A u \in Users :
    /\ \A i \in Running(u) : entries[i].company \in Companies(u)
    /\ \A k \in Companies(u) : RunningCount(k) = Cardinality({i \in Running(u) : entries[i].company = k})

\* A stop is final: a second Stop, a rename, a delete or an undo never moves
\* the time at which an entry ended, and its start never moves at all.
StopIsFinal ==
  [][\A i \in DOMAIN entries :
       /\ i \in DOMAIN entries'
       /\ entries'[i].started = entries[i].started
       /\ entries[i].stopped # None => entries'[i].stopped = entries[i].stopped]_vars

\* A row is created or changed only by a statement of the user who owns it.
OwnerOnly ==
  [][\A i \in DOMAIN entries' :
       (i \in DOMAIN entries => entries'[i] # entries[i])
         => \E c \in Callers : /\ ~Idle(c) /\ call'[c] = None
                               /\ call[c].user = entries'[i].user]_vars

(***************************************************************************)
(* What it implements: see Timesheet.                                      *)
(***************************************************************************)
Content(row) == [user |-> row.user, company |-> row.company, task |-> row.task,
                 started |-> row.started, stopped |-> row.stopped, manual |-> row.manual]
sheet == [i \in {j \in DOMAIN entries : Live(j)} |-> Content(entries[i])]
bin == [i \in {j \in DOMAIN entries : ~Live(j)} |-> Content(entries[i])]

Timesheet == INSTANCE Timesheet
ImplementsTimesheet == Timesheet!Spec
=============================================================================
