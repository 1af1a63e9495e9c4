--------------------------- MODULE TrackingProofs ---------------------------
(***************************************************************************)
(* Theorems about Tracking, for any users, callers, clock and texts.       *)
(***************************************************************************)
EXTENDS Tracking, TLAPS

\* Appending to a table keeps its rows where they are.
LEMMA AppendRow ==
  ASSUME NEW S, NEW s \in Seq(S), NEW e \in S
  PROVE  /\ Append(s, e) \in Seq(S)
         /\ DOMAIN Append(s, e) = DOMAIN s \cup {Len(s) + 1}
         /\ \A i \in DOMAIN s : Append(s, e)[i] = s[i]
         /\ Append(s, e)[Len(s) + 1] = e
         /\ Len(s) + 1 \notin DOMAIN s
         /\ Len(s) \in Nat
  OBVIOUS

\* Replacing one row keeps every other.
LEMMA ReplaceRow ==
  ASSUME NEW S, NEW s \in Seq(S), NEW i \in DOMAIN s, NEW e \in S
  PROVE  /\ [s EXCEPT ![i] = e] \in Seq(S)
         /\ DOMAIN [s EXCEPT ![i] = e] = DOMAIN s
         /\ \A j \in DOMAIN s : [s EXCEPT ![i] = e][j] = IF j = i THEN e ELSE s[j]
  OBVIOUS

(***************************************************************************)
(* Type correctness.                                                       *)
(***************************************************************************)
\* A call a service operation issues is a statement of the store.
LEMMA ServiceType ==
  ASSUME TypeOK, NEW c \in Callers, NEW u \in Users, Service(c, u)
  PROVE  TypeOK'
<1> USE TimeAssumption, TextAssumption DEF TypeOK, Issue, Texts
<1>1. ASSUME NEW stmt \in Call, Issue(c, stmt) PROVE TypeOK'
  BY <1>1
<1>2. Ids(companies) \subseteq Nat /\ Ids(entries) \subseteq Nat
  BY DEF Ids
<1>3. ASSUME NEW t \in Names, AddCompany(c, u, t) PROVE TypeOK'
  BY <1>1, <1>3 DEF AddCompany, Call
<1>4. ASSUME NEW k \in Ids(companies), NEW t \in Tasks, Start(c, u, k, t) PROVE TypeOK'
  BY <1>1, <1>2, <1>4 DEF Start, Call
<1>5. ASSUME NEW k \in Ids(companies), NEW t \in Tasks, NEW s \in Times, NEW d \in Durations,
             Log(c, u, k, t, s, d)
      PROVE  TypeOK'
  BY <1>1, <1>2, <1>5 DEF Log, Call
<1>6. ASSUME NEW i \in Ids(entries), NEW t \in Tasks, Rename(c, u, i, t) PROVE TypeOK'
  BY <1>1, <1>2, <1>6 DEF Rename, Call
<1>7. ASSUME NEW i \in Ids(entries), Stop(c, u, i) PROVE TypeOK'
  BY <1>1, <1>2, <1>7 DEF Stop, Call
<1>8. ASSUME NEW i \in Ids(entries), Delete(c, u, i) PROVE TypeOK'
  BY <1>1, <1>2, <1>8 DEF Delete, Call
<1>9. ASSUME NEW i \in Ids(entries), Restore(c, u, i) PROVE TypeOK'
  BY <1>1, <1>2, <1>9 DEF Restore, Call
<1> QED
  BY <1>3, <1>4, <1>5, <1>6, <1>7, <1>8, <1>9 DEF Service

(***************************************************************************)
(* What a statement can do to the entries table.  Every theorem below is   *)
(* argued from these five effects rather than from the statements.         *)
(***************************************************************************)
Inserted == \E row \in Entry :
  /\ entries' = Append(entries, row)
  /\ ~row.deleted
  /\ OwnsCompany(row.user, row.company)
  /\ row.stopped # None => row.stopped >= row.started
  /\ row.manual => row.stopped # None
  /\ \E c \in Callers : ~Idle(c) /\ call'[c] = None /\ call[c].user = row.user

Became(i, row) ==
  /\ entries' = [entries EXCEPT ![i] = row]
  /\ \E c \in Callers : ~Idle(c) /\ call'[c] = None /\ call[c].user = entries[i].user

Stopped(i) == \E t \in Int :
  /\ Live(i) /\ entries[i].stopped = None
  /\ t >= entries[i].started
  /\ Became(i, [entries[i] EXCEPT !.stopped = t])
Renamed(i) == \E t \in Texts : Live(i) /\ Became(i, [entries[i] EXCEPT !.task = t])
Deleted(i) == Live(i) /\ Became(i, [entries[i] EXCEPT !.deleted = TRUE])
Restored(i) == ~Live(i) /\ Became(i, [entries[i] EXCEPT !.deleted = FALSE])

EntriesEffect ==
  \/ entries' = entries
  \/ Inserted
  \/ \E i \in DOMAIN entries : Stopped(i) \/ Renamed(i) \/ Deleted(i) \/ Restored(i)

\* A statement waiting to log an entry ends it after its start: Log refuses a
\* length that is not above zero.
LogsForward == \A c \in Callers : Waiting(c, "log") => call[c].start <= call[c].end

LEMMA StatementEffect ==
  ASSUME TypeOK, LogsForward, NEW c \in Callers, Statement(c)
  PROVE  EntriesEffect
<1> USE TimeAssumption DEF TypeOK
<1>0. /\ call[c] \in Call /\ call[c] # None /\ call' = [call EXCEPT ![c] = None]
  BY DEF Statement, CreateCompany, StartEntry, LogEntry, StopEntry, RenameEntry, DeleteEntry,
         RestoreEntry, Waiting, Idle, Done, InsertEntry, ChangeEntry
<1>a. ~Idle(c) /\ call'[c] = None
  BY <1>0 DEF Idle
<1>b. ASSUME NEW row \in Entry, InsertEntry(c, row), row.user = call[c].user,
             row.company = call[c].company, ~row.deleted,
             row.stopped # None => row.stopped >= row.started,
             row.manual => row.stopped # None
      PROVE  EntriesEffect
  BY <1>a, <1>b DEF InsertEntry, EntriesEffect, Inserted
<1>c. ASSUME NEW i \in DOMAIN entries, NEW row, Mine(c, i),
             entries' = [entries EXCEPT ![i] = row]
      PROVE  Became(i, row)
  BY <1>a, <1>c DEF Became, Mine
<1>1. CASE CreateCompany(c)
  BY <1>1 DEF CreateCompany, EntriesEffect
<1>2. CASE StartEntry(c)
  <2> DEFINE row == [user |-> call[c].user, company |-> call[c].company,
                     task |-> call[c].task, started |-> call[c].at, stopped |-> None,
                     manual |-> FALSE, deleted |-> FALSE]
  <2>1. row \in Entry
    BY <1>0, <1>2 DEF StartEntry, Waiting, Call, Entry
  <2> QED
    BY <1>2, <1>b, <2>1 DEF StartEntry
<1>3. CASE LogEntry(c)
  <2> DEFINE row == [user |-> call[c].user, company |-> call[c].company,
                     task |-> call[c].task, started |-> call[c].start,
                     stopped |-> call[c].end, manual |-> TRUE, deleted |-> FALSE]
  <2>1. row \in Entry /\ row.stopped # None /\ row.stopped >= row.started
    BY <1>0, <1>3 DEF LogEntry, Waiting, Call, Entry, LogsForward
  <2> QED
    BY <1>3, <1>b, <2>1 DEF LogEntry
<1>4. CASE StopEntry(c)
  <2> DEFINE i == call[c].id
             t == LaterOf(call[c].at, entries[i].started)
  <2>1. CASE CanStop(c)
    <3>1. i \in DOMAIN entries /\ entries[i] \in Entry /\ call[c].at \in Int
      BY <1>0, <1>4, <2>1 DEF CanStop, Mine, StopEntry, Waiting, Call
    <3>2. t \in Int /\ t >= entries[i].started
      BY <3>1 DEF LaterOf, Entry
    <3>3. entries' = [entries EXCEPT ![i] = [entries[i] EXCEPT !.stopped = t]]
      BY <1>4, <2>1 DEF StopEntry, ChangeEntry
    <3> QED
      BY <1>c, <2>1, <3>1, <3>2, <3>3 DEF CanStop, EntriesEffect, Stopped
  <2>2. CASE ~CanStop(c)
    BY <1>4, <2>2 DEF StopEntry, ChangeEntry, EntriesEffect
  <2> QED
    BY <2>1, <2>2
<1>5. CASE RenameEntry(c)
  <2>1. CASE CanRename(c)
    <3>1. call[c].task \in Texts
      BY <1>0, <1>5 DEF RenameEntry, Waiting, Call
    <3> QED
      BY <1>5, <1>c, <2>1, <3>1 DEF RenameEntry, ChangeEntry, CanRename, Mine, EntriesEffect, Renamed
  <2>2. CASE ~CanRename(c)
    BY <1>5, <2>2 DEF RenameEntry, ChangeEntry, EntriesEffect
  <2> QED
    BY <2>1, <2>2
<1>6. CASE DeleteEntry(c)
  BY <1>6, <1>c DEF DeleteEntry, ChangeEntry, CanDelete, Mine, EntriesEffect, Deleted
<1>7. CASE RestoreEntry(c)
  BY <1>7, <1>c DEF RestoreEntry, ChangeEntry, CanRestore, Mine, EntriesEffect, Restored
<1> QED
  BY <1>1, <1>2, <1>3, <1>4, <1>5, <1>6, <1>7 DEF Statement

(***************************************************************************)
(* The invariant: types, the schema's constraints, and what it needs of    *)
(* the statements still waiting.                                           *)
(***************************************************************************)
TableInv == TypeOK /\ LogsForward /\ SchemaHolds

LEMMA CompaniesOnlyGrow ==
  ASSUME TypeOK, [Next]_vars
  PROVE  /\ companies' \in Seq(Company)
         /\ \A k \in DOMAIN companies : k \in DOMAIN companies' /\ companies'[k] = companies[k]
<1> USE DEF TypeOK
<1>1. CASE companies' = companies
  BY <1>1
<1>2. ASSUME NEW c \in Callers, CreateCompany(c), companies' # companies
      PROVE  \E row \in Company : companies' = Append(companies, row)
  <2>1. call[c] \in [op : {"create"}, user : Users, name : Texts]
    BY <1>2 DEF CreateCompany, Waiting, Idle, Call
  <2> QED
    BY <1>2, <2>1 DEF CreateCompany, Company
<1>a. ASSUME NEW c \in Callers, Statement(c), ~CreateCompany(c)
      PROVE  companies' = companies
  BY <1>a DEF Statement, StartEntry, LogEntry, StopEntry, RenameEntry, DeleteEntry, RestoreEntry,
     InsertEntry, ChangeEntry
<1>b. ASSUME NEW c \in Callers, NEW u \in Users, Service(c, u)
      PROVE  companies' = companies
  BY <1>b DEF Service, AddCompany, Start, Log, Stop, Rename, Delete, Restore, Issue
<1>3. companies' = companies \/ \E row \in Company : companies' = Append(companies, row)
  BY <1>2, <1>a, <1>b DEF Next, ClockMoves, vars
<1>4. ASSUME NEW row \in Company, companies' = Append(companies, row)
      PROVE  /\ companies' \in Seq(Company)
             /\ \A k \in DOMAIN companies : k \in DOMAIN companies' /\ companies'[k] = companies[k]
  BY <1>4, AppendRow
<1> QED
  BY <1>1, <1>3, <1>4

LEMMA CallsStep ==
  ASSUME TypeOK, LogsForward, [Next]_vars
  PROVE  /\ now' \in Times
         /\ call' \in [Callers -> Call]
         /\ LogsForward'
         /\ EntriesEffect
<1> USE DEF TypeOK
<1>1. ASSUME NEW c \in Callers, Statement(c)
      PROVE  now' \in Times /\ call' \in [Callers -> Call] /\ LogsForward' /\ EntriesEffect
  <2>1. call' = [call EXCEPT ![c] = None] /\ now' = now
    BY <1>1 DEF Statement, CreateCompany, StartEntry, LogEntry, StopEntry, RenameEntry, DeleteEntry,
           RestoreEntry, Done, InsertEntry, ChangeEntry
  <2>2. EntriesEffect
    BY <1>1, StatementEffect
  <2> QED
    BY <2>1, <2>2 DEF Call, LogsForward, Waiting, Idle
<1>2. ASSUME NEW c \in Callers, NEW u \in Users, Service(c, u)
      PROVE  now' \in Times /\ call' \in [Callers -> Call] /\ LogsForward' /\ EntriesEffect
  <2>1. TypeOK' /\ entries' = entries
    BY <1>2, ServiceType
       DEF Service, AddCompany, Start, Log, Rename, Stop, Delete, Restore, Issue
  <2>2. ASSUME NEW stmt, Issue(c, stmt), stmt.op = "log" => stmt.start <= stmt.end
        PROVE  LogsForward'
    BY <2>2 DEF Issue, LogsForward, Waiting, Idle
  <2>3. ASSUME NEW k \in Ids(companies), NEW t \in Tasks, NEW s \in Times, NEW d \in Durations,
               Log(c, u, k, t, s, d)
        PROVE  LogsForward'
    <3>1. s <= s + d
      BY <2>3, TimeAssumption DEF Log
    <3> QED
      BY <2>2, <2>3, <3>1 DEF Log
  <2>4. LogsForward'
    BY <1>2, <2>2, <2>3 DEF Service, AddCompany, Start, Rename, Stop, Delete, Restore
  <2> QED
    BY <2>1, <2>4 DEF EntriesEffect
<1>3. CASE ClockMoves \/ UNCHANGED vars
  BY <1>3 DEF ClockMoves, vars, LogsForward, Waiting, Idle, EntriesEffect
<1> QED
  BY <1>1, <1>2, <1>3 DEF Next

\* The five effects keep every row well formed and every constraint of the schema.
LEMMA EffectKeepsSchema ==
  ASSUME TypeOK, SchemaHolds, EntriesEffect,
         \A k \in DOMAIN companies : k \in DOMAIN companies' /\ companies'[k] = companies[k]
  PROVE  entries' \in Seq(Entry) /\ SchemaHolds'
<1> USE TimeAssumption DEF TypeOK, SchemaHolds, OwnerIsCompanysOwner, EndsAfterStart,
        ManualIsStopped, OwnsCompany
<1>1. CASE entries' = entries
  BY <1>1
<1>2. CASE Inserted
  BY <1>2, AppendRow DEF Inserted
<1>3. ASSUME NEW i \in DOMAIN entries, NEW row \in Entry, Became(i, row),
             row.user = entries[i].user, row.company = entries[i].company,
             row.stopped # None => row.stopped >= row.started,
             row.manual => row.stopped # None
      PROVE  entries' \in Seq(Entry) /\ SchemaHolds'
  BY <1>3, ReplaceRow DEF Became
<1>4. ASSUME NEW i \in DOMAIN entries,
             Stopped(i) \/ Renamed(i) \/ Deleted(i) \/ Restored(i)
      PROVE  entries' \in Seq(Entry) /\ SchemaHolds'
  <2>1. entries[i] \in Entry
    BY <1>4
  <2>2. CASE Stopped(i)
    BY <1>3, <2>1, <2>2 DEF Stopped, Entry
  <2>3. CASE Renamed(i)
    BY <1>3, <2>1, <2>3 DEF Renamed, Entry
  <2>4. CASE Deleted(i)
    BY <1>3, <2>1, <2>4 DEF Deleted, Entry
  <2>5. CASE Restored(i)
    BY <1>3, <2>1, <2>5 DEF Restored, Entry
  <2> QED
    BY <1>4, <2>2, <2>3, <2>4, <2>5
<1> QED
  BY <1>1, <1>2, <1>4 DEF EntriesEffect

\* The four effects on a row, seen from the table: the other rows stay, and
\* the row keeps its owner, its start and, once it has one, its end.
LEMMA ChangedRow ==
  ASSUME TypeOK, NEW i \in DOMAIN entries,
         Stopped(i) \/ Renamed(i) \/ Deleted(i) \/ Restored(i)
  PROVE  /\ DOMAIN entries' = DOMAIN entries
         /\ \A j \in DOMAIN entries \ {i} : entries'[j] = entries[j]
         /\ entries'[i].user = entries[i].user
         /\ entries'[i].started = entries[i].started
         /\ entries[i].stopped # None => entries'[i].stopped = entries[i].stopped
         /\ \E c \in Callers : ~Idle(c) /\ call'[c] = None /\ call[c].user = entries[i].user
<1>1. entries[i] \in Entry
  BY DEF TypeOK
<1> DEFINE Keeps(row) == /\ Became(i, row)
                         /\ row.user = entries[i].user
                         /\ row.started = entries[i].started
                         /\ entries[i].stopped # None => row.stopped = entries[i].stopped
<1>a. ASSUME Stopped(i) PROVE \E row : Keeps(row)
  <2>1. PICK t \in Int : entries[i].stopped = None /\ Became(i, [entries[i] EXCEPT !.stopped = t])
    BY <1>a DEF Stopped
  <2>2. Keeps([entries[i] EXCEPT !.stopped = t])
    BY <1>1, <2>1 DEF Entry
  <2> QED
    BY <2>2
<1>b. ASSUME Renamed(i) PROVE \E row : Keeps(row)
  <2>1. PICK t \in Texts : Became(i, [entries[i] EXCEPT !.task = t])
    BY <1>b DEF Renamed
  <2>2. Keeps([entries[i] EXCEPT !.task = t])
    BY <1>1, <2>1 DEF Entry
  <2> QED
    BY <2>2
<1>c. ASSUME Deleted(i) PROVE \E row : Keeps(row)
  <2>1. Keeps([entries[i] EXCEPT !.deleted = TRUE])
    BY <1>1, <1>c DEF Deleted, Entry
  <2> QED
    BY <2>1
<1>d. ASSUME Restored(i) PROVE \E row : Keeps(row)
  <2>1. Keeps([entries[i] EXCEPT !.deleted = FALSE])
    BY <1>1, <1>d DEF Restored, Entry
  <2> QED
    BY <2>1
<1>2. PICK row : Keeps(row)
  BY <1>a, <1>b, <1>c, <1>d
<1>3. entries' = [entries EXCEPT ![i] = row]
  BY <1>2 DEF Became
<1>4. /\ DOMAIN entries' = DOMAIN entries
      /\ \A j \in DOMAIN entries \ {i} : entries'[j] = entries[j]
      /\ entries'[i] = row
  BY <1>3 DEF TypeOK
<1> QED
  BY <1>2, <1>4 DEF Became

LEMMA TableInvInductive == TableInv /\ [Next]_vars => TableInv'
  BY CompaniesOnlyGrow, CallsStep, EffectKeepsSchema DEF TableInv, TypeOK

LEMMA TableInvInit == Init => TableInv
  BY DEF Init, TableInv, TypeOK, LogsForward, Waiting, Idle, Call, SchemaHolds,
     OwnerIsCompanysOwner, EndsAfterStart, ManualIsStopped

LEMMA Invariance == Spec => []TableInv
  BY TableInvInit, TableInvInductive, PTL DEF Spec

\* The tables and the statements waiting for them keep their types.
THEOREM TypeCorrect == Spec => []TypeOK
  BY Invariance, PTL DEF TableInv

\* No write of the service is ever refused by a constraint of the schema: the
\* composite foreign key and both CHECKs hold of every row, for any clock.
THEOREM SchemaAlwaysHolds == Spec => []SchemaHolds
  BY Invariance, PTL DEF TableInv

\* CountsMatchTimers: the counts beside the companies and the timers shown
\* running are of the same entries, because an entry's company exists and is its
\* owner's.
THEOREM CountsAgree == Spec => []CountsMatchTimers
<1>1. TypeOK /\ OwnerIsCompanysOwner => CountsMatchTimers
  <2> SUFFICES ASSUME TypeOK, OwnerIsCompanysOwner, NEW u \in Users
               PROVE  /\ \A i \in Running(u) : entries[i].company \in Companies(u)
                      /\ \A k \in Companies(u) :
                           RunningCount(k) = Cardinality({i \in Running(u) : entries[i].company = k})
    BY DEF CountsMatchTimers
  <2>1. \A i \in Running(u) : entries[i].company \in Companies(u)
    BY DEF Running, Companies, OwnerIsCompanysOwner, OwnsCompany
  <2>2. ASSUME NEW k \in Companies(u)
        PROVE  RunningCount(k) = Cardinality({i \in Running(u) : entries[i].company = k})
    <3>1. {i \in DOMAIN entries : /\ entries[i].user = companies[k].user
                                  /\ entries[i].company = k
                                  /\ IsRunning(i) /\ Live(i)}
            = {i \in Running(u) : entries[i].company = k}
      BY <2>2 DEF Running, Companies
    <3> QED
      BY <3>1 DEF RunningCount
  <2> QED
    BY <2>1, <2>2
<1> QED
  BY <1>1, Invariance, PTL DEF TableInv, SchemaHolds

(***************************************************************************)
(* What a step may never do.                                               *)
(***************************************************************************)
\* Once stopped, an entry's times never move again.
THEOREM StopsAreFinal == Spec => StopIsFinal
<1> DEFINE Kept == \A i \in DOMAIN entries :
                     /\ i \in DOMAIN entries'
                     /\ entries'[i].started = entries[i].started
                     /\ entries[i].stopped # None => entries'[i].stopped = entries[i].stopped
<1>1. TableInv /\ [Next]_vars => Kept
  <2> SUFFICES ASSUME TableInv, [Next]_vars PROVE Kept
    OBVIOUS
  <2> USE DEF TypeOK, TableInv
  <2>1. EntriesEffect
    BY CallsStep
  <2>2. CASE entries' = entries
    BY <2>2
  <2>3. CASE Inserted
    BY <2>3, AppendRow DEF Inserted
  <2>4. ASSUME NEW i \in DOMAIN entries,
               Stopped(i) \/ Renamed(i) \/ Deleted(i) \/ Restored(i)
        PROVE  Kept
    BY <2>4, ChangedRow
  <2> QED
    BY <2>1, <2>2, <2>3, <2>4 DEF EntriesEffect
<1> QED
  BY <1>1, Invariance, PTL DEF Spec, StopIsFinal

\* Every row that appears or changes does so by a statement of its own user.
THEOREM OwnersOnly == Spec => OwnerOnly
<1> DEFINE ByOwner == \A i \in DOMAIN entries' :
                      (i \in DOMAIN entries => entries'[i] # entries[i])
                        => \E c \in Callers : /\ ~Idle(c) /\ call'[c] = None
                                              /\ call[c].user = entries'[i].user
<1>1. TableInv /\ [Next]_vars => ByOwner
  <2> SUFFICES ASSUME TableInv, [Next]_vars PROVE ByOwner
    OBVIOUS
  <2> USE DEF TypeOK, TableInv
  <2>1. EntriesEffect
    BY CallsStep
  <2>2. CASE entries' = entries
    BY <2>2
  <2>3. CASE Inserted
    BY <2>3, AppendRow DEF Inserted
  <2>4. ASSUME NEW i \in DOMAIN entries,
               Stopped(i) \/ Renamed(i) \/ Deleted(i) \/ Restored(i)
        PROVE  ByOwner
    BY <2>4, ChangedRow
  <2> QED
    BY <2>1, <2>2, <2>3, <2>4 DEF EntriesEffect
<1> QED
  BY <1>1, Invariance, PTL DEF Spec, OwnerOnly

(***************************************************************************)
(* One company per name.                                                   *)
(***************************************************************************)
Collapsed(t) == Collapse[t] = t
NamesInv == /\ TypeOK
            /\ \A c \in Callers : Waiting(c, "create") => Collapsed(call[c].name)
            /\ \A k \in DOMAIN companies : Collapsed(companies[k].name)
            /\ NamesAreUnique

LEMMA NamesInvInductive == TableInv /\ NamesInv /\ [Next]_vars => NamesInv'
<1> SUFFICES ASSUME TableInv, NamesInv, [Next]_vars PROVE NamesInv'
  OBVIOUS
<1> USE DEF NamesInv, TypeOK
<1>1. TypeOK'
  BY TableInvInductive DEF TableInv
<1>2. ASSUME companies' = companies, NEW c \in Callers, call' = [call EXCEPT ![c] = None]
      PROVE  NamesInv'
  BY <1>1, <1>2 DEF Waiting, Idle, NamesAreUnique
<1>3. ASSUME NEW c \in Callers, NEW stmt, Issue(c, stmt),
             stmt.op = "create" => Collapsed(stmt.name)
      PROVE  NamesInv'
  BY <1>1, <1>3 DEF Issue, Waiting, Idle, NamesAreUnique
<1>4. ASSUME NEW c \in Callers, CreateCompany(c)
      PROVE  NamesInv'
  <2> DEFINE row == [user |-> call[c].user, name |-> call[c].name]
  <2>1. call[c] \in [op : {"create"}, user : Users, name : Texts] /\ Collapsed(call[c].name)
    BY <1>4 DEF CreateCompany, Waiting, Idle, Call
  <2>2. row \in Company /\ call' = [call EXCEPT ![c] = None]
    BY <1>4, <2>1 DEF Company, CreateCompany, Done
  <2>3. CASE NameTaken(call[c].user, call[c].name)
    BY <1>2, <1>4, <2>2, <2>3 DEF CreateCompany
  <2>4. CASE ~NameTaken(call[c].user, call[c].name)
    <3>1. companies' = Append(companies, row)
      BY <1>4, <2>4 DEF CreateCompany
    <3>2. /\ DOMAIN companies' = DOMAIN companies \cup {Len(companies) + 1}
          /\ \A k \in DOMAIN companies : companies'[k] = companies[k]
          /\ companies'[Len(companies) + 1] = row
      BY <2>2, <3>1, AppendRow
    <3>3. \A k \in DOMAIN companies :
            companies[k].user = row.user => Fold[companies[k].name] # Fold[row.name]
      BY <2>4 DEF NameTaken
    <3>4. \A k \in DOMAIN companies' : Collapsed(companies'[k].name)
      BY <2>1, <3>2
    <3>a. \A k \in DOMAIN companies : Collapsed(companies[k].name)
      OBVIOUS
    <3>b. \A j, k \in DOMAIN companies :
            companies[j].user = companies[k].user /\ Fold[companies[j].name] = Fold[companies[k].name]
              => j = k
      BY <3>a DEF NamesAreUnique, Collapsed
    <3>c. \A j, k \in DOMAIN companies' :
            /\ companies'[j].user = companies'[k].user
            /\ Fold[companies'[j].name] = Fold[companies'[k].name]
            => j = k
      <4> HIDE DEF row
      <4> QED
        BY <3>2, <3>3, <3>b
    <3>5. NamesAreUnique'
      BY <3>4, <3>c DEF NamesAreUnique, Collapsed
    <3>6. \A d \in Callers : Waiting(d, "create")' => Collapsed(call'[d].name)
      BY <2>2 DEF Waiting, Idle
    <3> QED
      BY <1>1, <3>4, <3>5, <3>6
  <2> QED
    BY <2>3, <2>4
<1>5. ASSUME NEW c \in Callers, Statement(c) PROVE NamesInv'
  BY <1>2, <1>4, <1>5 DEF Statement, StartEntry, LogEntry, StopEntry, RenameEntry, DeleteEntry,
     RestoreEntry, InsertEntry, ChangeEntry, Done
<1>6. ASSUME NEW c \in Callers, NEW u \in Users, NEW t \in Names, AddCompany(c, u, t)
      PROVE  NamesInv'
  BY <1>3, <1>6, TextAssumption DEF AddCompany, Collapsed, Texts
<1>7. ASSUME NEW c \in Callers, NEW u \in Users, Service(c, u) PROVE NamesInv'
  BY <1>3, <1>6, <1>7 DEF Service, Start, Log, Rename, Stop, Delete, Restore
<1>8. CASE ClockMoves \/ UNCHANGED vars
  BY <1>1, <1>8 DEF ClockMoves, vars, Waiting, Idle, NamesAreUnique
<1> QED
  BY <1>5, <1>7, <1>8 DEF Next

\* However many callers add companies at once, a user never has two whose names
\* differ only in whitespace or letter case.
THEOREM UniqueNames == Spec => []NamesAreUnique
<1>1. Init => NamesInv
  BY TableInvInit DEF Init, NamesInv, TableInv, Waiting, Idle, NamesAreUnique
<1>2. NamesInv => NamesAreUnique
  BY DEF NamesInv
<1> QED
  BY <1>1, <1>2, Invariance, NamesInvInductive, PTL DEF Spec

(***************************************************************************)
(* Tracking implements Timesheet.                                          *)
(***************************************************************************)
LEMMA TimesheetInit == Init => Timesheet!Init
  BY DEF Init, Timesheet!Init, sheet, bin

\* What an edit of one column does to a row.
LEMMA EditedRow ==
  ASSUME NEW e \in Entry
  PROVE  /\ \A b \in BOOLEAN : LET row == [e EXCEPT !.deleted = b] IN
              row \in Entry /\ row.deleted = b /\ Content(row) = Content(e)
         /\ \A t \in Texts : LET row == [e EXCEPT !.task = t] IN
              /\ row \in Entry /\ row.deleted = e.deleted
              /\ Content(row) = [Content(e) EXCEPT !.task = t]
         /\ \A t \in Int : LET row == [e EXCEPT !.stopped = t] IN
              /\ row \in Entry /\ row.deleted = e.deleted
              /\ Content(row) = [Content(e) EXCEPT !.stopped = t]
  BY DEF Entry, Content

\* A row replaced: it sits on the sheet or in the bin by its mark alone, and
\* every other row stays where it is.
LEMMA ReplacedRow ==
  ASSUME TypeOK, NEW i \in DOMAIN entries, NEW row \in Entry,
         entries' = [entries EXCEPT ![i] = row]
  PROVE  /\ DOMAIN sheet' = IF row.deleted THEN DOMAIN sheet \ {i} ELSE DOMAIN sheet \cup {i}
         /\ DOMAIN bin' = IF row.deleted THEN DOMAIN bin \cup {i} ELSE DOMAIN bin \ {i}
         /\ \A j \in DOMAIN sheet' : sheet'[j] = IF j = i THEN Content(row) ELSE sheet[j]
         /\ \A j \in DOMAIN bin' : bin'[j] = IF j = i THEN Content(row) ELSE bin[j]
<1>1. /\ DOMAIN entries' = DOMAIN entries
      /\ \A j \in DOMAIN entries : entries'[j] = IF j = i THEN row ELSE entries[j]
      /\ row.deleted \in BOOLEAN
  BY ReplaceRow DEF TypeOK, Entry
<1>2. DOMAIN sheet' = {j \in DOMAIN entries' : ~entries'[j].deleted}
  BY DEF sheet, Live
<1>3. DOMAIN bin' = {j \in DOMAIN entries' : entries'[j].deleted}
  BY DEF bin, Live
<1>4. /\ \A j \in DOMAIN sheet' : sheet'[j] = Content(entries'[j])
      /\ \A j \in DOMAIN bin' : bin'[j] = Content(entries'[j])
  BY DEF sheet, bin
<1>5. /\ DOMAIN sheet = {j \in DOMAIN entries : ~entries[j].deleted}
      /\ DOMAIN bin = {j \in DOMAIN entries : entries[j].deleted}
      /\ \A j \in DOMAIN sheet : sheet[j] = Content(entries[j])
      /\ \A j \in DOMAIN bin : bin[j] = Content(entries[j])
  BY DEF sheet, bin, Live
<1>6. /\ DOMAIN sheet' = IF row.deleted THEN DOMAIN sheet \ {i} ELSE DOMAIN sheet \cup {i}
      /\ DOMAIN bin' = IF row.deleted THEN DOMAIN bin \cup {i} ELSE DOMAIN bin \ {i}
  BY <1>1, <1>2, <1>3, <1>5
<1> QED
  BY <1>1, <1>2, <1>3, <1>4, <1>5, <1>6

\* The sheet and the bin are functions, so equal when they agree everywhere.
LEMMA SheetsAreFunctions ==
  /\ sheet = [j \in DOMAIN sheet |-> sheet[j]] /\ sheet' = [j \in DOMAIN sheet' |-> sheet'[j]]
  /\ bin = [j \in DOMAIN bin |-> bin[j]] /\ bin' = [j \in DOMAIN bin' |-> bin'[j]]
  BY DEF sheet, bin

LEMMA TimesheetStep == TableInv /\ [Next]_vars => [Timesheet!Next]_<<sheet, bin>>
<1> SUFFICES ASSUME TableInv, [Next]_vars PROVE [Timesheet!Next]_<<sheet, bin>>
  OBVIOUS
<1> USE DEF TypeOK, TableInv
<1>1. EntriesEffect
  BY CallsStep
<1>2. CASE entries' = entries
  BY <1>2 DEF sheet, bin, Live
<1>3. CASE Inserted
  <2> DEFINE i == Len(entries) + 1
  <2>1. PICK row \in Entry : entries' = Append(entries, row) /\ ~row.deleted
    BY <1>3 DEF Inserted
  <2>2. /\ DOMAIN entries' = DOMAIN entries \cup {i}
        /\ \A j \in DOMAIN entries : entries'[j] = entries[j]
        /\ entries'[i] = row
        /\ i \notin DOMAIN entries
    BY <2>1, AppendRow
  <2>3. bin' = bin
    BY <2>1, <2>2 DEF bin, Live
  <2>4. sheet' = Timesheet!With(sheet, i, sheet'[i])
    BY <2>1, <2>2 DEF sheet, Live, Timesheet!With
  <2>5. i \in DOMAIN sheet' \ (DOMAIN sheet \cup DOMAIN bin)
    BY <2>1, <2>2 DEF sheet, bin, Live
  <2> QED
    BY <2>3, <2>4, <2>5 DEF Timesheet!Next, Timesheet!Put
<1>5. ASSUME NEW i \in DOMAIN entries, NEW row \in Entry, entries' = [entries EXCEPT ![i] = row],
             Live(i), ~row.deleted
      PROVE  /\ bin' = bin
             /\ i \in DOMAIN sheet \cap DOMAIN sheet'
             /\ sheet' = Timesheet!With(sheet, i, Content(row))
             /\ sheet'[i] = Content(row) /\ sheet[i] = Content(entries[i])
  <2>1. i \in DOMAIN sheet /\ i \notin DOMAIN bin /\ sheet[i] = Content(entries[i])
    BY <1>5 DEF sheet, bin
  <2>2. /\ DOMAIN sheet' = DOMAIN sheet \cup {i} /\ DOMAIN bin' = DOMAIN bin \ {i}
        /\ \A j \in DOMAIN sheet' : sheet'[j] = IF j = i THEN Content(row) ELSE sheet[j]
        /\ \A j \in DOMAIN bin' : bin'[j] = IF j = i THEN Content(row) ELSE bin[j]
    BY <1>5, ReplacedRow
  <2>3. bin' = bin
    BY <2>1, <2>2, SheetsAreFunctions
  <2>4. sheet' = Timesheet!With(sheet, i, Content(row))
    BY <2>2, SheetsAreFunctions DEF Timesheet!With
  <2> QED
    BY <2>1, <2>2, <2>3, <2>4
<1>6. ASSUME NEW i \in DOMAIN entries, Stopped(i)
      PROVE  Timesheet!Finish
  <2>1. PICK t \in Int : /\ Live(i) /\ entries[i].stopped = None /\ t >= entries[i].started
                         /\ entries' = [entries EXCEPT ![i] = [entries[i] EXCEPT !.stopped = t]]
    BY <1>6 DEF Stopped, Became
  <2> DEFINE row == [entries[i] EXCEPT !.stopped = t]
  <2>a. entries[i] \in Entry
    OBVIOUS
  <2>b. row \in Entry /\ row.deleted = entries[i].deleted
    BY <2>a, EditedRow
  <2>2. row \in Entry /\ ~row.deleted
    BY <2>b, <2>1 DEF Live
  <2>3. Content(row) = [Content(entries[i]) EXCEPT !.stopped = t]
    BY <2>a, EditedRow
  <2>4. /\ bin' = bin
        /\ i \in DOMAIN sheet \cap DOMAIN sheet'
        /\ sheet' = Timesheet!With(sheet, i, Content(row))
        /\ sheet'[i] = Content(row) /\ sheet[i] = Content(entries[i])
    BY <1>5, <2>1, <2>2
  <2>5. /\ sheet[i].stopped = None /\ sheet[i].started = entries[i].started
        /\ sheet'[i].stopped = t /\ t # None
    BY <2>1, <2>3, <2>4, TimeAssumption DEF Content
  <2> HIDE DEF row
  <2>6. Content(row) = [sheet[i] EXCEPT !.stopped = sheet'[i].stopped]
    BY <2>3, <2>4, <2>5
  <2>7. sheet' = Timesheet!With(sheet, i, [sheet[i] EXCEPT !.stopped = sheet'[i].stopped])
    BY <2>4, <2>6
  <2> QED
    BY <2>1, <2>4, <2>5, <2>7 DEF Timesheet!Finish
<1>7. ASSUME NEW i \in DOMAIN entries, Renamed(i)
      PROVE  Timesheet!Rename
  <2>1. PICK t \in Texts : /\ Live(i)
                           /\ entries' = [entries EXCEPT ![i] = [entries[i] EXCEPT !.task = t]]
    BY <1>7 DEF Renamed, Became
  <2> DEFINE row == [entries[i] EXCEPT !.task = t]
  <2>a. entries[i] \in Entry
    OBVIOUS
  <2>b. row \in Entry /\ row.deleted = entries[i].deleted
    BY <2>a, EditedRow
  <2>2. row \in Entry /\ ~row.deleted
    BY <2>b, <2>1 DEF Live
  <2>3. Content(row) = [Content(entries[i]) EXCEPT !.task = t]
    BY <2>a, EditedRow
  <2>4. /\ bin' = bin
        /\ i \in DOMAIN sheet \cap DOMAIN sheet'
        /\ sheet' = Timesheet!With(sheet, i, Content(row))
        /\ sheet'[i] = Content(row) /\ sheet[i] = Content(entries[i])
    BY <1>5, <2>1, <2>2
  <2>5. sheet'[i].task = t
    BY <2>3, <2>4 DEF Content
  <2> HIDE DEF row
  <2>6. Content(row) = [sheet[i] EXCEPT !.task = sheet'[i].task]
    BY <2>3, <2>4, <2>5
  <2>7. sheet' = Timesheet!With(sheet, i, [sheet[i] EXCEPT !.task = sheet'[i].task])
    BY <2>4, <2>6
  <2> QED
    BY <2>4, <2>7 DEF Timesheet!Rename
<1>8. ASSUME NEW i \in DOMAIN entries, Deleted(i)
      PROVE  Timesheet!Remove
  <2> DEFINE row == [entries[i] EXCEPT !.deleted = TRUE]
  <2>1. Live(i) /\ entries' = [entries EXCEPT ![i] = row]
    BY <1>8 DEF Deleted, Became
  <2>a. entries[i] \in Entry
    OBVIOUS
  <2>2. row \in Entry /\ row.deleted /\ Content(row) = Content(entries[i])
    BY <2>a, EditedRow
  <2>3. i \in DOMAIN sheet /\ sheet[i] = Content(entries[i])
    BY <2>1 DEF sheet
  <2>4. /\ DOMAIN sheet' = DOMAIN sheet \ {i} /\ DOMAIN bin' = DOMAIN bin \cup {i}
        /\ \A j \in DOMAIN sheet' : sheet'[j] = IF j = i THEN Content(row) ELSE sheet[j]
        /\ \A j \in DOMAIN bin' : bin'[j] = IF j = i THEN Content(row) ELSE bin[j]
    BY <2>1, <2>2, ReplacedRow
  <2>5. sheet' = Timesheet!Without(sheet, i)
    BY <2>4, SheetsAreFunctions DEF Timesheet!Without
  <2>6. bin' = Timesheet!With(bin, i, sheet[i])
    <3> HIDE DEF row
    <3> QED
      BY <2>2, <2>3, <2>4, SheetsAreFunctions DEF Timesheet!With
  <2> QED
    BY <2>3, <2>5, <2>6 DEF Timesheet!Remove
<1>9. ASSUME NEW i \in DOMAIN entries, Restored(i)
      PROVE  Timesheet!PutBack
  <2> DEFINE row == [entries[i] EXCEPT !.deleted = FALSE]
  <2>1. ~Live(i) /\ entries' = [entries EXCEPT ![i] = row]
    BY <1>9 DEF Restored, Became
  <2>a. entries[i] \in Entry
    OBVIOUS
  <2>2. row \in Entry /\ ~row.deleted /\ Content(row) = Content(entries[i])
    BY <2>a, EditedRow
  <2>3. i \in DOMAIN bin /\ bin[i] = Content(entries[i])
    BY <2>1 DEF bin
  <2>4. /\ DOMAIN sheet' = DOMAIN sheet \cup {i} /\ DOMAIN bin' = DOMAIN bin \ {i}
        /\ \A j \in DOMAIN sheet' : sheet'[j] = IF j = i THEN Content(row) ELSE sheet[j]
        /\ \A j \in DOMAIN bin' : bin'[j] = IF j = i THEN Content(row) ELSE bin[j]
    BY <2>1, <2>2, ReplacedRow
  <2>5. bin' = Timesheet!Without(bin, i)
    BY <2>4, SheetsAreFunctions DEF Timesheet!Without
  <2>6. sheet' = Timesheet!With(sheet, i, bin[i])
    <3> HIDE DEF row
    <3> QED
      BY <2>2, <2>3, <2>4, SheetsAreFunctions DEF Timesheet!With
  <2> QED
    BY <2>3, <2>5, <2>6 DEF Timesheet!PutBack
<1> QED
  BY <1>1, <1>2, <1>3, <1>6, <1>7, <1>8, <1>9 DEF EntriesEffect, Timesheet!Next

\* Delete and Undo, in any interleaving with stops and renames of the same
\* entry, are a move to the bin and back of the entry exactly as it was.
THEOREM TrackingImplementsTimesheet == Spec => ImplementsTimesheet
  BY TimesheetInit, TimesheetStep, Invariance, PTL DEF Spec, ImplementsTimesheet, Timesheet!Spec
=============================================================================
