-------------------------------- MODULE Live --------------------------------
(***************************************************************************)
(* Live dashboards: write handlers, the bus, the dashboard streams and the *)
(* pages they feed (internal/web: bus.go, handlers_dashboard.go,           *)
(* handlers_entry.go, handlers_stream.go; cmd/tasker/main.go for the life  *)
(* of the process).                                                        *)
(*                                                                         *)
(* What a dashboard shows is abstracted to a version: db[u] counts the     *)
(* committed changes of user u's companies and timers, and a company list  *)
(* or timer list is known by the version it was read at.  busy[u] says     *)
(* whether any of the user's timers is running, which is all a tick asks.  *)
(*                                                                         *)
(* A handler reads companies and timers in two queries, so another         *)
(* request's commit can fall between them.  What one send puts on a page   *)
(* is one message, applied whole.  A response and a stream are separate    *)
(* connections: a stream delivers its messages in order, and nothing       *)
(* orders a response against them.                                         *)
(***************************************************************************)
EXTENDS Bus, Integers, Sequences

CONSTANTS
  Pages,       \* browser pages showing the dashboard
  Owner,       \* the user signed in on each page
  Requests,    \* requests in flight at once
  None,
  MaxChanges,  \* bounds of the model: commits by each user,
  MaxUpsets,   \* failures, lost connections, page visits and restarts in all,
  MaxOut       \* and messages unsent on a stream before it blocks

ASSUME OwnerAssumption == Owner \in [Pages -> Users]
ASSUME NoneAssumption == None \notin Users \cup Pages \cup Streams \cup Nat

VARIABLES
  server,  \* "up", "closing" (shutting down) or "down"
  db, busy,
  req,     \* write and page-load handlers, and their responses on the way back
  stream,  \* GetStream handlers, and their messages on the way to the page
  page,    \* what each browser page shows, and the stream it is attached to
  upsets   \* how many of MaxUpsets have happened
vars == <<subs, full, server, db, busy, req, stream, page, upsets>>

(***************************************************************************)
(* Messages: what a send replaces on the page, None being left alone.      *)
(***************************************************************************)
Message(c, t, flash) == [companies |-> c, timers |-> t, flash |-> flash]
Flash(text) == Message(None, None, text)   \* "" clears; "paused"; "said", any other

NoRequest == [pc |-> "idle", user |-> None, page |-> None, load |-> FALSE,
              missed |-> FALSE, companies |-> 0, out |-> None]
NoStream == [pc |-> "off", user |-> None, companies |-> 0, timers |-> 0, ticks |-> FALSE,
             paused |-> FALSE, out |-> <<>>]
\* shown by the page; and, of that, the newest the page's loads and streams brought
NoPage == [open |-> FALSE, stream |-> None, companies |-> 0, timers |-> 0, flash |-> "",
           streamed |-> [companies |-> 0, timers |-> 0]]

Init == /\ BusInit
        /\ server = "up"
        /\ db = [u \in Users |-> 0]
        /\ busy \in [Users -> BOOLEAN]
        /\ req = [r \in Requests |-> NoRequest]
        /\ stream = [s \in Streams |-> NoStream]
        /\ page = [p \in Pages |-> NoPage]
        /\ upsets = 0

Upset == upsets < MaxUpsets /\ upsets' = upsets + 1
NoUpset == upsets' = upsets

(***************************************************************************)
(* Requests: a page load, or a button that writes.  Buttons pressed on     *)
(* another device (page None) matter only through the store.               *)
(***************************************************************************)
Load(r, p) ==
  /\ server = "up" /\ req[r].pc = "idle"
  /\ ~page[p].open /\ \A q \in Requests : req[q].page # p
  /\ req' = [req EXCEPT ![r] = [NoRequest EXCEPT !.pc = "companies", !.user = Owner[p],
                                                 !.page = p, !.load = TRUE]]
  /\ UNCHANGED <<subs, full, server, db, busy, stream, page, upsets>>

Press(r, p) ==
  /\ server = "up" /\ req[r].pc = "idle" /\ page[p].open
  /\ req' = [req EXCEPT ![r] = [NoRequest EXCEPT !.pc = "write", !.user = Owner[p], !.page = p]]
  /\ UNCHANGED <<subs, full, server, db, busy, stream, page, upsets>>

PressElsewhere(r, u) ==
  /\ server = "up" /\ req[r].pc = "idle"
  /\ req' = [req EXCEPT ![r] = [NoRequest EXCEPT !.pc = "write", !.user = u]]
  /\ UNCHANGED <<subs, full, server, db, busy, stream, page, upsets>>

\* The write commits and is still to be announced.
Commit(r) ==
  /\ req[r].pc = "write"
  /\ db[req[r].user] < MaxChanges
  /\ db' = [db EXCEPT ![req[r].user] = @ + 1]
  /\ \E b \in BOOLEAN : busy' = [busy EXCEPT ![req[r].user] = b]
  /\ req' = [req EXCEPT ![r].pc = "announce"]
  /\ UNCHANGED <<subs, full, server, stream, page, upsets>>

\* Mutant: ErrNotFound answers nothing.
MissSilently(r) ==
  /\ req[r].pc = "write" /\ req[r].page # None
  /\ req' = [req EXCEPT ![r].pc = "sent"]
  /\ UNCHANGED <<subs, full, server, db, busy, stream, page, upsets>>

\* ErrNotFound from a start or a stop: nothing was written and nothing is
\* announced, but the page is brought up to date and told why.
Miss(r) ==
  /\ req[r].pc = "write" /\ req[r].page # None
  /\ req' = [req EXCEPT ![r].pc = "companies", ![r].missed = TRUE]
  /\ UNCHANGED <<subs, full, server, db, busy, stream, page, upsets>>

\* Any other refusal answers with a message alone, on the page or, for an
\* entry's form, inside the dialog.
Refuse(r) ==
  /\ req[r].pc = "write"
  /\ \E text \in {"said", None} :
       req' = [req EXCEPT ![r].pc = "sent", ![r].out = Flash(text)]
  /\ UNCHANGED <<subs, full, server, db, busy, stream, page, upsets>>

Announce(r) ==
  /\ req[r].pc = "announce"
  /\ Broadcast(req[r].user)
  /\ req' = [req EXCEPT ![r].pc = "companies"]
  /\ UNCHANGED <<server, db, busy, stream, page, upsets>>

\* dashboard, its first query.
ReadCompanies(r) ==
  /\ req[r].pc = "companies" /\ req[r].page # None
  /\ req' = [req EXCEPT ![r].pc = "timers", ![r].companies = db[req[r].user]]
  /\ UNCHANGED <<subs, full, server, db, busy, stream, page, upsets>>

\* dashboard, its second query; and the answer, which patchDashboard sends.
ReadTimers(r) ==
  /\ req[r].pc = "timers" /\ req[r].page # None
  /\ req' = [req EXCEPT ![r].pc = "sent",
       ![r].out = Message(req[r].companies, db[req[r].user], IF req[r].missed THEN "said" ELSE "")]
  /\ UNCHANGED <<subs, full, server, db, busy, stream, page, upsets>>

\* Either query fails: the page is told, and a page load fails altogether.
ReadFails(r) ==
  /\ req[r].pc \in {"companies", "timers"} /\ req[r].page # None
  /\ Upset
  /\ req' = [req EXCEPT ![r] = IF req[r].load THEN NoRequest
                               ELSE [req[r] EXCEPT !.pc = "sent", !.out = Flash("said")]]
  /\ UNCHANGED <<subs, full, server, db, busy, stream, page>>

(***************************************************************************)
(* The browser.                                                            *)
(***************************************************************************)
Else(new, old) == IF new = None THEN old ELSE new
Apply(pg, m) == [pg EXCEPT !.companies = Else(m.companies, @), !.timers = Else(m.timers, @),
                           !.flash = Else(m.flash, @)]
\* A message that came by stream or page load, recorded also as brought by it.
ApplyStreamed(pg, m) ==
  [Apply(pg, m) EXCEPT !.streamed = [companies |-> Else(m.companies, @.companies),
                                     timers |-> Else(m.timers, @.timers)]]

\* A response reaches its page.
Respond(r) ==
  /\ req[r].pc = "sent" /\ req[r].page # None
  /\ page' = [page EXCEPT ![req[r].page] =
       IF req[r].load THEN [ApplyStreamed(@, req[r].out) EXCEPT !.open = TRUE]
                      ELSE Apply(@, req[r].out)]
  /\ req' = [req EXCEPT ![r] = NoRequest]
  /\ UNCHANGED <<subs, full, server, db, busy, stream, upsets>>

\* What is left of a request whose page is gone, or never was here, reads and
\* answers to no effect.
Discard(r) ==
  /\ req[r].pc \in {"companies", "timers", "sent"} /\ req[r].page = None
  /\ req' = [req EXCEPT ![r] = NoRequest]
  /\ UNCHANGED <<subs, full, server, db, busy, stream, page, upsets>>

LoseResponse(r) ==
  /\ req[r].pc = "sent" /\ req[r].page # None
  /\ Upset
  /\ req' = [req EXCEPT ![r] = NoRequest]
  /\ UNCHANGED <<subs, full, server, db, busy, stream, page>>

\* The next message of a stream reaches the page.
Receives(p) ==
  LET s == page[p].stream IN
  /\ s # None /\ stream[s].out # <<>>
  /\ page' = [page EXCEPT ![p] = ApplyStreamed(page[p], Head(stream[s].out))]
  /\ stream' = [stream EXCEPT ![s].out = Tail(@)]
  /\ UNCHANGED <<subs, full, server, db, busy, req, upsets>>

Detach(p) == stream' = IF page[p].stream = None THEN stream
                       ELSE [stream EXCEPT ![page[p].stream].out = <<>>]

LoseConnection(p) ==
  /\ page[p].stream # None
  /\ Upset
  /\ Detach(p)
  /\ page' = [page EXCEPT ![p].stream = None]
  /\ UNCHANGED <<subs, full, server, db, busy, req>>

\* The server ended the stream and the page has read all of it.
NoticeEnd(p) ==
  LET s == page[p].stream IN
  /\ s # None /\ stream[s].pc = "off" /\ stream[s].out = <<>>
  /\ page' = [page EXCEPT ![p].stream = None]
  /\ UNCHANGED <<subs, full, server, db, busy, req, stream, upsets>>

\* The page is closed: its requests are cancelled and its stream dropped.
Leave(p) ==
  /\ page[p].open
  /\ Upset
  /\ Detach(p)
  /\ page' = [page EXCEPT ![p].open = FALSE, ![p].stream = None]
  /\ req' = [r \in Requests |-> IF req[r].page = p THEN [req[r] EXCEPT !.page = None] ELSE req[r]]
  /\ UNCHANGED <<subs, full, server, db, busy>>

(***************************************************************************)
(* GetStream.                                                              *)
(***************************************************************************)
Attached(s) == \E p \in Pages : page[p].stream = s

\* Mutant: a reconnecting stream reads its timers only.
OpenAtTimers(p, s) ==
  /\ server = "up" /\ page[p].open /\ page[p].stream = None
  /\ stream[s].pc = "off" /\ ~Attached(s)
  /\ Subscribe(Owner[p], s)
  /\ stream' = [stream EXCEPT ![s] = [NoStream EXCEPT !.pc = "timers", !.user = Owner[p]]]
  /\ page' = [page EXCEPT ![p].stream = s]
  /\ UNCHANGED <<server, db, busy, req, upsets>>

\* The page opens its stream, at first or again (retry 'always'), and the
\* handler subscribes before it reads anything.
Open(p, s) ==
  /\ server = "up"
  /\ page[p].open /\ page[p].stream = None
  /\ stream[s].pc = "off" /\ ~Attached(s)
  /\ Subscribe(Owner[p], s)
  /\ stream' = [stream EXCEPT ![s] = [NoStream EXCEPT !.pc = "companies", !.user = Owner[p]]]
  /\ page' = [page EXCEPT ![p].stream = s]
  /\ UNCHANGED <<server, db, busy, req, upsets>>

\* reload, first query.  The send that follows blocks while too much is unsent.
ReloadCompanies(s) ==
  /\ stream[s].pc = "companies" /\ Attached(s)
  /\ stream' = [stream EXCEPT ![s].pc = "timers", ![s].companies = db[stream[s].user]]
  /\ UNCHANGED <<subs, full, server, db, busy, req, page, upsets>>

\* Mutant: the pending signal is drained once the timers are read.
ReloadTimersDraining(s) ==
  /\ stream[s].pc = "timers" /\ Attached(s) /\ Len(stream[s].out) < MaxOut
  /\ LET t == db[stream[s].user] IN
       stream' = [stream EXCEPT ![s].pc = "select", ![s].timers = t,
         ![s].ticks = busy[stream[s].user], ![s].out = Append(@, Message(stream[s].companies, t, None))]
  /\ full' = full \ {s}
  /\ UNCHANGED <<subs, server, db, busy, req, page, upsets>>

\* reload, second query, and both fragments.
ReloadTimers(s) ==
  /\ stream[s].pc = "timers" /\ Attached(s)
  /\ Len(stream[s].out) < MaxOut
  /\ LET t == db[stream[s].user] IN
       stream' = [stream EXCEPT ![s].pc = "select", ![s].paused = FALSE,
         ![s].timers = t, ![s].ticks = busy[stream[s].user],
         ![s].out = Append(@, Message(stream[s].companies, t,
                                      IF stream[s].paused THEN "" ELSE None))]
  /\ UNCHANGED <<subs, full, server, db, busy, req, page, upsets>>

\* Mutant: a failed reload is taken for a good one.
ReloadFailsUnnoticed(s) ==
  /\ stream[s].pc \in {"companies", "timers"} /\ Attached(s)
  /\ Upset
  /\ stream' = [stream EXCEPT ![s].pc = "select"]
  /\ UNCHANGED <<subs, full, server, db, busy, req, page>>

\* Either query fails: the page is told, and the next change tries again.
ReloadFails(s) ==
  /\ stream[s].pc \in {"companies", "timers"} /\ Attached(s)
  /\ Len(stream[s].out) < MaxOut
  /\ Upset
  /\ stream' = [stream EXCEPT ![s].pc = "select", ![s].paused = TRUE,
                              ![s].out = Append(@, Flash("paused"))]
  /\ UNCHANGED <<subs, full, server, db, busy, req, page>>

Wake(s) ==
  /\ stream[s].pc = "select"
  /\ Receive(s)
  /\ stream' = [stream EXCEPT ![s].pc = "companies"]
  /\ UNCHANGED <<server, db, busy, req, page, upsets>>

\* Mutant: a tick sends the company list instead of the timers.
TickCompanies(s) ==
  /\ stream[s].pc = "select" /\ Attached(s)
  /\ stream[s].ticks /\ Len(stream[s].out) < MaxOut
  /\ stream' = [stream EXCEPT ![s].out = Append(@, Message(stream[s].companies, None, None))]
  /\ UNCHANGED <<subs, full, server, db, busy, req, page, upsets>>

\* A second passes: the timers of the last successful read are sent again.
Tick(s) ==
  /\ stream[s].pc = "select" /\ Attached(s)
  /\ stream[s].ticks /\ Len(stream[s].out) < MaxOut
  /\ stream' = [stream EXCEPT ![s].out = Append(@, Message(None, stream[s].timers, None))]
  /\ UNCHANGED <<subs, full, server, db, busy, req, page, upsets>>

\* The handler returns; what it sent may still be on its way.
EndStream(s) ==
  /\ Unsubscribe(stream[s].user, s)
  /\ stream' = [stream EXCEPT ![s] = [NoStream EXCEPT !.out = stream[s].out]]
  /\ UNCHANGED <<server, db, busy, req, page, upsets>>

\* The request's context is done, whatever the handler was doing.
BrowserGone(s) == stream[s].pc # "off" /\ ~Attached(s) /\ EndStream(s)

\* Mutant: the handler looks for Closing only when a signal wakes it.
SeeClosingSignalled(s) ==
  server = "closing" /\ stream[s].pc = "select" /\ s \in full /\ EndStream(s)

\* Closing is seen in the select only.
SeeClosing(s) == server = "closing" /\ stream[s].pc = "select" /\ EndStream(s)

(***************************************************************************)
(* The process.                                                            *)
(***************************************************************************)
\* Every goroutine is gone; bytes already sent may still arrive.
Stopped ==
  /\ server' = "down"
  /\ subs' = [u \in {} |-> {}] /\ full' = {}
  /\ stream' = [s \in Streams |-> [NoStream EXCEPT !.out = stream[s].out]]
  /\ req' = [r \in Requests |-> IF req[r].pc = "sent" THEN req[r] ELSE NoRequest]
  /\ UNCHANGED <<db, busy, page>>

Crash == server # "down" /\ Upset /\ Stopped

\* SIGTERM: Shutdown takes no new connections and closes Closing.
Shutdown ==
  /\ server = "up"
  /\ Upset
  /\ server' = "closing"
  /\ UNCHANGED <<subs, full, db, busy, req, stream, page>>

Drained == /\ \A s \in Streams : stream[s].pc = "off"
           /\ \A r \in Requests : req[r].pc \in {"idle", "sent"}
ShutdownDone == server = "closing" /\ Drained /\ Stopped /\ NoUpset

\* shutdownTimeout ran out: serve returns an error and the process exits.
ShutdownTimeout == server = "closing" /\ ~Drained /\ Upset /\ Stopped

Restart == /\ server = "down"
           /\ server' = "up"
           /\ UNCHANGED <<subs, full, db, busy, req, stream, page, upsets>>

-----------------------------------------------------------------------------
Handler(r) == \/ Commit(r) \/ Miss(r) \/ Refuse(r) \/ Announce(r)
              \/ ReadCompanies(r) \/ ReadTimers(r) \/ ReadFails(r) \/ Discard(r)
Reload(s) == ReloadCompanies(s) \/ ReloadTimers(s) \/ ReloadFails(s)
Browser(p) == \/ Receives(p) \/ LoseConnection(p) \/ NoticeEnd(p) \/ Leave(p)
              \/ \E s \in Streams : Open(p, s)

Next == \/ \E r \in Requests : \/ Handler(r) \/ Respond(r) \/ LoseResponse(r)
                               \/ \E p \in Pages : Load(r, p) \/ Press(r, p)
                               \/ \E u \in Users : PressElsewhere(r, u)
        \/ \E p \in Pages : Browser(p)
        \/ \E s \in Streams : \/ Reload(s) \/ Wake(s) \/ Tick(s)
                              \/ BrowserGone(s) \/ SeeClosing(s)
        \/ Crash \/ Shutdown \/ ShutdownDone \/ ShutdownTimeout \/ Restart

Spec == Init /\ [][Next]_vars

(***************************************************************************)
(* Fairness.  Goroutines are scheduled, and select picks at random among   *)
(* what is ready, so a ready case is not passed over for ever.  A browser  *)
(* reads what it is sent and reopens its stream (retry 'always'), and the  *)
(* process is restarted.  Nobody is obliged to press anything, and nothing *)
(* is obliged to fail.                                                     *)
(***************************************************************************)
Fairness ==
  /\ \A r \in Requests : WF_vars(Handler(r)) /\ WF_vars(Respond(r))
  /\ \A p \in Pages : /\ WF_vars(Receives(p)) /\ WF_vars(NoticeEnd(p))
                      /\ WF_vars(\E s \in Streams : Open(p, s))
  /\ \A s \in Streams : /\ WF_vars(Reload(s)) /\ WF_vars(Wake(s)) /\ WF_vars(Tick(s))
                        /\ WF_vars(BrowserGone(s)) /\ WF_vars(SeeClosing(s))
  /\ WF_vars(ShutdownDone) /\ WF_vars(Restart)

FairSpec == Spec /\ Fairness

-----------------------------------------------------------------------------
(***************************************************************************)
(* Properties.                                                             *)
(***************************************************************************)
Version == Nat \cup {None}
Messages == [companies : Version, timers : Version, flash : {"", "paused", "said", None}]
RequestStates ==
  [pc : {"idle", "write", "announce", "companies", "timers", "sent"},
   user : Users \cup {None}, page : Pages \cup {None}, load : BOOLEAN, missed : BOOLEAN,
   companies : Nat, out : Messages \cup {None}]
StreamStates ==
  [pc : {"off", "companies", "timers", "select"}, user : Users \cup {None},
   companies : Nat, timers : Nat, ticks : BOOLEAN, paused : BOOLEAN, out : Seq(Messages)]
PageStates ==
  [open : BOOLEAN, stream : Streams \cup {None}, companies : Nat, timers : Nat,
   flash : {"", "paused", "said"}, streamed : [companies : Nat, timers : Nat]]

TypeOK ==
  /\ BusTypeOK
  /\ server \in {"up", "closing", "down"}
  /\ db \in [Users -> Nat] /\ busy \in [Users -> BOOLEAN]
  /\ req \in [Requests -> RequestStates]
  /\ \A r \in Requests : /\ req[r].pc # "idle" => req[r].user \in Users
                         /\ req[r].pc = "sent" => req[r].out \in Messages
  /\ stream \in [Streams -> StreamStates]
  /\ \A s \in Streams : stream[s].pc # "off" => stream[s].user \in Users
  /\ page \in [Pages -> PageStates]
  /\ upsets \in Nat

\* The bus's listeners are exactly the streams being served, each under its own
\* user, and no user without one keeps a key: across subscribing, leaving,
\* reconnecting before the old stream has ended, and restarts.
ListenersAreStreams ==
  /\ \A u \in Users : Listeners(u) = {s \in Streams : stream[s].pc # "off" /\ stream[s].user = u}
  /\ \A u \in DOMAIN subs : subs[u] # {}

\* A signal reaches a stream only by a request of its own user announcing.
OwnSignalsOnly ==
  [][\A s \in full' \ full : \E r \in Requests : /\ req[r].pc = "announce"
                                               /\ req[r].user = stream[s].user
                                               /\ req'[r].pc # "announce"]_vars

\* A change the stream has not seen is on its way to it: signalled, or
\* committed and about to be announced.
Coming(s) == \/ s \in full
             \/ \E r \in Requests : req[r].pc = "announce" /\ req[r].user = stream[s].user

\* A stream waiting in its select, whose last read succeeded, has sent the
\* current companies and timers unless a change is coming.  Subscribing before
\* the first read, announcing after the commit, and re-reading on a signal are
\* all needed, and two reads torn by a commit are covered by its signal.
StaleIsSignalled ==
  \A s \in Streams :
    stream[s].pc = "select" /\ ~stream[s].paused =>
      \/ Coming(s)
      \/ stream[s].companies = db[stream[s].user] /\ stream[s].timers = db[stream[s].user]

\* Nothing of the page's user is in flight or on its way to the page.
Quiet(p) ==
  LET s == page[p].stream IN
  /\ page[p].open /\ s # None
  /\ stream[s].pc = "select" /\ s \notin full /\ stream[s].out = <<>>
  /\ \A r \in Requests : req[r].user # Owner[p]
Paused(p) == page[p].stream # None /\ stream[page[p].stream].paused
Current(p) == [companies |-> db[Owner[p]], timers |-> db[Owner[p]]]

\* When all is quiet, what the stream brought to the page is the current truth,
\* unless its last reload failed.
QuietStreamIsCurrent ==
  \A p \in Pages : Quiet(p) /\ ~Paused(p) => page[p].streamed = Current(p)

\* What bus.go says of the page itself: two changes racing each other both end
\* in the current truth, and no older render arrives last and wins.
QuietPageIsCurrent ==
  \A p \in Pages : Quiet(p) /\ ~Paused(p) =>
    page[p].companies = db[Owner[p]] /\ page[p].timers = db[Owner[p]]

\* What streams bring to a page is a Mirror of the user's data, through torn
\* reads, ticks, failures, reconnections and restarts.
streamed == [p \in Pages |-> page[p].streamed]
Mirror == INSTANCE Mirror WITH source <- db, copy <- streamed
StreamedNeverGoesBack == Mirror!Spec

\* In the end every open page has been brought the current truth by its stream,
\* or has a stream whose last reload failed.
CatchesUp ==
  \A p \in Pages :
    <>[](page[p].open => page[p].streamed = Current(p) \/ Paused(p))

\* While any timer runs, the ticks put right a timer list that a late response
\* had set back.
TicksHeal ==
  \A p \in Pages :
    <>[](page[p].open /\ busy[Owner[p]] => page[p].timers = db[Owner[p]] \/ Paused(p))

\* A shutdown ends, without running into its timeout, while browsers read.
ShutdownEnds == server = "closing" ~> server = "down"
=============================================================================
