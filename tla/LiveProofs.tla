----------------------------- MODULE LiveProofs -----------------------------
(***************************************************************************)
(* Theorems about Live, for any users, pages, streams, requests and bounds. *)
(***************************************************************************)
EXTENDS Live, TLAPS

(***************************************************************************)
(* Type correctness: one lemma for each kind of actor.                     *)
(***************************************************************************)
\* What a message leaves on a page is still a page.
LEMMA ApplyType ==
  ASSUME NEW pg \in PageStates, NEW m \in Messages
  PROVE  Apply(pg, m) \in PageStates /\ ApplyStreamed(pg, m) \in PageStates
<1>1. /\ Else(m.companies, pg.companies) \in Nat
      /\ Else(m.timers, pg.timers) \in Nat
      /\ Else(m.flash, pg.flash) \in {"", "paused", "said"}
      /\ Else(m.companies, pg.streamed.companies) \in Nat
      /\ Else(m.timers, pg.streamed.timers) \in Nat
  BY DEF Else, Messages, Version, PageStates
<1>2. Apply(pg, m) \in PageStates
  BY <1>1 DEF Apply, PageStates
<1>3. Apply(pg, m).streamed = pg.streamed
  BY DEF Apply, PageStates
<1> DEFINE brought == [companies |-> Else(m.companies, pg.streamed.companies),
                       timers |-> Else(m.timers, pg.streamed.timers)]
<1>4. brought \in [companies : Nat, timers : Nat]
  BY <1>1
<1>5. ApplyStreamed(pg, m) = [Apply(pg, m) EXCEPT !.streamed = brought]
  BY <1>3 DEF ApplyStreamed
<1> HIDE DEF brought
<1> QED
  BY <1>2, <1>4, <1>5 DEF PageStates

\* A request that steps to a request state of a user keeps the types.
LEMMA HandlerType ==
  ASSUME TypeOK, NEW r \in Requests, Handler(r)
  PROVE  TypeOK'
<1> USE NoneAssumption DEF TypeOK
<1>0. req[r] \in RequestStates
  OBVIOUS
<1>1. NoRequest \in RequestStates /\ NoRequest.pc = "idle"
  BY DEF NoRequest, RequestStates
<1>2. /\ \A text \in {"", "paused", "said", None} : Flash(text) \in Messages
      /\ \A c, t \in Nat, text \in {"", "paused", "said", None} : Message(c, t, text) \in Messages
  BY DEF Flash, Message, Messages, Version
<1>3. ASSUME NEW new \in RequestStates, req' = [req EXCEPT ![r] = new],
             new.pc # "idle" => new.user \in Users,
             new.pc = "sent" => new.out \in Messages,
             UNCHANGED <<server, stream, page>>, BusTypeOK',
             db' \in [Users -> Nat], busy' \in [Users -> BOOLEAN], upsets' \in Nat
      PROVE  TypeOK'
  BY <1>3
<1>4. UNCHANGED <<subs, full>> => BusTypeOK'
  BY DEF BusTypeOK
<1>5. CASE Commit(r)
  <2>1. [req[r] EXCEPT !.pc = "announce"] \in RequestStates
    BY <1>0 DEF RequestStates
  <2>2. /\ db' \in [Users -> Nat] /\ busy' \in [Users -> BOOLEAN]
    BY <1>5 DEF Commit
  <2> QED
    BY <1>3, <1>4, <1>5, <2>1, <2>2 DEF Commit, RequestStates
<1>6. CASE Miss(r)
  <2>1. [req[r] EXCEPT !.pc = "companies", !.missed = TRUE] \in RequestStates
    BY <1>0 DEF RequestStates
  <2> QED
    BY <1>3, <1>4, <1>6, <2>1 DEF Miss, RequestStates
<1>7. CASE Refuse(r)
  <2>1. PICK text \in {"said", None} :
          req' = [req EXCEPT ![r] = [req[r] EXCEPT !.pc = "sent", !.out = Flash(text)]]
    BY <1>7 DEF Refuse
  <2>2. Flash(text) \in Messages
    BY <1>2, <2>1
  <2>3. [req[r] EXCEPT !.pc = "sent", !.out = Flash(text)] \in RequestStates
    BY <1>0, <2>2 DEF RequestStates
  <2> QED
    BY <1>3, <1>4, <1>7, <2>1, <2>2, <2>3 DEF Refuse, RequestStates
<1>8. CASE Announce(r)
  <2>1. [req[r] EXCEPT !.pc = "companies"] \in RequestStates
    BY <1>0 DEF RequestStates
  <2>2. BusTypeOK'
    BY <1>8 DEF Announce, Broadcast, BusTypeOK, Listeners
  <2> QED
    BY <1>3, <1>8, <2>1, <2>2 DEF Announce, RequestStates
<1>9. CASE ReadCompanies(r)
  <2>1. [req[r] EXCEPT !.pc = "timers", !.companies = db[req[r].user]] \in RequestStates
    BY <1>0, <1>9 DEF RequestStates, ReadCompanies
  <2> QED
    BY <1>3, <1>4, <1>9, <2>1 DEF ReadCompanies, RequestStates
<1>10. CASE ReadTimers(r)
  <2> DEFINE m == Message(req[r].companies, db[req[r].user], IF req[r].missed THEN "said" ELSE "")
  <2>1. m \in Messages
    BY <1>0, <1>2, <1>10 DEF RequestStates, ReadTimers
  <2> HIDE DEF m
  <2>2. [req[r] EXCEPT !.pc = "sent", !.out = m] \in RequestStates
    BY <1>0, <2>1 DEF RequestStates
  <2>3. req' = [req EXCEPT ![r] = [req[r] EXCEPT !.pc = "sent", !.out = m]]
    BY <1>10 DEF ReadTimers, m
  <2> QED
    BY <1>3, <1>4, <1>10, <2>1, <2>2, <2>3 DEF ReadTimers, RequestStates
<1>11. CASE ReadFails(r)
  <2> DEFINE new == IF req[r].load THEN NoRequest
                    ELSE [req[r] EXCEPT !.pc = "sent", !.out = Flash("said")]
  <2>1. new \in RequestStates
    BY <1>0, <1>1, <1>2 DEF RequestStates
  <2>2. (new.pc # "idle" => new.user \in Users) /\ (new.pc = "sent" => new.out \in Messages)
    BY <1>0, <1>1, <1>2, <1>11 DEF RequestStates, ReadFails
  <2>3. req' = [req EXCEPT ![r] = new]
    BY <1>11 DEF ReadFails
  <2>4. upsets' \in Nat /\ UNCHANGED <<subs, full, server, db, busy, stream, page>>
    BY <1>11 DEF ReadFails, Upset
  <2> HIDE DEF new
  <2> QED
    BY <1>3, <1>4, <2>1, <2>2, <2>3, <2>4
<1>12. CASE Discard(r)
  BY <1>1, <1>3, <1>4, <1>12 DEF Discard
<1> QED
  BY <1>5, <1>6, <1>7, <1>8, <1>9, <1>10, <1>11, <1>12 DEF Handler

\* A request sent out keeps the types.
Sent(r) == \/ \E p \in Pages : Load(r, p) \/ Press(r, p)
           \/ \E u \in Users : PressElsewhere(r, u)
LEMMA SentType ==
  ASSUME TypeOK, NEW r \in Requests, Sent(r)
  PROVE  TypeOK'
<1> USE NoneAssumption DEF TypeOK
<1>1. ASSUME NEW new \in RequestStates, req' = [req EXCEPT ![r] = new],
             new.pc # "sent", new.user \in Users,
             UNCHANGED <<subs, full, server, db, busy, stream, page, upsets>>
      PROVE  TypeOK'
  BY <1>1 DEF BusTypeOK
<1>2. \A p \in Pages : Owner[p] \in Users
  BY OwnerAssumption
<1>3. ASSUME NEW p \in Pages, Load(r, p) PROVE TypeOK'
  <2>1. [NoRequest EXCEPT !.pc = "companies", !.user = Owner[p], !.page = p, !.load = TRUE]
          \in RequestStates
    BY <1>2 DEF NoRequest, RequestStates
  <2> QED
    BY <1>1, <1>2, <1>3, <2>1 DEF Load, NoRequest
<1>4. ASSUME NEW p \in Pages, Press(r, p) PROVE TypeOK'
  <2>1. [NoRequest EXCEPT !.pc = "write", !.user = Owner[p], !.page = p] \in RequestStates
    BY <1>2 DEF NoRequest, RequestStates
  <2> QED
    BY <1>1, <1>2, <1>4, <2>1 DEF Press, NoRequest
<1>5. ASSUME NEW u \in Users, PressElsewhere(r, u) PROVE TypeOK'
  <2>1. [NoRequest EXCEPT !.pc = "write", !.user = u] \in RequestStates
    BY DEF NoRequest, RequestStates
  <2> QED
    BY <1>1, <1>5, <2>1 DEF PressElsewhere, NoRequest
<1> QED
  BY <1>3, <1>4, <1>5 DEF Sent

\* An answer that arrives, or is lost, keeps the types.
LEMMA AnswerType ==
  ASSUME TypeOK, NEW r \in Requests, Respond(r) \/ LoseResponse(r)
  PROVE  TypeOK'
<1> USE NoneAssumption DEF TypeOK
<1>1. NoRequest \in RequestStates /\ NoRequest.pc = "idle"
  BY DEF NoRequest, RequestStates
<1>2. req' = [req EXCEPT ![r] = NoRequest] /\ UNCHANGED <<subs, full, server, db, busy, stream>>
  BY DEF Respond, LoseResponse
<1>3. page' \in [Pages -> PageStates]
  <2>1. CASE Respond(r)
    <3> DEFINE p == req[r].page
               m == req[r].out
               new == IF req[r].load THEN [ApplyStreamed(page[p], m) EXCEPT !.open = TRUE]
                                     ELSE Apply(page[p], m)
    <3>1. p \in Pages /\ m \in Messages /\ page' = [page EXCEPT ![p] = new]
      BY <2>1 DEF Respond, RequestStates
    <3>2. Apply(page[p], m) \in PageStates /\ ApplyStreamed(page[p], m) \in PageStates
      BY <3>1, ApplyType
    <3>3. new \in PageStates
      BY <3>2 DEF PageStates
    <3> HIDE DEF p, new
    <3> QED
      BY <3>1, <3>3
  <2> QED
    BY <2>1 DEF LoseResponse
<1>4. upsets' \in Nat
  BY DEF Respond, LoseResponse, Upset
<1> QED
  BY <1>1, <1>2, <1>3, <1>4 DEF BusTypeOK

\* Taking a stream's messages away, all or the first, leaves a stream.
LEMMA OutType ==
  /\ \A x \in StreamStates, q \in Seq(Messages) :
       /\ [x EXCEPT !.out = q] \in StreamStates
       /\ [x EXCEPT !.out = q].pc = x.pc /\ [x EXCEPT !.out = q].user = x.user
  /\ <<>> \in Seq(Messages)
<1>1. <<>> \in Seq(Messages)
  OBVIOUS
<1> QED
  BY <1>1 DEF StreamStates

\* A stream not served is a stream.
LEMMA NoStreamType ==
  \A q \in Seq(Messages) : [NoStream EXCEPT !.out = q] \in StreamStates
<1>1. <<>> \in Seq(Messages)
  OBVIOUS
<1> QED
  BY <1>1 DEF NoStream, StreamStates

\* What a browser does keeps the types.
LEMMA BrowserType ==
  ASSUME TypeOK, NEW p \in Pages, Browser(p)
  PROVE  TypeOK'
<1> USE NoneAssumption DEF TypeOK
<1> DEFINE s == page[p].stream
<1>0. page[p] \in PageStates /\ (s # None => s \in Streams)
  BY DEF PageStates
<1>1. ASSUME NEW new \in PageStates, page' = [page EXCEPT ![p] = new]
      PROVE  page' \in [Pages -> PageStates]
  BY <1>1
<1>2. ASSUME NEW x \in Streams, NEW new \in StreamStates,
             stream' = [stream EXCEPT ![x] = new], new.pc # "off" => new.user \in Users
      PROVE  /\ stream' \in [Streams -> StreamStates]
             /\ \A y \in Streams : stream'[y].pc # "off" => stream'[y].user \in Users
  BY <1>2
<1>3. ASSUME Detach(p)
      PROVE  /\ stream' \in [Streams -> StreamStates]
             /\ \A y \in Streams : stream'[y].pc # "off" => stream'[y].user \in Users
  <2>1. CASE s = None
    BY <1>3, <2>1 DEF Detach
  <2>2. CASE s # None
    <3>1. stream' = [stream EXCEPT ![s] = [stream[s] EXCEPT !.out = <<>>]]
      BY <1>3, <2>2 DEF Detach
    <3>2. [stream[s] EXCEPT !.out = <<>>] \in StreamStates
      BY <1>0, <2>2, OutType
    <3> QED
      BY <1>0, <1>2, <2>2, <3>1, <3>2, OutType
  <2> QED
    BY <2>1, <2>2
<1>4. [page[p] EXCEPT !.stream = None] \in PageStates
  BY <1>0 DEF PageStates
<1>5. CASE Receives(p)
  <2>1. s \in Streams /\ stream[s].out \in Seq(Messages) /\ stream[s].out # <<>>
    BY <1>0, <1>5 DEF Receives, StreamStates
  <2>2. Head(stream[s].out) \in Messages /\ Tail(stream[s].out) \in Seq(Messages)
    BY <2>1
  <2>3. page' \in [Pages -> PageStates]
    BY <1>0, <1>1, <1>5, <2>2, ApplyType DEF Receives
  <2> DEFINE new == [stream[s] EXCEPT !.out = Tail(stream[s].out)]
  <2>4. stream' = [stream EXCEPT ![s] = new]
    BY <1>5 DEF Receives
  <2>5. new \in StreamStates /\ new.pc = stream[s].pc /\ new.user = stream[s].user
    BY <2>1, <2>2, OutType
  <2>6. new.pc # "off" => new.user \in Users
    BY <2>1, <2>5
  <2> HIDE DEF new
  <2>7. /\ stream' \in [Streams -> StreamStates]
        /\ \A y \in Streams : stream'[y].pc # "off" => stream'[y].user \in Users
    BY <1>2, <2>1, <2>4, <2>5, <2>6
  <2> QED
    BY <1>5, <2>3, <2>7 DEF Receives, BusTypeOK
<1>6. CASE LoseConnection(p)
  BY <1>1, <1>3, <1>4, <1>6 DEF LoseConnection, Upset, BusTypeOK
<1>7. CASE NoticeEnd(p)
  BY <1>1, <1>4, <1>7 DEF NoticeEnd, BusTypeOK
<1>8. CASE Leave(p)
  <2>1. [page[p] EXCEPT !.open = FALSE, !.stream = None] \in PageStates
    BY <1>0 DEF PageStates
  <2>2. page' \in [Pages -> PageStates]
    BY <1>1, <1>8, <2>1 DEF Leave
  <2>3. \A r \in Requests : [req[r] EXCEPT !.page = None] \in RequestStates
    BY DEF RequestStates
  <2>4. /\ req' \in [Requests -> RequestStates]
        /\ \A r \in Requests : /\ req'[r].pc = req[r].pc /\ req'[r].user = req[r].user
                               /\ req'[r].out = req[r].out
    BY <1>8, <2>3 DEF Leave, RequestStates
  <2> QED
    BY <1>3, <1>8, <2>2, <2>4 DEF Leave, Upset, BusTypeOK
<1>9. ASSUME NEW x \in Streams, Open(p, x) PROVE TypeOK'
  <2>1. [NoStream EXCEPT !.pc = "companies", !.user = Owner[p]] \in StreamStates
    BY OwnerAssumption, OutType DEF NoStream, StreamStates
  <2>2. [page[p] EXCEPT !.stream = x] \in PageStates
    BY <1>0 DEF PageStates
  <2>3. page' \in [Pages -> PageStates]
    BY <1>1, <1>9, <2>2 DEF Open
  <2>4. BusTypeOK'
    BY <1>9, OwnerAssumption DEF Open, Subscribe, BusTypeOK, Listeners
  <2> QED
    BY <1>2, <1>9, <2>1, <2>3, <2>4, OwnerAssumption DEF Open, NoStream
<1> QED
  BY <1>5, <1>6, <1>7, <1>8, <1>9 DEF Browser

\* What a stream's handler does keeps the types.
GetStream(s) == Reload(s) \/ Wake(s) \/ Tick(s) \/ BrowserGone(s) \/ SeeClosing(s)
LEMMA StreamType ==
  ASSUME TypeOK, NEW s \in Streams, GetStream(s)
  PROVE  TypeOK'
<1> USE DEF TypeOK
<1>0. stream[s] \in StreamStates
  OBVIOUS
<1>1. ASSUME NEW new \in StreamStates, stream' = [stream EXCEPT ![s] = new],
             new.pc # "off" => new.user \in Users,
             UNCHANGED <<server, db, busy, req, page>>, BusTypeOK', upsets' \in Nat
      PROVE  TypeOK'
  BY <1>1
<1>2. UNCHANGED <<subs, full>> => BusTypeOK'
  BY DEF BusTypeOK
<1>3. /\ Flash("paused") \in Messages
      /\ \A c, t \in Version, text \in {"", None} : Message(c, t, text) \in Messages
  BY DEF Flash, Message, Messages, Version
<1>4. \A m \in Messages : Append(stream[s].out, m) \in Seq(Messages)
  BY <1>0 DEF StreamStates
<1>5. CASE ReloadCompanies(s)
  <2>1. [stream[s] EXCEPT !.pc = "timers", !.companies = db[stream[s].user]] \in StreamStates
    BY <1>0, <1>5 DEF ReloadCompanies, StreamStates
  <2> QED
    BY <1>1, <1>2, <1>5, <2>1 DEF ReloadCompanies, StreamStates
<1>6. CASE ReloadTimers(s)
  <2> DEFINE t == db[stream[s].user]
             m == Message(stream[s].companies, t, IF stream[s].paused THEN "" ELSE None)
             new == [stream[s] EXCEPT !.pc = "select", !.paused = FALSE, !.timers = t,
                                      !.ticks = busy[stream[s].user], !.out = Append(@, m)]
  <2>1. stream[s].user \in Users /\ t \in Nat /\ busy[stream[s].user] \in BOOLEAN
    BY <1>0, <1>6 DEF ReloadTimers
  <2>2. Append(stream[s].out, m) \in Seq(Messages)
    BY <1>0, <1>3, <1>4, <2>1 DEF StreamStates, Version
  <2>3. new \in StreamStates /\ new.user = stream[s].user
    <3> HIDE DEF m
    <3> QED
      BY <1>0, <2>1, <2>2 DEF StreamStates
  <2>4. stream' = [stream EXCEPT ![s] = new]
    BY <1>6 DEF ReloadTimers
  <2>5. /\ UNCHANGED <<server, db, busy, req, page>> /\ BusTypeOK' /\ upsets' \in Nat
    BY <1>2, <1>6 DEF ReloadTimers
  <2> HIDE DEF new
  <2> QED
    BY <1>1, <2>1, <2>3, <2>4, <2>5
<1>7. CASE ReloadFails(s)
  <2> DEFINE new == [stream[s] EXCEPT !.pc = "select", !.paused = TRUE,
                                      !.out = Append(@, Flash("paused"))]
  <2>1. new \in StreamStates /\ new.user = stream[s].user
    BY <1>0, <1>3, <1>4 DEF StreamStates
  <2>2. stream' = [stream EXCEPT ![s] = new]
    BY <1>7 DEF ReloadFails
  <2>3. /\ UNCHANGED <<server, db, busy, req, page>> /\ BusTypeOK' /\ upsets' \in Nat
    BY <1>2, <1>7 DEF ReloadFails, Upset
  <2>4. stream[s].user \in Users
    BY <1>7 DEF ReloadFails
  <2> HIDE DEF new
  <2> QED
    BY <1>1, <2>1, <2>2, <2>3, <2>4
<1>8. CASE Wake(s)
  <2>1. [stream[s] EXCEPT !.pc = "companies"] \in StreamStates
    BY <1>0 DEF StreamStates
  <2>2. BusTypeOK'
    BY <1>8 DEF Wake, Receive, BusTypeOK
  <2> QED
    BY <1>0, <1>1, <1>8, <2>1, <2>2 DEF Wake, StreamStates
<1>9. CASE Tick(s)
  <2> DEFINE new == [stream[s] EXCEPT !.out = Append(@, Message(None, stream[s].timers, None))]
  <2>1. Message(None, stream[s].timers, None) \in Messages
    BY <1>0, <1>3 DEF StreamStates, Version
  <2>2. new \in StreamStates /\ new.user = stream[s].user /\ new.pc = stream[s].pc
    BY <1>0, <1>4, <2>1, OutType
  <2>3. stream' = [stream EXCEPT ![s] = new]
    BY <1>9 DEF Tick
  <2>4. /\ UNCHANGED <<server, db, busy, req, page>> /\ BusTypeOK' /\ upsets' \in Nat
    BY <1>2, <1>9 DEF Tick
  <2> HIDE DEF new
  <2> QED
    BY <1>1, <2>2, <2>3, <2>4
<1>10. ASSUME EndStream(s) PROVE TypeOK'
  <2>1. [NoStream EXCEPT !.out = stream[s].out] \in StreamStates
    BY <1>0, NoStreamType DEF StreamStates
  <2>2. BusTypeOK'
    BY <1>10 DEF EndStream, Unsubscribe, BusTypeOK, Listeners
  <2> QED
    BY <1>1, <1>10, <2>1, <2>2 DEF EndStream, NoStream
<1> QED
  BY <1>5, <1>6, <1>7, <1>8, <1>9, <1>10 DEF GetStream, Reload, BrowserGone, SeeClosing

\* What becomes of the process keeps the types.
Process == Crash \/ Shutdown \/ ShutdownDone \/ ShutdownTimeout \/ Restart
LEMMA ProcessType ==
  ASSUME TypeOK, Process
  PROVE  TypeOK'
<1> USE DEF TypeOK
<1>1. ASSUME Stopped, upsets' \in Nat PROVE TypeOK'
  <2>1. BusTypeOK'
    BY <1>1 DEF Stopped, BusTypeOK
  <2>2. \A r \in Requests : req'[r] = req[r] \/ req'[r] = NoRequest
    BY <1>1 DEF Stopped
  <2>3. NoRequest \in RequestStates /\ NoRequest.pc = "idle"
    BY DEF NoRequest, RequestStates
  <2>4. req' \in [Requests -> RequestStates]
    <3>1. req' = [r \in Requests |-> IF req[r].pc = "sent" THEN req[r] ELSE NoRequest]
      BY <1>1 DEF Stopped
    <3> QED
      BY <2>3, <3>1
  <2>5. /\ stream' \in [Streams -> StreamStates]
        /\ \A s \in Streams : stream'[s].pc = "off"
    <3>1. \A s \in Streams : [NoStream EXCEPT !.out = stream[s].out] \in StreamStates
      BY NoStreamType DEF StreamStates
    <3>2. \A s \in Streams : [NoStream EXCEPT !.out = stream[s].out].pc = "off"
      BY DEF NoStream
    <3>3. stream' = [s \in Streams |-> [NoStream EXCEPT !.out = stream[s].out]]
      BY <1>1 DEF Stopped
    <3> QED
      BY <3>1, <3>2, <3>3
  <2> QED
    BY <1>1, <2>1, <2>2, <2>3, <2>4, <2>5 DEF Stopped
<1> QED
  BY <1>1 DEF Process, Crash, Shutdown, ShutdownDone, ShutdownTimeout, Restart, Upset,
              NoUpset, BusTypeOK

\* Every step is a request's, a browser's, a stream's or the process's.
LEMMA Actors ==
  ASSUME Next
  PROVE  \/ \E r \in Requests : Handler(r) \/ Respond(r) \/ LoseResponse(r) \/ Sent(r)
         \/ \E p \in Pages : Browser(p)
         \/ \E s \in Streams : GetStream(s)
         \/ Process
  BY DEF Next, Sent, GetStream, Process

LEMMA TypeInit == ASSUME Init PROVE TypeOK
<1>1. NoRequest \in RequestStates /\ NoRequest.pc = "idle"
  BY DEF NoRequest, RequestStates
<1>2. NoStream \in StreamStates /\ NoStream.pc = "off"
  BY OutType DEF NoStream, StreamStates
<1>3. NoPage \in PageStates
  BY DEF NoPage, PageStates
<1>4. BusTypeOK
  BY DEF Init, BusInit, BusTypeOK
<1> QED
  BY <1>1, <1>2, <1>3, <1>4 DEF Init, TypeOK

LEMMA TypeInvariant ==
  ASSUME TypeOK, [Next]_vars PROVE TypeOK'
<1>1. CASE Next
  BY <1>1, Actors, HandlerType, AnswerType, SentType, BrowserType, StreamType, ProcessType
<1>2. CASE UNCHANGED vars
  BY <1>2 DEF vars, TypeOK, BusTypeOK
<1> QED
  BY <1>1, <1>2

\* TypeOK: every variable keeps its shape, a request under way has a user, and
\* one whose answer was sent has a message.
THEOREM TypeCorrect == Spec => []TypeOK
<1>1. Init => TypeOK
  BY TypeInit
<1>2. TypeOK /\ [Next]_vars => TypeOK'
  BY TypeInvariant
<1> QED
  BY <1>1, <1>2, PTL DEF Spec

(***************************************************************************)
(* Who changes what: the few facts about a step the invariants depend on.  *)
(***************************************************************************)
Served(s) == stream[s].pc # "off"
Announcing(r) == req[r].pc = "announce"

\* The stream's handler has not moved; what was sent may have been read.
Still(s) == /\ stream'[s].pc = stream[s].pc /\ stream'[s].user = stream[s].user
            /\ stream'[s].companies = stream[s].companies
            /\ stream'[s].timers = stream[s].timers
            /\ stream'[s].paused = stream[s].paused
StillAnnouncing == \A r \in Requests : Announcing(r) => Announcing(r)' /\ req'[r].user = req[r].user

\* All but a commit, an announcement and the streams' own steps leave the
\* streams and what is coming to them alone.
Bystander == /\ UNCHANGED <<subs, full, db>>
             /\ \A s \in Streams : Still(s)
             /\ StillAnnouncing
LEMMA RequestsStandBy ==
  ASSUME TypeOK, NEW r \in Requests,
         \/ Sent(r) \/ Respond(r) \/ LoseResponse(r)
         \/ Handler(r) /\ ~Commit(r) /\ ~Announce(r)
  PROVE  Bystander
<1>1. UNCHANGED <<subs, full, db, stream>>
  BY DEF Sent, Load, Press, PressElsewhere, Respond, LoseResponse, Handler, Miss, Refuse,
         ReadCompanies, ReadTimers, ReadFails, Discard
<1>2. req[r].pc # "announce" /\ \A q \in Requests \ {r} : req'[q] = req[q]
  BY DEF TypeOK, Sent, Load, Press, PressElsewhere, Respond, LoseResponse, Handler, Miss, Refuse,
         ReadCompanies, ReadTimers, ReadFails, Discard
<1> QED
  BY <1>1, <1>2 DEF Bystander, StillAnnouncing, Announcing, Still

LEMMA BrowsersStandBy ==
  ASSUME TypeOK, NEW p \in Pages, Browser(p), \A s \in Streams : ~Open(p, s)
  PROVE  Bystander
<1> USE DEF TypeOK
<1>1. ASSUME NEW s \in Streams, NEW q, stream' = [stream EXCEPT ![s].out = q]
      PROVE  \A x \in Streams : Still(x)
  BY <1>1 DEF Still, StreamStates
<1>2. page[p].stream \in Streams \cup {None}
  BY DEF PageStates
<1>3. \A s \in Streams : Still(s)
  <2>1. CASE stream' = stream
    BY <2>1 DEF Still
  <2>2. CASE Detach(p)
    BY <1>1, <1>2, <2>1, <2>2 DEF Detach
  <2>3. CASE Receives(p)
    BY <1>1, <1>2, <2>3 DEF Receives
  <2> QED
    BY <2>1, <2>2, <2>3 DEF Browser, LoseConnection, NoticeEnd, Leave
<1>4. UNCHANGED <<subs, full, db>>
  BY DEF Browser, Receives, LoseConnection, NoticeEnd, Leave
<1>5. StillAnnouncing
  <2>1. CASE Leave(p)
    BY <2>1 DEF Leave, RequestStates, StillAnnouncing, Announcing
  <2> QED
    BY <2>1 DEF Browser, Receives, LoseConnection, NoticeEnd, StillAnnouncing, Announcing
<1> QED
  BY <1>3, <1>4, <1>5 DEF Bystander

(***************************************************************************)
(* The bus knows exactly the streams being served.                         *)
(***************************************************************************)
LEMMA ListenersKept ==
  ASSUME ListenersAreStreams, subs' = subs,
         \A s \in Streams : Served(s)' = Served(s) /\ stream'[s].user = stream[s].user
  PROVE  ListenersAreStreams'
  BY DEF ListenersAreStreams, Listeners, Served

LEMMA ListenersInvariant ==
  ASSUME TypeOK, ListenersAreStreams, [Next]_vars
  PROVE  ListenersAreStreams'
<1> USE DEF TypeOK
<1>1. CASE Bystander
  BY <1>1, ListenersKept DEF Bystander, Still, Served
<1>2. ASSUME NEW r \in Requests, Commit(r) \/ Announce(r) PROVE ListenersAreStreams'
  BY <1>2, ListenersKept DEF Commit, Announce, Broadcast, Served
<1>3. ASSUME NEW p \in Pages, NEW s \in Streams, Open(p, s) PROVE ListenersAreStreams'
  <2> DEFINE u == Owner[p]
  <2>1. u \in Users /\ ~Served(s)
    BY <1>3, OwnerAssumption DEF Open, Served
  <2>2. /\ Served(s)' /\ stream'[s].user = u
        /\ \A x \in Streams \ {s} : stream'[x] = stream[x]
    BY <1>3 DEF Open, Served, NoStream
  <2>3. /\ DOMAIN subs' = DOMAIN subs \cup {u}
        /\ subs'[u] = Listeners(u) \cup {s}
        /\ \A v \in DOMAIN subs \ {u} : subs'[v] = subs[v]
    BY <1>3 DEF Open, Subscribe
  <2>4. Listeners(u)' = Listeners(u) \cup {s} /\ \A v \in Users \ {u} : Listeners(v)' = Listeners(v)
    BY <2>3 DEF Listeners
  <2> QED
    BY <2>1, <2>2, <2>3, <2>4 DEF ListenersAreStreams, Served
<1>4. ASSUME NEW s \in Streams, Reload(s) \/ Wake(s) \/ Tick(s) PROVE ListenersAreStreams'
  <2>1. subs' = subs /\ Served(s) /\ \A x \in Streams \ {s} : stream'[x] = stream[x]
    BY <1>4 DEF Reload, ReloadCompanies, ReloadTimers, ReloadFails, Wake, Receive, Tick, Served
  <2>2. Served(s)' /\ stream'[s].user = stream[s].user
    <3>2. stream[s] \in StreamStates
      OBVIOUS
    <3>3. CASE ReloadCompanies(s)
      BY <3>2, <3>3 DEF ReloadCompanies, Served, StreamStates
    <3>4. CASE ReloadTimers(s)
      BY <3>2, <3>4 DEF ReloadTimers, Served, StreamStates
    <3>5. CASE ReloadFails(s)
      BY <3>2, <3>5 DEF ReloadFails, Served, StreamStates
    <3>6. CASE Wake(s)
      BY <3>2, <3>6 DEF Wake, Served, StreamStates
    <3>7. CASE Tick(s)
      BY <3>2, <3>7 DEF Tick, Served, StreamStates
    <3> QED
      BY <1>4, <3>3, <3>4, <3>5, <3>6, <3>7 DEF Reload
  <2> QED
    BY <2>1, <2>2, ListenersKept DEF Served
<1>5. ASSUME NEW s \in Streams, Served(s), EndStream(s), NEW u \in Users, u = stream[s].user
      PROVE  ListenersAreStreams'
  <2> DEFINE left == Listeners(u) \ {s}
  <2>2. ~Served(s)' /\ \A x \in Streams \ {s} : stream'[x] = stream[x]
    BY <1>5 DEF EndStream, Served, NoStream
  <2>3. /\ DOMAIN subs' = IF left = {} THEN DOMAIN subs \ {u} ELSE DOMAIN subs
        /\ \A v \in DOMAIN subs' : subs'[v] = IF v = u THEN left ELSE subs[v]
    BY <1>5 DEF EndStream, Unsubscribe
  <2>1. u \notin DOMAIN subs => left = {}
    BY DEF Listeners
  <2> HIDE DEF left
  <2>4. Listeners(u)' = left /\ \A v \in Users \ {u} : Listeners(v)' = Listeners(v)
    <3>1. CASE left = {}
      BY <2>3, <3>1 DEF Listeners
    <3>2. CASE left # {}
      BY <2>1, <2>3, <3>2 DEF Listeners
    <3> QED
      BY <3>1, <3>2
  <2>5. \A v \in Users \ {u} : Listeners(v)' = {x \in Streams : Served(x)' /\ stream'[x].user = v}
    BY <1>5, <2>2, <2>4 DEF ListenersAreStreams, Served
  <2>6. Listeners(u)' = {x \in Streams : Served(x)' /\ stream'[x].user = u}
    BY <1>5, <2>2, <2>4 DEF ListenersAreStreams, Served, left
  <2>7. \A v \in DOMAIN subs' : subs'[v] # {}
    BY <2>3 DEF ListenersAreStreams
  <2>8. \A v \in Users : Listeners(v)' = {x \in Streams : Served(x)' /\ stream'[x].user = v}
    BY <2>5, <2>6
  <2> QED
    BY <2>7, <2>8 DEF ListenersAreStreams, Served
<1>6. CASE Stopped
  BY <1>6 DEF Stopped, ListenersAreStreams, Listeners, NoStream
<1>7. CASE Process
  BY <1>6, <1>7, ListenersKept DEF Process, Crash, Shutdown, ShutdownDone, ShutdownTimeout, Restart,
     Served
<1>8. CASE Next
  BY <1>1, <1>2, <1>3, <1>4, <1>5, <1>7, <1>8, Actors, RequestsStandBy, BrowsersStandBy
     DEF GetStream, BrowserGone, SeeClosing, Served, TypeOK
<1>9. CASE UNCHANGED vars
  BY <1>9, ListenersKept DEF vars, Served
<1> QED
  BY <1>8, <1>9

\* ListenersAreStreams: a broadcast reaches every stream of its user, and only
\* those, after any sequence of opening, leaving, reconnecting and restarting.
THEOREM BusKnowsItsStreams == Spec => []ListenersAreStreams
<1>1. Init => ListenersAreStreams
  BY DEF Init, BusInit, ListenersAreStreams, Listeners, NoStream
<1>2. TypeOK /\ ListenersAreStreams /\ [Next]_vars => ListenersAreStreams'
  BY ListenersInvariant
<1> QED
  BY <1>1, <1>2, TypeCorrect, PTL DEF Spec

(***************************************************************************)
(* Nothing stale waits unsignalled.                                        *)
(***************************************************************************)
\* StaleIsSignalled of one stream, strengthened: between its two reads a stream's
\* companies are current or a change is coming.  Without this conjunct the
\* invariant would not survive ReloadTimers.
Signalled(s) ==
  /\ stream[s].pc = "timers" => Coming(s) \/ stream[s].companies = db[stream[s].user]
  /\ stream[s].pc = "select" /\ ~stream[s].paused =>
       \/ Coming(s)
       \/ stream[s].companies = db[stream[s].user] /\ stream[s].timers = db[stream[s].user]

LEMMA SignalledKept ==
  ASSUME NEW s \in Streams, Signalled(s), Still(s), db' = db, s \in full => s \in full',
         StillAnnouncing
  PROVE  Signalled(s)'
<1>1. Coming(s) => Coming(s)'
  BY DEF Coming, StillAnnouncing, Announcing, Still
<1> QED
  BY <1>1 DEF Signalled, Still

LEMMA SignalledInvariant ==
  ASSUME TypeOK, ListenersAreStreams, \A s \in Streams : Signalled(s), [Next]_vars,
         NEW s \in Streams
  PROVE  Signalled(s)'
<1> USE DEF TypeOK
<1>1. CASE Bystander
  BY <1>1, SignalledKept DEF Bystander
<1>2. ASSUME NEW r \in Requests, Commit(r) PROVE Signalled(s)'
  <2>1. /\ UNCHANGED <<full, stream>> /\ StillAnnouncing
        /\ Announcing(r)' /\ req'[r].user = req[r].user
        /\ \A u \in Users : u # req[r].user => db'[u] = db[u]
    BY <1>2 DEF Commit, StillAnnouncing, Announcing, RequestStates
  <2>2. CASE stream[s].user = req[r].user
    BY <2>1, <2>2 DEF Signalled, Coming, Announcing
  <2>3. CASE stream[s].user # req[r].user
    <3>1. Coming(s) => Coming(s)'
      BY <2>1 DEF Coming, StillAnnouncing, Announcing
    <3>2. Served(s) => db'[stream[s].user] = db[stream[s].user]
      BY <2>1, <2>3 DEF Served
    <3> QED
      BY <2>1, <3>1, <3>2 DEF Signalled, Served
  <2> QED
    BY <2>2, <2>3
<1>3. ASSUME NEW r \in Requests, Announce(r) PROVE Signalled(s)'
  <2>1. /\ UNCHANGED <<db, stream>> /\ full' = full \cup Listeners(req[r].user)
        /\ \A q \in Requests \ {r} : req'[q] = req[q]
        /\ req[r].user \in Users
    BY <1>3 DEF Announce, Broadcast
  <2>2. CASE Served(s) /\ stream[s].user = req[r].user
    <3>1. s \in full'
      BY <2>1, <2>2 DEF ListenersAreStreams, Served
    <3> QED
      BY <3>1 DEF Signalled, Coming
  <2>3. CASE stream[s].user # req[r].user
    <3>1. Coming(s) => Coming(s)'
      BY <2>1, <2>3 DEF Coming
    <3> QED
      BY <2>1, <3>1 DEF Signalled
  <2>4. CASE ~Served(s)
    BY <2>1, <2>4 DEF Signalled, Served
  <2> QED
    BY <2>2, <2>3, <2>4
<1>4. ASSUME NEW x \in Streams, x # s, UNCHANGED <<db, req>>, full \ {x} \subseteq full',
             stream' = [stream EXCEPT ![x] = stream'[x]]
      PROVE  Signalled(s)'
  BY <1>4, SignalledKept DEF Still, StillAnnouncing, Announcing
<1>5. ASSUME NEW p \in Pages, NEW x \in Streams, Open(p, x) PROVE Signalled(s)'
  <2>1. CASE x = s
    BY <1>5, <2>1 DEF Open, Signalled, NoStream
  <2>2. CASE x # s
    BY <1>4, <1>5, <2>2 DEF Open, Subscribe
  <2> QED
    BY <2>1, <2>2
<1>6. ASSUME NEW x \in Streams, GetStream(x), x # s PROVE Signalled(s)'
  <2>1. CASE ReloadCompanies(x) \/ ReloadTimers(x) \/ ReloadFails(x)
    <3>1. UNCHANGED <<db, req, full>> /\ stream' = [stream EXCEPT ![x] = stream'[x]]
      BY <2>1 DEF ReloadCompanies, ReloadTimers, ReloadFails
    <3> QED
      BY <1>4, <1>6, <3>1
  <2>2. CASE Wake(x) \/ Tick(x)
    <3>1. /\ UNCHANGED <<db, req>> /\ full \ {x} \subseteq full'
          /\ stream' = [stream EXCEPT ![x] = stream'[x]]
      BY <2>2 DEF Wake, Receive, Tick
    <3> QED
      BY <1>4, <1>6, <3>1
  <2>3. CASE EndStream(x)
    <3>1. /\ UNCHANGED <<db, req>> /\ full \ {x} \subseteq full'
          /\ stream' = [stream EXCEPT ![x] = stream'[x]]
      BY <2>3 DEF EndStream, Unsubscribe
    <3> QED
      BY <1>4, <1>6, <3>1
  <2> QED
    BY <1>6, <2>1, <2>2, <2>3 DEF GetStream, Reload, BrowserGone, SeeClosing
<1>7. CASE GetStream(s)
  <2>0. stream[s] \in StreamStates
    OBVIOUS
  <2>1. CASE ReloadCompanies(s)
    BY <2>0, <2>1 DEF ReloadCompanies, Signalled, StreamStates
  <2>2. CASE ReloadTimers(s)
    <3>1. UNCHANGED <<full, db, req>> /\ stream'[s].user = stream[s].user
      BY <2>0, <2>2 DEF ReloadTimers, StreamStates
    <3>2. Coming(s) => Coming(s)'
      BY <3>1 DEF Coming
    <3>3. /\ stream'[s].pc = "select" /\ stream'[s].companies = stream[s].companies
          /\ stream'[s].timers = db[stream[s].user] /\ stream[s].pc = "timers"
      BY <2>0, <2>2 DEF ReloadTimers, StreamStates
    <3> QED
      BY <3>1, <3>2, <3>3 DEF Signalled
  <2>3. CASE ReloadFails(s)
    BY <2>0, <2>3 DEF ReloadFails, Signalled, StreamStates
  <2>4. CASE Wake(s)
    BY <2>0, <2>4 DEF Wake, Signalled, StreamStates
  <2>5. CASE Tick(s)
    <3>1. Still(s) /\ UNCHANGED <<full, db, req>>
      BY <2>0, <2>5 DEF Tick, Still, StreamStates
    <3> QED
      BY <3>1, SignalledKept DEF StillAnnouncing, Announcing
  <2>6. CASE EndStream(s)
    BY <2>6 DEF EndStream, Signalled, NoStream
  <2> QED
    BY <1>7, <2>1, <2>2, <2>3, <2>4, <2>5, <2>6 DEF GetStream, Reload, BrowserGone, SeeClosing
<1>8. CASE Stopped
  BY <1>8 DEF Stopped, Signalled, NoStream
<1>9. CASE Process
  <2>1. CASE Shutdown \/ Restart
    BY <2>1, SignalledKept DEF Shutdown, Restart, Still, StillAnnouncing, Announcing
  <2> QED
    BY <1>8, <1>9, <2>1 DEF Process, Crash, ShutdownDone, ShutdownTimeout
<1>10. CASE Next
  BY <1>1, <1>2, <1>3, <1>5, <1>6, <1>7, <1>9, <1>10, Actors, RequestsStandBy, BrowsersStandBy
<1>11. CASE UNCHANGED vars
  BY <1>11, SignalledKept DEF vars, Still, StillAnnouncing, Announcing
<1> QED
  BY <1>10, <1>11

\* StaleIsSignalled: a stream waiting in its select has sent the current lists,
\* or knows of a change it has not read, or will be told of one already
\* committed.  It rests on ListenersAreStreams, by which the announcement reaches
\* the stream.
THEOREM NothingStaleUnsignalled == Spec => []StaleIsSignalled
<1> DEFINE AllSignalled == \A s \in Streams : Signalled(s)
<1>1. Init => AllSignalled
  BY DEF Init, Signalled, NoStream
<1>2. TypeOK /\ ListenersAreStreams /\ AllSignalled /\ [Next]_vars => AllSignalled'
  BY SignalledInvariant
<1>3. AllSignalled => StaleIsSignalled
  BY DEF Signalled, StaleIsSignalled
<1> HIDE DEF AllSignalled
<1> QED
  BY <1>1, <1>2, <1>3, TypeCorrect, BusKnowsItsStreams, PTL DEF Spec

\* OwnSignalsOnly: a stream is woken only for a change of its own user.
THEOREM SignalsAreOwn == Spec => OwnSignalsOnly
<1> DEFINE Own == \A s \in full' \ full : \E r \in Requests : /\ req[r].pc = "announce"
                                                           /\ req[r].user = stream[s].user
                                                           /\ req'[r].pc # "announce"
<1>1. TypeOK /\ ListenersAreStreams /\ [Next]_vars => Own
  <2> SUFFICES ASSUME TypeOK, ListenersAreStreams, [Next]_vars PROVE Own
    OBVIOUS
  <2>1. ASSUME full' \subseteq full PROVE Own
    BY <2>1
  <2>2. ASSUME NEW r \in Requests, Announce(r) PROVE Own
    <3>1. full' = full \cup Listeners(req[r].user) /\ req[r].user \in Users
      BY <2>2 DEF Announce, Broadcast, TypeOK
    <3>2. \A s \in Listeners(req[r].user) : stream[s].user = req[r].user
      BY <3>1 DEF ListenersAreStreams
    <3>3. req[r].pc = "announce" /\ req'[r].pc # "announce"
      BY <2>2 DEF Announce, TypeOK, RequestStates
    <3> QED
      BY <3>1, <3>2, <3>3
  <2>3. ASSUME NEW r \in Requests, Commit(r) PROVE Own
    BY <2>1, <2>3 DEF Commit
  <2>4. ASSUME NEW p \in Pages, NEW s \in Streams, Open(p, s) PROVE Own
    BY <2>1, <2>4 DEF Open, Subscribe
  <2>5. ASSUME NEW s \in Streams, GetStream(s) PROVE Own
    BY <2>1, <2>5 DEF GetStream, Reload, ReloadCompanies, ReloadTimers, ReloadFails, Wake, Receive,
       Tick, BrowserGone, SeeClosing, EndStream, Unsubscribe
  <2>6. CASE Process
    BY <2>1, <2>6 DEF Process, Crash, Shutdown, ShutdownDone, ShutdownTimeout, Restart, Stopped
  <2>7. CASE Bystander
    BY <2>1, <2>7 DEF Bystander
  <2>8. CASE Next
    BY <2>2, <2>3, <2>4, <2>5, <2>6, <2>7, <2>8, Actors, RequestsStandBy, BrowsersStandBy
  <2>9. CASE UNCHANGED vars
    BY <2>1, <2>9 DEF vars
  <2> QED
    BY <2>8, <2>9
<1>2. [][Own]_vars => OwnSignalsOnly
  BY PTL DEF OwnSignalsOnly
<1> HIDE DEF Own
<1> QED
  BY <1>1, <1>2, TypeCorrect, BusKnowsItsStreams, PTL DEF Spec
=============================================================================
