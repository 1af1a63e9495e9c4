-------------------------- MODULE LiveMirrorProofs --------------------------
(***************************************************************************)
(* Live implements Mirror: what streams bring to a page never goes back,   *)
(* and when all is quiet it is the current truth.                          *)
(***************************************************************************)
EXTENDS LiveProofs, SequenceTheorems

(***************************************************************************)
(* Versions on their way: a sequence of them, some None, that starts at lo *)
(* or later, never goes back and ends at hi or before.                     *)
(***************************************************************************)
Companies(q) == [i \in DOMAIN q |-> q[i].companies]
Timers(q) == [i \in DOMAIN q |-> q[i].timers]

Climbs(q, lo, hi) ==
  /\ lo <= hi
  /\ \A i \in DOMAIN q : q[i] # None => lo <= q[i] /\ q[i] <= hi
  /\ \A i, j \in DOMAIN q : i < j /\ q[i] # None /\ q[j] # None => q[i] <= q[j]

\* Once all of q has arrived where lo was, v is there.
Lands(q, lo, v) == lo = v \/ \E i \in DOMAIN q : q[i] = v

LEMMA ClimbsHigher ==
  ASSUME NEW q \in Seq(Version), NEW lo \in Nat, NEW hi \in Nat, NEW higher \in Nat,
         Climbs(q, lo, hi), hi <= higher
  PROVE  Climbs(q, lo, higher)
<1>1. \A i \in DOMAIN q : q[i] # None => q[i] \in Nat
  BY DEF Version
<1> QED
  BY <1>1 DEF Climbs

\* One more is sent.
LEMMA ClimbsOn ==
  ASSUME NEW q \in Seq(Version), NEW lo \in Nat, NEW hi \in Nat, NEW v \in Version,
         Climbs(q, lo, hi), v # None => hi <= v
  PROVE  /\ v = None => Climbs(Append(q, v), lo, hi)
         /\ v # None => Climbs(Append(q, v), lo, v) /\ Lands(Append(q, v), lo, v)
         /\ \A w : Lands(q, lo, w) => v # None \/ Lands(Append(q, v), lo, w)
<1> DEFINE n == Len(q) + 1
           on == Append(q, v)
<1>1. /\ DOMAIN on = DOMAIN q \cup {n} /\ n \notin DOMAIN q
      /\ on[n] = v /\ \A i \in DOMAIN q : on[i] = q[i] /\ i < n
      /\ DOMAIN q \subseteq Nat /\ n \in Nat
  OBVIOUS
<1>2. \A i \in DOMAIN q : q[i] # None => q[i] \in Nat
  BY DEF Version
<1>3. v # None => v \in Nat
  BY DEF Version
<1> HIDE DEF n, on
<1>4. ASSUME v = None PROVE Climbs(on, lo, hi)
  BY <1>1, <1>4 DEF Climbs
<1>5. ASSUME v # None PROVE Climbs(on, lo, v) /\ Lands(on, lo, v)
  <2>1. lo <= v
    BY <1>3, <1>5 DEF Climbs
  <2>2. \A i \in DOMAIN on : on[i] # None => lo <= on[i] /\ on[i] <= v
    BY <1>1, <1>2, <1>3, <1>5, <2>1 DEF Climbs
  <2>3. \A i, j \in DOMAIN on : i < j /\ on[i] # None /\ on[j] # None => on[i] <= on[j]
    BY <1>1, <1>2, <1>3, <1>5, <2>2 DEF Climbs
  <2> QED
    BY <1>1, <2>1, <2>2, <2>3 DEF Climbs, Lands
<1>6. \A w : Lands(q, lo, w) => Lands(on, lo, w)
  BY <1>1 DEF Lands
<1> QED
  BY <1>4, <1>5, <1>6 DEF on

\* The first arrives.
LEMMA ClimbsArrive ==
  ASSUME NEW q \in Seq(Version), q # <<>>, NEW lo \in Nat, NEW hi \in Nat, Climbs(q, lo, hi)
  PROVE  /\ Else(Head(q), lo) \in Nat
         /\ lo <= Else(Head(q), lo) /\ Else(Head(q), lo) <= hi
         /\ Climbs(Tail(q), Else(Head(q), lo), hi)
         /\ Lands(q, lo, hi) => Lands(Tail(q), Else(Head(q), lo), hi)
<1>1. /\ DOMAIN Tail(q) \subseteq Nat /\ 1 \in DOMAIN q /\ Head(q) = q[1]
      /\ \A i \in DOMAIN Tail(q) : i + 1 \in DOMAIN q /\ Tail(q)[i] = q[i + 1] /\ 1 < i + 1
      /\ \A i \in DOMAIN q : i \in Nat /\ (i = 1 \/ (i - 1 \in DOMAIN Tail(q) /\ Tail(q)[i - 1] = q[i]))
  OBVIOUS
<1>2. \A i \in DOMAIN q : q[i] # None => q[i] \in Nat
  BY DEF Version
<1> DEFINE first == Else(Head(q), lo)
<1>3. first \in Nat /\ lo <= first /\ first <= hi
  BY <1>1, <1>2 DEF Climbs, Else
<1>4. \A i \in DOMAIN Tail(q) : Tail(q)[i] # None => first <= Tail(q)[i] /\ Tail(q)[i] <= hi
  BY <1>1, <1>2 DEF Climbs, Else
<1>5. \A i, j \in DOMAIN Tail(q) : i < j /\ Tail(q)[i] # None /\ Tail(q)[j] # None
        => Tail(q)[i] <= Tail(q)[j]
  BY <1>1, <1>2 DEF Climbs
<1>6. Climbs(Tail(q), first, hi)
  BY <1>3, <1>4, <1>5 DEF Climbs
<1>7. ASSUME Lands(q, lo, hi) PROVE Lands(Tail(q), first, hi)
  <2>1. CASE lo = hi
    BY <1>3, <2>1 DEF Lands
  <2>2. ASSUME NEW i \in DOMAIN q, q[i] = hi PROVE Lands(Tail(q), first, hi)
    <3>1. hi # None
      BY NoneAssumption
    <3>2. CASE i = 1
      BY <1>1, <2>2, <3>1, <3>2 DEF Lands, Else
    <3>3. CASE i # 1
      BY <1>1, <2>2, <3>3 DEF Lands
    <3> QED
      BY <3>2, <3>3
  <2> QED
    BY <1>7, <2>1, <2>2 DEF Lands
<1> QED
  BY <1>3, <1>6, <1>7

\* The versions in the messages of a sequence, one for one.
LEMMA VersionsType ==
  ASSUME NEW q \in Seq(Messages)
  PROVE  /\ Companies(q) \in Seq(Version) /\ Len(Companies(q)) = Len(q)
         /\ Timers(q) \in Seq(Version) /\ Len(Timers(q)) = Len(q)
         /\ \A i \in 1 .. Len(q) : Companies(q)[i] = q[i].companies /\ Timers(q)[i] = q[i].timers
<1>1. \A i \in DOMAIN q : q[i] \in Messages
  OBVIOUS
<1>2. \A i \in DOMAIN q : q[i].companies \in Version /\ q[i].timers \in Version
  BY <1>1 DEF Messages
<1> QED
  BY <1>2 DEF Companies, Timers

\* The versions of messages sent, and of those left when the first has arrived.
LEMMA VersionsOf ==
  ASSUME NEW q \in Seq(Messages)
  PROVE  /\ \A m \in Messages : /\ Companies(Append(q, m)) = Append(Companies(q), m.companies)
                                /\ Timers(Append(q, m)) = Append(Timers(q), m.timers)
         /\ q # <<>> => /\ Companies(q) # <<>> /\ Head(Companies(q)) = Head(q).companies
                        /\ Timers(q) # <<>> /\ Head(Timers(q)) = Head(q).timers
                        /\ Companies(Tail(q)) = Tail(Companies(q))
                        /\ Timers(Tail(q)) = Tail(Timers(q))
<1> DEFINE cs == Companies(q)
           ts == Timers(q)
<1>1. /\ cs \in Seq(Version) /\ Len(cs) = Len(q)
      /\ ts \in Seq(Version) /\ Len(ts) = Len(q)
      /\ \A i \in 1 .. Len(q) : cs[i] = q[i].companies /\ ts[i] = q[i].timers
  BY VersionsType
<1> HIDE DEF cs, ts
<1>2. ASSUME NEW m \in Messages
      PROVE  /\ Companies(Append(q, m)) = Append(cs, m.companies)
             /\ Timers(Append(q, m)) = Append(ts, m.timers)
  <2> DEFINE on == Append(q, m)
  <2>1. /\ on \in Seq(Messages) /\ Len(on) = Len(q) + 1 /\ Len(q) \in Nat
        /\ on[Len(q) + 1] = m /\ \A i \in 1 .. Len(q) : on[i] = q[i]
    OBVIOUS
  <2>2. m.companies \in Version /\ m.timers \in Version
    BY DEF Messages
  <2>3. /\ Companies(on) \in Seq(Version) /\ Len(Companies(on)) = Len(on)
        /\ Timers(on) \in Seq(Version) /\ Len(Timers(on)) = Len(on)
        /\ \A i \in 1 .. Len(on) : /\ Companies(on)[i] = on[i].companies
                                   /\ Timers(on)[i] = on[i].timers
    BY <2>1, VersionsType
  <2> HIDE DEF on
  <2>4. \A i \in 1 .. Len(on) : i = Len(q) + 1 \/ i \in 1 .. Len(q)
    BY <2>1
  <2>5. Companies(on) = Append(cs, m.companies)
    <3>1. /\ Append(cs, m.companies) \in Seq(Version) /\ Len(Append(cs, m.companies)) = Len(q) + 1
          /\ Append(cs, m.companies)[Len(q) + 1] = m.companies
          /\ \A i \in 1 .. Len(q) : Append(cs, m.companies)[i] = cs[i]
      BY <1>1, <2>2
    <3>2. \A i \in 1 .. Len(on) : Companies(on)[i] = Append(cs, m.companies)[i]
      BY <1>1, <2>1, <2>3, <2>4, <3>1
    <3> QED
      BY <2>1, <2>3, <3>1, <3>2, SeqEqual
  <2>6. Timers(on) = Append(ts, m.timers)
    <3>1. /\ Append(ts, m.timers) \in Seq(Version) /\ Len(Append(ts, m.timers)) = Len(q) + 1
          /\ Append(ts, m.timers)[Len(q) + 1] = m.timers
          /\ \A i \in 1 .. Len(q) : Append(ts, m.timers)[i] = ts[i]
      BY <1>1, <2>2
    <3>2. \A i \in 1 .. Len(on) : Timers(on)[i] = Append(ts, m.timers)[i]
      BY <1>1, <2>1, <2>3, <2>4, <3>1
    <3> QED
      BY <2>1, <2>3, <3>1, <3>2, SeqEqual
  <2> QED
    BY <2>5, <2>6 DEF on
<1>3. ASSUME q # <<>>
      PROVE  /\ cs # <<>> /\ Head(cs) = Head(q).companies
             /\ ts # <<>> /\ Head(ts) = Head(q).timers
             /\ Companies(Tail(q)) = Tail(cs) /\ Timers(Tail(q)) = Tail(ts)
  <2> DEFINE left == Tail(q)
  <2>1. /\ left \in Seq(Messages) /\ Len(left) = Len(q) - 1 /\ Len(q) \in Nat \ {0}
        /\ \A i \in 1 .. Len(left) : left[i] = q[i + 1] /\ i + 1 \in 1 .. Len(q)
        /\ Head(q) = q[1]
    BY <1>3
  <2>2. /\ cs # <<>> /\ Head(cs) = cs[1] /\ Tail(cs) \in Seq(Version) /\ Len(Tail(cs)) = Len(q) - 1
        /\ ts # <<>> /\ Head(ts) = ts[1] /\ Tail(ts) \in Seq(Version) /\ Len(Tail(ts)) = Len(q) - 1
    BY <1>1, <2>1
  <2>3. \A i \in 1 .. Len(Tail(cs)) : Tail(cs)[i] = cs[i + 1] /\ Tail(ts)[i] = ts[i + 1]
    BY <1>1, <2>2
  <2>4. /\ Companies(left) \in Seq(Version) /\ Len(Companies(left)) = Len(left)
        /\ Timers(left) \in Seq(Version) /\ Len(Timers(left)) = Len(left)
        /\ \A i \in 1 .. Len(left) : /\ Companies(left)[i] = left[i].companies
                                     /\ Timers(left)[i] = left[i].timers
    BY <2>1, VersionsType
  <2> HIDE DEF left
  <2>5. \A i \in 1 .. Len(left) : Companies(left)[i] = Tail(cs)[i] /\ Timers(left)[i] = Tail(ts)[i]
    BY <1>1, <2>1, <2>2, <2>3, <2>4
  <2>6. Companies(left) = Tail(cs)
    BY <2>1, <2>2, <2>4, <2>5, SeqEqual
  <2>7. Timers(left) = Tail(ts)
    BY <2>1, <2>2, <2>4, <2>5, SeqEqual
  <2> QED
    BY <1>1, <2>1, <2>2, <2>6, <2>7 DEF left
<1> QED
  BY <1>2, <1>3 DEF cs, ts

(***************************************************************************)
(* What a stream still owes its page, which has been brought `seen' while  *)
(* its user's data is at version `now'.                                    *)
(***************************************************************************)
Seen == [companies : Nat, timers : Nat]
Within(seen, now) == seen.companies <= now /\ seen.timers <= now
Newer(new, old) == old.companies <= new.companies /\ old.timers <= new.timers
Brought(m, seen) == [companies |-> Else(m.companies, seen.companies),
                     timers |-> Else(m.timers, seen.timers)]

\* A stream whose last reload succeeded.
Reloaded(x) == x.pc = "select" /\ ~x.paused

\* Its messages climb from what the page has to what the handler read, as soon
\* as the handler has read anything; and once it has sent both lists, those are
\* what the messages come to.
Backlog(x, seen, now) ==
  LET cs == Companies(x.out)
      ts == Timers(x.out)
  IN /\ Climbs(cs, seen.companies, now) /\ Climbs(ts, seen.timers, now)
     /\ x.pc = "timers" \/ Reloaded(x) =>
          x.companies <= now /\ Climbs(cs, seen.companies, x.companies)
     /\ x.ticks \/ Reloaded(x) =>
          x.timers <= now /\ Climbs(ts, seen.timers, x.timers)
     /\ Reloaded(x) => /\ Lands(cs, seen.companies, x.companies)
                       /\ Lands(ts, seen.timers, x.timers)

LEMMA BacklogType ==
  ASSUME NEW x \in StreamStates
  PROVE  /\ x.companies \in Nat /\ x.timers \in Nat /\ x.out \in Seq(Messages)
         /\ Companies(x.out) \in Seq(Version) /\ Timers(x.out) \in Seq(Version)
<1>1. x.companies \in Nat /\ x.timers \in Nat /\ x.out \in Seq(Messages)
  BY DEF StreamStates
<1> QED
  BY <1>1, VersionsType

\* More is committed.
LEMMA BacklogBehind ==
  ASSUME NEW x \in StreamStates, NEW seen \in Seen, NEW now \in Nat, NEW later \in Nat,
         now <= later, Backlog(x, seen, now)
  PROVE  Backlog(x, seen, later)
<1>1. /\ x.companies \in Nat /\ x.timers \in Nat /\ seen.companies \in Nat /\ seen.timers \in Nat
      /\ Companies(x.out) \in Seq(Version) /\ Timers(x.out) \in Seq(Version)
  BY BacklogType DEF Seen
<1>2. Climbs(Companies(x.out), seen.companies, later) /\ Climbs(Timers(x.out), seen.timers, later)
  BY <1>1, ClimbsHigher DEF Backlog
<1>3. (x.companies <= now => x.companies <= later) /\ (x.timers <= now => x.timers <= later)
  BY <1>1
<1> QED
  BY <1>2, <1>3 DEF Backlog

\* A message arrives.
LEMMA BacklogArrives ==
  ASSUME NEW x \in StreamStates, NEW seen \in Seen, NEW now \in Nat,
         x.out # <<>>, Backlog(x, seen, now)
  PROVE  LET got == Brought(Head(x.out), seen) IN
         /\ got \in Seen /\ Newer(got, seen) /\ Within(got, now)
         /\ Backlog([x EXCEPT !.out = Tail(@)], got, now)
<1> DEFINE cs == Companies(x.out)
           ts == Timers(x.out)
           c == Else(Head(cs), seen.companies)
           t == Else(Head(ts), seen.timers)
           y == [x EXCEPT !.out = Tail(@)]
<1>1. /\ x.companies \in Nat /\ x.timers \in Nat /\ x.out \in Seq(Messages)
      /\ cs \in Seq(Version) /\ ts \in Seq(Version)
      /\ seen.companies \in Nat /\ seen.timers \in Nat
  BY BacklogType DEF Seen
<1>2. /\ cs # <<>> /\ Head(cs) = Head(x.out).companies /\ Companies(Tail(x.out)) = Tail(cs)
      /\ ts # <<>> /\ Head(ts) = Head(x.out).timers /\ Timers(Tail(x.out)) = Tail(ts)
  BY <1>1, VersionsOf
<1>3. /\ y.pc = x.pc /\ y.paused = x.paused /\ y.ticks = x.ticks /\ y.out = Tail(x.out)
      /\ y.companies = x.companies /\ y.timers = x.timers
  BY DEF StreamStates
<1>4. Brought(Head(x.out), seen) = [companies |-> c, timers |-> t]
  BY <1>2 DEF Brought
<1> HIDE DEF cs, ts, y
<1>5. ASSUME NEW hi \in Nat, Climbs(cs, seen.companies, hi)
      PROVE  /\ c \in Nat /\ seen.companies <= c /\ c <= hi /\ Climbs(Tail(cs), c, hi)
             /\ Lands(cs, seen.companies, hi) => Lands(Tail(cs), c, hi)
  BY <1>1, <1>2, <1>5, ClimbsArrive
<1>6. ASSUME NEW hi \in Nat, Climbs(ts, seen.timers, hi)
      PROVE  /\ t \in Nat /\ seen.timers <= t /\ t <= hi /\ Climbs(Tail(ts), t, hi)
             /\ Lands(ts, seen.timers, hi) => Lands(Tail(ts), t, hi)
  BY <1>1, <1>2, <1>6, ClimbsArrive
<1> HIDE DEF c, t
<1> DEFINE got == [companies |-> c, timers |-> t]
<1>7. got \in Seen /\ Newer(got, seen) /\ Within(got, now)
  BY <1>5, <1>6 DEF Seen, Newer, Within, Backlog, cs, ts
<1>8. Backlog(y, got, now)
  BY <1>1, <1>2, <1>3, <1>5, <1>6 DEF Backlog, Reloaded, cs, ts
<1> QED
  BY <1>4, <1>7, <1>8 DEF y

\* The handler moves on: it reads companies, is woken, or ends, and sends nothing.
LEMMA BacklogWaits ==
  ASSUME NEW x \in StreamStates, NEW y \in StreamStates, NEW seen \in Seen, NEW now \in Nat,
         Backlog(x, seen, now), y.out = x.out,
         y.ticks => x.ticks /\ y.timers = x.timers,
         \/ y.pc = "timers" /\ y.companies = now
         \/ y.pc \in {"companies", "off"}
  PROVE  Backlog(y, seen, now)
<1>1. now <= now
  OBVIOUS
<1> QED
  BY <1>1 DEF Backlog, Reloaded

\* The handler sends.
LEMMA BacklogGrows ==
  ASSUME NEW x \in StreamStates, NEW y \in StreamStates, NEW m \in Messages,
         NEW seen \in Seen, NEW now \in Nat,
         Backlog(x, seen, now), y.pc = "select", y.out = Append(x.out, m),
         \* ReloadTimers
         \/ /\ x.pc = "timers" /\ m.companies = x.companies /\ m.timers = now
            /\ y.companies = x.companies /\ y.timers = now
         \* ReloadFails
         \/ /\ m.companies = None /\ m.timers = None
            /\ y.paused /\ y.timers = x.timers /\ y.ticks = x.ticks
         \* Tick
         \/ /\ x.pc = "select" /\ x.ticks /\ m.companies = None /\ m.timers = x.timers
            /\ y.paused = x.paused /\ y.companies = x.companies
            /\ y.timers = x.timers /\ y.ticks = x.ticks
  PROVE  Backlog(y, seen, now)
<1> DEFINE cs == Companies(x.out)
           ts == Timers(x.out)
<1>1. /\ x.companies \in Nat /\ x.timers \in Nat /\ x.out \in Seq(Messages)
      /\ cs \in Seq(Version) /\ ts \in Seq(Version)
      /\ seen.companies \in Nat /\ seen.timers \in Nat
  BY BacklogType DEF Seen
<1>2. Companies(y.out) = Append(cs, m.companies) /\ Timers(y.out) = Append(ts, m.timers)
  BY <1>1, VersionsOf
<1>3. None \in Version /\ None \notin Nat /\ \A v \in Nat : v \in Version /\ v # None /\ v <= v
  BY NoneAssumption DEF Version
<1> HIDE DEF cs, ts
<1>4. ASSUME NEW q \in Seq(Version), NEW lo \in Nat, NEW hi \in Nat, Climbs(q, lo, hi)
      PROVE  /\ Append(q, None) \in Seq(Version)
             /\ Climbs(Append(q, None), lo, hi)
             /\ Lands(q, lo, hi) => Lands(Append(q, None), lo, hi)
  BY <1>3, <1>4, ClimbsOn
<1>5. ASSUME NEW q \in Seq(Version), NEW lo \in Nat, NEW hi \in Nat, Climbs(q, lo, hi), hi <= now
      PROVE  /\ Climbs(Append(q, hi), lo, hi) /\ Lands(Append(q, hi), lo, hi)
             /\ Climbs(Append(q, hi), lo, now)
  <2>1. Climbs(Append(q, hi), lo, hi) /\ Lands(Append(q, hi), lo, hi)
    BY <1>3, <1>5, ClimbsOn
  <2>2. Append(q, hi) \in Seq(Version)
    BY <1>3
  <2> QED
    BY <1>5, <2>1, <2>2, ClimbsHigher
<1>6. Climbs(cs, seen.companies, now) /\ Climbs(ts, seen.timers, now)
  BY DEF Backlog, cs, ts
<1>7. CASE /\ x.pc = "timers" /\ m.companies = x.companies /\ m.timers = now
           /\ y.companies = x.companies /\ y.timers = now
  <2>1. x.companies <= now /\ Climbs(cs, seen.companies, x.companies)
    BY <1>7 DEF Backlog, cs
  <2> QED
    BY <1>1, <1>2, <1>3, <1>5, <1>6, <1>7, <2>1 DEF Backlog
<1>8. CASE /\ m.companies = None /\ m.timers = None
           /\ y.paused /\ y.timers = x.timers /\ y.ticks = x.ticks
  <2>1. x.ticks => x.timers <= now /\ Climbs(ts, seen.timers, x.timers)
    BY DEF Backlog, ts
  <2> QED
    BY <1>1, <1>2, <1>4, <1>6, <1>8, <2>1 DEF Backlog, Reloaded
<1>9. CASE /\ x.pc = "select" /\ x.ticks /\ m.companies = None /\ m.timers = x.timers
           /\ y.paused = x.paused /\ y.companies = x.companies
           /\ y.timers = x.timers /\ y.ticks = x.ticks
  <2>1. x.timers <= now /\ Climbs(ts, seen.timers, x.timers)
    BY <1>9 DEF Backlog, ts
  <2>2. Reloaded(x) => /\ x.companies <= now /\ Climbs(cs, seen.companies, x.companies)
                       /\ Lands(cs, seen.companies, x.companies)
    BY DEF Backlog, cs
  <2>3. Reloaded(y) => Reloaded(x)
    BY <1>9 DEF Reloaded
  <2> QED
    BY <1>1, <1>2, <1>3, <1>4, <1>5, <1>6, <1>9, <2>1, <2>2, <2>3 DEF Backlog
<1> QED
  BY <1>7, <1>8, <1>9

\* A stream is opened: it owes nothing yet.
LEMMA BacklogOpens ==
  ASSUME NEW x, x.out = <<>>, x.pc = "companies", ~x.ticks,
         NEW seen \in Seen, NEW now \in Nat, Within(seen, now)
  PROVE  Backlog(x, seen, now)
<1>1. DOMAIN Companies(x.out) = {} /\ DOMAIN Timers(x.out) = {}
  BY DEF Companies, Timers
<1> QED
  BY <1>1 DEF Backlog, Reloaded, Climbs, Within

(***************************************************************************)
(* A page being loaded has one request and no stream.                      *)
(***************************************************************************)
Loading(r) == req[r].load /\ req[r].page # None


\* A stream feeds one page, which is open and its user's.
FeedsApart ==
  \A p \in Pages : page[p].stream # None =>
    /\ page[p].open
    /\ \A q \in Pages \ {p} : page[q].stream # page[p].stream
    /\ Served(page[p].stream) => stream[page[p].stream].user = Owner[p]

\* A load is the only request of its page, which is not open yet.
LoadsApart ==
  \A r \in Requests : Loading(r) =>
    /\ req[r].pc \in {"companies", "timers", "sent"}
    /\ req[r].user = Owner[req[r].page]
    /\ ~page[req[r].page].open
    /\ \A q \in Requests \ {r} : req[q].page # req[r].page

LEMMA FeedsKept ==
  ASSUME TypeOK, FeedsApart,
         \A p \in Pages : /\ page'[p].stream \in {page[p].stream, None}
                          /\ page'[p].stream # None => page'[p].open,
         \A s \in Streams : Served(s)' => Served(s) /\ stream'[s].user = stream[s].user
  PROVE  FeedsApart'
<1>1. \A p \in Pages : page[p].stream # None => page[p].stream \in Streams
  BY DEF TypeOK, PageStates
<1> QED
  BY <1>1 DEF FeedsApart, Served

LEMMA LoadsKept ==
  ASSUME LoadsApart,
         \A r \in Requests : /\ req'[r].page \in {req[r].page, None}
                             /\ Loading(r)' => /\ Loading(r) /\ req'[r].user = req[r].user
                                               /\ req'[r].pc \in {"companies", "timers", "sent"},
         \A p \in Pages : page'[p].open => page[p].open, TypeOK
  PROVE  LoadsApart'
<1>1. \A r \in Requests : req[r].page # None => req[r].page \in Pages
  BY DEF TypeOK, RequestStates
<1> QED
  BY <1>1 DEF LoadsApart, Loading

\* One request moves, and if it is still a load it was one further back.
OthersStay(r) == \A q \in Requests \ {r} : req'[q] = req[q]
LoadGoesOn(r) ==
  /\ req'[r].page \in {req[r].page, None}
  /\ req'[r].load /\ req'[r].page # None =>
       /\ req[r].load /\ req'[r].user = req[r].user
       /\ req[r].pc \in {"companies", "timers", "sent"} => req'[r].pc \in {"timers", "sent"}

LEMMA ApartInvariant ==
  ASSUME TypeOK, FeedsApart, LoadsApart, [Next]_vars
  PROVE  FeedsApart' /\ LoadsApart'
<1> USE NoneAssumption
<1>0. /\ req \in [Requests -> RequestStates] /\ stream \in [Streams -> StreamStates]
      /\ page \in [Pages -> PageStates]
      /\ \A r \in Requests : req[r].page # None => req[r].page \in Pages
      /\ \A p \in Pages : page[p].stream # None => page[p].stream \in Streams
  BY DEF TypeOK, RequestStates, PageStates
<1>1. ASSUME UNCHANGED <<stream, page>> PROVE FeedsApart'
  BY <1>1 DEF FeedsApart, Served
<1>2. ASSUME UNCHANGED <<req, page>> PROVE LoadsApart'
  BY <1>2 DEF LoadsApart, Loading
<1>3. ASSUME NEW r \in Requests, OthersStay(r), LoadGoesOn(r), page' = page
      PROVE  LoadsApart'
  <2> USE DEF OthersStay, LoadGoesOn
  <2>1. \A q \in Requests : Loading(q)' => /\ Loading(q) /\ req'[q].user = req[q].user
                                          /\ req'[q].pc \in {"companies", "timers", "sent"}
    <3>1. \A q \in Requests : q # r => req'[q] = req[q]
      BY <1>3
    <3> QED
      BY <1>3, <3>1 DEF Loading, LoadsApart
  <2> QED
    BY <1>3, <2>1, LoadsKept
<1>4. ASSUME NEW r \in Requests, Handler(r) PROVE FeedsApart' /\ LoadsApart'
  <2>1. FeedsApart'
    BY <1>1, <1>4 DEF Handler, Commit, Miss, Refuse, Announce, ReadCompanies, ReadTimers,
                      ReadFails, Discard
  <2>2. page' = page
    BY <1>4 DEF Handler, Commit, Miss, Refuse, Announce, ReadCompanies, ReadTimers,
                ReadFails, Discard
  <2>3. req[r] \in RequestStates
    BY <1>0
  <2>4. OthersStay(r)
    BY <1>0, <1>4 DEF Handler, Commit, Miss, Refuse, Announce, ReadCompanies, ReadTimers,
                      ReadFails, Discard, OthersStay
  <2>5. CASE Commit(r) \/ Miss(r) \/ Announce(r)
    <3>1. /\ req'[r].page = req[r].page /\ req'[r].load = req[r].load
          /\ req'[r].user = req[r].user /\ req[r].pc \in {"write", "announce"}
      BY <1>0, <2>3, <2>5 DEF Commit, Miss, Announce, RequestStates
    <3>2. LoadGoesOn(r)
      BY <3>1 DEF LoadGoesOn
    <3> QED
      BY <1>3, <2>1, <2>2, <2>4, <3>2
  <2>6. CASE Refuse(r) \/ ReadCompanies(r) \/ ReadTimers(r)
    <3>1. /\ req'[r].page = req[r].page /\ req'[r].load = req[r].load
          /\ req'[r].user = req[r].user /\ req'[r].pc \in {"timers", "sent"}
      <4>1. CASE Refuse(r)
        BY <1>0, <2>3, <4>1 DEF Refuse, RequestStates
      <4>2. CASE ReadCompanies(r)
        BY <1>0, <2>3, <4>2 DEF ReadCompanies, RequestStates
      <4>3. CASE ReadTimers(r)
        BY <1>0, <2>3, <4>3 DEF ReadTimers, RequestStates
      <4> QED
        BY <2>6, <4>1, <4>2, <4>3
    <3>2. LoadGoesOn(r)
      BY <3>1 DEF LoadGoesOn
    <3> QED
      BY <1>3, <2>1, <2>2, <2>4, <3>2
  <2>7. CASE ReadFails(r) /\ ~req[r].load
    <3>1. req'[r].page = req[r].page /\ ~req'[r].load
      BY <1>0, <2>3, <2>7 DEF ReadFails, RequestStates
    <3>2. LoadGoesOn(r)
      BY <3>1 DEF LoadGoesOn
    <3> QED
      BY <1>3, <2>1, <2>2, <2>4, <3>2
  <2>8. CASE req' = [req EXCEPT ![r] = NoRequest]
    <3>1. req'[r].page = None
      BY <1>0, <2>8 DEF NoRequest
    <3>2. LoadGoesOn(r)
      BY <3>1 DEF LoadGoesOn
    <3> QED
      BY <1>3, <2>1, <2>2, <2>4, <3>2
  <2> QED
    BY <1>4, <2>1, <2>5, <2>6, <2>7, <2>8 DEF Handler, ReadFails, Discard
<1>5. ASSUME NEW r \in Requests, Sent(r) PROVE FeedsApart' /\ LoadsApart'
  <2>1. FeedsApart' /\ page' = page
    BY <1>1, <1>5 DEF Sent, Load, Press, PressElsewhere
  <2>2. ASSUME NEW new, req' = [req EXCEPT ![r] = new],
               \/ ~new.load /\ new.page = None
               \/ ~new.load /\ new.page \in Pages /\ page[new.page].open
               \/ /\ new.pc = "companies" /\ new.page \in Pages /\ new.user = Owner[new.page]
                  /\ ~page[new.page].open
                  /\ \A q \in Requests : req[q].page # new.page
        PROVE  LoadsApart'
    <3>1. \A q \in Requests : req'[q] = IF q = r THEN new ELSE req[q]
      BY <1>0, <2>2
    <3> QED
      BY <2>1, <2>2, <3>1 DEF LoadsApart, Loading
  <2>3. ASSUME NEW p \in Pages, Load(r, p) PROVE LoadsApart'
    BY <2>2, <2>3 DEF Load, NoRequest
  <2>4. ASSUME NEW p \in Pages, Press(r, p) PROVE LoadsApart'
    BY <2>2, <2>4 DEF Press, NoRequest
  <2>5. ASSUME NEW u \in Users, PressElsewhere(r, u) PROVE LoadsApart'
    BY <2>2, <2>5 DEF PressElsewhere, NoRequest
  <2> QED
    BY <1>5, <2>1, <2>3, <2>4, <2>5 DEF Sent
<1>6. ASSUME NEW r \in Requests, LoseResponse(r) PROVE FeedsApart' /\ LoadsApart'
  <2>1. /\ req'[r].page = None /\ UNCHANGED <<stream, page>>
        /\ OthersStay(r)
    BY <1>0, <1>6 DEF LoseResponse, NoRequest, OthersStay
  <2> QED
    BY <1>1, <1>3, <2>1 DEF LoadGoesOn
<1>7. ASSUME NEW r \in Requests, Respond(r) PROVE FeedsApart' /\ LoadsApart'
  <2>1. PICK p \in Pages : p = req[r].page
    BY <1>0, <1>7 DEF Respond
  <2>2. /\ stream' = stream /\ \A q \in Pages \ {p} : page'[q] = page[q]
        /\ page'[p].stream = page[p].stream
        /\ page'[p].open = (page[p].open \/ req[r].load)
    BY <1>0, <1>7, <2>1 DEF Respond, ApplyStreamed, Apply, PageStates
  <2>3. /\ ~Loading(r)' /\ req'[r].page = None
        /\ \A q \in Requests \ {r} : req'[q] = req[q]
    BY <1>0, <1>7 DEF Respond, NoRequest, Loading
  <2>4. FeedsApart'
    <3>1. \A q \in Pages : page'[q].stream = page[q].stream /\ (page[q].open => page'[q].open)
      BY <2>2
    <3>2. \A q \in Pages : page'[q].stream # None => page'[q].open
      BY <3>1 DEF FeedsApart
    <3> QED
      BY <2>2, <3>1, <3>2, FeedsKept DEF Served
  <2>5. \A q \in Requests : Loading(q)' => Loading(q) /\ ~page'[req[q].page].open
    BY <1>0, <2>1, <2>2, <2>3 DEF LoadsApart, Loading
  <2>6. LoadsApart'
    BY <2>3, <2>5 DEF LoadsApart, Loading
  <2> QED
    BY <2>4, <2>6
<1>8. ASSUME NEW p \in Pages, Browser(p) PROVE FeedsApart' /\ LoadsApart'
  <2>0. page[p] \in PageStates
    BY <1>0
  <2>1. ASSUME NEW s \in Streams, Open(p, s) PROVE FeedsApart' /\ LoadsApart'
    <3>1. /\ page' = [page EXCEPT ![p].stream = s] /\ page[p].open
          /\ stream'[s].user = Owner[p] /\ \A x \in Streams \ {s} : stream'[x] = stream[x]
          /\ \A q \in Pages : page[q].stream # s
          /\ req' = req
      BY <1>0, <2>1 DEF Open, Attached, NoStream
    <3>2. /\ page'[p].stream = s /\ page'[p].open = page[p].open
          /\ \A q \in Pages \ {p} : page'[q] = page[q]
      BY <1>0, <2>0, <3>1 DEF PageStates
    <3>3. FeedsApart'
      BY <1>0, <3>1, <3>2 DEF FeedsApart, Served
    <3>4. LoadsApart'
      BY <1>0, <3>1, <3>2 DEF LoadsApart, Loading
    <3> QED
      BY <3>3, <3>4
  <2>2. ASSUME \A s \in Streams : ~Open(p, s) PROVE FeedsApart' /\ LoadsApart'
    <3>1. \A s \in Streams : Served(s)' => Served(s) /\ stream'[s].user = stream[s].user
      BY <1>8, <2>2, BrowsersStandBy DEF Bystander, Still, Served
    <3>2. /\ \A q \in Pages \ {p} : page'[q] = page[q]
          /\ page'[p].stream \in {page[p].stream, None}
          /\ page'[p].stream # None => page'[p].open = page[p].open
          /\ page'[p].open => page[p].open
      <4>1. CASE Receives(p)
        <5>1. PICK m : page' = [page EXCEPT ![p] = ApplyStreamed(page[p], m)]
          BY <4>1 DEF Receives
        <5>2. /\ ApplyStreamed(page[p], m).stream = page[p].stream
              /\ ApplyStreamed(page[p], m).open = page[p].open
          BY <2>0 DEF ApplyStreamed, Apply, PageStates
        <5> QED
          BY <1>0, <5>1, <5>2
      <4>2. CASE LoseConnection(p) \/ NoticeEnd(p)
        <5>1. page' = [page EXCEPT ![p].stream = None]
          BY <4>2 DEF LoseConnection, NoticeEnd
        <5> QED
          BY <1>0, <2>0, <5>1 DEF PageStates
      <4>3. CASE Leave(p)
        BY <1>0, <2>0, <4>3 DEF Leave, PageStates
      <4> QED
        BY <1>8, <2>2, <4>1, <4>2, <4>3 DEF Browser
    <3>3. FeedsApart'
      <4>1. \A q \in Pages : /\ page'[q].stream \in {page[q].stream, None}
                             /\ page'[q].stream # None => page'[q].open
        BY <3>2 DEF FeedsApart
      <4> QED
        BY <3>1, <4>1, FeedsKept
    <3>4. \A r \in Requests :
            /\ req'[r].page \in {req[r].page, None}
            /\ Loading(r)' => /\ Loading(r) /\ req'[r].user = req[r].user
                              /\ req'[r].pc \in {"companies", "timers", "sent"}
      <4>1. CASE Leave(p)
        BY <1>0, <4>1 DEF Leave, Loading, LoadsApart, RequestStates
      <4>2. CASE req' = req
        BY <4>2 DEF Loading, LoadsApart
      <4> QED
        BY <1>8, <2>2, <4>1, <4>2 DEF Browser, Receives, LoseConnection, NoticeEnd
    <3>5. LoadsApart'
      BY <3>2, <3>4, LoadsKept
    <3> QED
      BY <3>3, <3>5
  <2> QED
    BY <2>1, <2>2
<1>9. ASSUME NEW s \in Streams, GetStream(s) PROVE FeedsApart' /\ LoadsApart'
  <2>0. stream[s] \in StreamStates
    BY <1>0
  <2>1. UNCHANGED <<req, page>> /\ \A x \in Streams \ {s} : stream'[x] = stream[x]
    BY <1>0, <1>9 DEF GetStream, Reload, ReloadCompanies, ReloadTimers, ReloadFails, Wake, Tick,
                BrowserGone, SeeClosing, EndStream
  <2>2. Served(s)' => Served(s) /\ stream'[s].user = stream[s].user
    <3>1. CASE EndStream(s)
      BY <1>0, <3>1 DEF EndStream, Served, NoStream
    <3>2. CASE ReloadCompanies(s) \/ Wake(s) \/ Tick(s)
      BY <1>0, <2>0, <3>2 DEF ReloadCompanies, Wake, Tick, Served, StreamStates
    <3>3. CASE ReloadTimers(s)
      BY <1>0, <2>0, <3>3 DEF ReloadTimers, Served, StreamStates
    <3>4. CASE ReloadFails(s)
      BY <1>0, <2>0, <3>4 DEF ReloadFails, Served, StreamStates
    <3> QED
      BY <1>9, <3>1, <3>2, <3>3, <3>4 DEF GetStream, Reload, BrowserGone, SeeClosing
  <2>3. FeedsApart'
    <3>1. \A p \in Pages : page'[p].stream # None => page'[p].open
      BY <2>1 DEF FeedsApart
    <3>2. \A x \in Streams : Served(x)' => Served(x) /\ stream'[x].user = stream[x].user
      BY <2>1, <2>2 DEF Served
    <3> QED
      BY <2>1, <3>1, <3>2, FeedsKept
  <2> QED
    BY <1>2, <2>1, <2>3
<1>10. CASE Process
  <2>1. CASE Stopped
    <3>1. page' = page /\ \A s \in Streams : ~Served(s)'
      BY <2>1 DEF Stopped, Served, NoStream
    <3>2. \A r \in Requests : req'[r] = req[r] \/ req'[r] = NoRequest
      BY <2>1 DEF Stopped
    <3>3. FeedsApart'
      BY <1>0, <3>1 DEF FeedsApart, Served
    <3>4. LoadsApart'
      BY <3>1, <3>2 DEF LoadsApart, Loading, NoRequest
    <3> QED
      BY <3>3, <3>4
  <2> QED
    BY <1>1, <1>2, <1>10, <2>1 DEF Process, Crash, Shutdown, ShutdownDone, ShutdownTimeout, Restart
<1>11. CASE Next
  BY <1>4, <1>5, <1>6, <1>7, <1>8, <1>9, <1>10, <1>11, Actors
<1>12. CASE UNCHANGED vars
  BY <1>1, <1>2, <1>12 DEF vars
<1> QED
  BY <1>11, <1>12

(***************************************************************************)
(* Nothing owed to a page is older than what the page was brought.         *)
(***************************************************************************)
\* What a load of a page has read is no older than what the page was brought.
LoadStands(x, seen, now) ==
  /\ x.pc = "timers" => seen.companies <= x.companies /\ x.companies <= now
  /\ x.pc = "sent" => /\ x.out.companies \in seen.companies .. now
                      /\ x.out.timers \in seen.timers .. now

PageOwed(p) ==
  /\ Within(page[p].streamed, db[Owner[p]])
  /\ page[p].stream # None =>
       Backlog(stream[page[p].stream], page[p].streamed, db[Owner[p]])
LoadOwed(r) ==
  Loading(r) => LoadStands(req[r], page[req[r].page].streamed, db[Owner[req[r].page]])

Owed == (\A p \in Pages : PageOwed(p)) /\ (\A r \in Requests : LoadOwed(r))

LEMMA Known ==
  ASSUME TypeOK
  PROVE  /\ \A p \in Pages : /\ page[p] \in PageStates /\ page[p].streamed \in Seen
                             /\ Owner[p] \in Users /\ db[Owner[p]] \in Nat
                             /\ page[p].stream # None => page[p].stream \in Streams
         /\ \A s \in Streams : stream[s] \in StreamStates
         /\ \A r \in Requests : /\ req[r] \in RequestStates
                                /\ req[r].page # None => req[r].page \in Pages
  BY OwnerAssumption DEF TypeOK, PageStates, RequestStates, Seen

\* What a message does to what the page was brought.
LEMMA ApplyBrings ==
  ASSUME NEW pg \in PageStates, NEW m
  PROVE  /\ ApplyStreamed(pg, m).streamed = Brought(m, pg.streamed)
         /\ ApplyStreamed(pg, m).stream = pg.stream
         /\ Apply(pg, m).streamed = pg.streamed
         /\ Apply(pg, m).stream = pg.stream
  BY DEF ApplyStreamed, Apply, PageStates, Brought

\* Data only moves on.
LEMMA Forward ==
  ASSUME TypeOK, [Next]_vars
  PROVE  /\ \A u \in Users : db[u] <= db'[u]
         /\ db' # db => \E r \in Requests : Commit(r)
<1> USE DEF TypeOK
<1>1. ASSUME db' = db PROVE \A u \in Users : db[u] <= db'[u]
  BY <1>1
<1>2. ASSUME NEW r \in Requests, Commit(r) PROVE \A u \in Users : db[u] <= db'[u]
  BY <1>2 DEF Commit
<1>3. ASSUME NEW r \in Requests, Handler(r) \/ Respond(r) \/ LoseResponse(r) \/ Sent(r)
      PROVE  db' = db \/ Commit(r)
  BY <1>3 DEF Handler, Miss, Refuse, Announce, ReadCompanies, ReadTimers, ReadFails, Discard,
              Respond, LoseResponse, Sent, Load, Press, PressElsewhere
<1>4. ASSUME NEW p \in Pages, Browser(p) PROVE db' = db
  BY <1>4 DEF Browser, Receives, LoseConnection, NoticeEnd, Leave, Open
<1>5. ASSUME NEW s \in Streams, GetStream(s) PROVE db' = db
  BY <1>5 DEF GetStream, Reload, ReloadCompanies, ReloadTimers, ReloadFails, Wake, Tick,
              BrowserGone, SeeClosing, EndStream
<1>6. CASE Process
  BY <1>6 DEF Process, Crash, Shutdown, ShutdownDone, ShutdownTimeout, Restart, Stopped
<1>7. CASE UNCHANGED vars
  BY <1>7 DEF vars
<1> QED
  BY <1>1, <1>2, <1>3, <1>4, <1>5, <1>6, <1>7, Actors

\* Whatever is not touched is still owed.
LEMMA PageOwedKept ==
  ASSUME TypeOK, TypeOK', NEW p \in Pages, PageOwed(p), db[Owner[p]] <= db'[Owner[p]],
         page'[p].streamed = page[p].streamed, page'[p].stream \in {page[p].stream, None},
         page'[p].stream # None => stream'[page[p].stream] = stream[page[p].stream]
  PROVE  PageOwed(p)'
<1>1. /\ page[p].streamed \in Seen /\ db[Owner[p]] \in Nat /\ db'[Owner[p]] \in Nat
      /\ page[p].stream # None => stream[page[p].stream] \in StreamStates
  BY Known DEF TypeOK
<1>2. Within(page[p].streamed, db'[Owner[p]])
  BY <1>1 DEF PageOwed, Within, Seen
<1>3. ASSUME page'[p].stream # None
      PROVE  Backlog(stream[page[p].stream], page[p].streamed, db'[Owner[p]])
  BY <1>1, <1>3, BacklogBehind DEF PageOwed
<1> QED
  BY <1>2, <1>3 DEF PageOwed

LEMMA LoadOwedKept ==
  ASSUME TypeOK, TypeOK', NEW r \in Requests, LoadOwed(r),
         Loading(r) => /\ page'[req[r].page].streamed = page[req[r].page].streamed
                       /\ db[Owner[req[r].page]] <= db'[Owner[req[r].page]],
         req'[r] = req[r]
  PROVE  LoadOwed(r)'
<1> SUFFICES ASSUME Loading(r) PROVE LoadOwed(r)'
  BY DEF LoadOwed, Loading
<1>1. PICK p \in Pages : p = req[r].page
  BY Known DEF Loading
<1>2. /\ page[p].streamed \in Seen /\ db[Owner[p]] \in Nat /\ db'[Owner[p]] \in Nat
      /\ req[r] \in RequestStates
  BY Known DEF TypeOK
<1>3. LoadStands(req[r], page[p].streamed, db'[Owner[p]])
  BY <1>1, <1>2 DEF LoadOwed, LoadStands, Seen, RequestStates
<1> QED
  BY <1>1, <1>3 DEF LoadOwed, Loading

\* A page load's answer arrives.
LEMMA LoadBrings ==
  ASSUME TypeOK, FeedsApart, LoadsApart, NEW r \in Requests, LoadOwed(r), Respond(r), req[r].load,
         NEW p \in Pages, p = req[r].page
  PROVE  /\ \A q \in Pages \ {p} : page'[q] = page[q]
         /\ page'[p].stream = None
         /\ Newer(page'[p].streamed, page[p].streamed)
         /\ Within(page'[p].streamed, db[Owner[p]])
<1>1. page[p] \in PageStates /\ page[p].streamed \in Seen /\ db[Owner[p]] \in Nat
  BY Known
<1> DEFINE m == req[r].out
<1>2. /\ page' = [page EXCEPT ![p] = [ApplyStreamed(page[p], m) EXCEPT !.open = TRUE]]
      /\ page \in [Pages -> PageStates] /\ req[r].pc = "sent" /\ Loading(r)
  BY NoneAssumption DEF Respond, TypeOK, Loading
<1>3. page[p].stream = None
  BY <1>2 DEF LoadsApart, FeedsApart
<1>4. LoadStands(req[r], page[p].streamed, db[Owner[p]])
  BY <1>2 DEF LoadOwed
<1>5. /\ m.companies \in page[p].streamed.companies .. db[Owner[p]]
      /\ m.timers \in page[p].streamed.timers .. db[Owner[p]]
  BY <1>2, <1>4 DEF LoadStands
<1> HIDE DEF m
<1>6. m.companies \in Nat /\ m.timers \in Nat
  BY <1>1, <1>5 DEF Seen
<1>7. Brought(m, page[p].streamed) = [companies |-> m.companies, timers |-> m.timers]
  BY <1>6, NoneAssumption DEF Brought, Else
<1> DEFINE pg == ApplyStreamed(page[p], m)
<1>8. pg.streamed = Brought(m, page[p].streamed) /\ pg.stream = None
  BY <1>1, <1>3, ApplyBrings
<1>9. [pg EXCEPT !.open = TRUE].streamed = pg.streamed /\ [pg EXCEPT !.open = TRUE].stream = pg.stream
  BY DEF ApplyStreamed, Apply
<1> HIDE DEF pg
<1>10. page'[p] = [pg EXCEPT !.open = TRUE] /\ \A q \in Pages \ {p} : page'[q] = page[q]
  BY <1>2 DEF pg
<1>11. page'[p].streamed = [companies |-> m.companies, timers |-> m.timers]
  BY <1>7, <1>8, <1>9, <1>10
<1> QED
  BY <1>1, <1>5, <1>6, <1>8, <1>9, <1>10, <1>11 DEF Newer, Within

\* A stream's message arrives.
LEMMA StreamBrings ==
  ASSUME TypeOK, NEW p \in Pages, PageOwed(p), Receives(p),
         NEW s \in Streams, s = page[p].stream
  PROVE  /\ \A q \in Pages \ {p} : page'[q] = page[q]
         /\ page'[p].stream = s
         /\ \A x \in Streams \ {s} : stream'[x] = stream[x]
         /\ Newer(page'[p].streamed, page[p].streamed)
         /\ Within(page'[p].streamed, db[Owner[p]])
         /\ Backlog(stream'[s], page'[p].streamed, db[Owner[p]])
<1>1. /\ page[p] \in PageStates /\ page[p].streamed \in Seen /\ db[Owner[p]] \in Nat
      /\ stream[s] \in StreamStates
  BY Known
<1>2. /\ page' = [page EXCEPT ![p] = ApplyStreamed(page[p], Head(stream[s].out))]
      /\ stream' = [stream EXCEPT ![s] = [stream[s] EXCEPT !.out = Tail(@)]]
      /\ stream[s].out # <<>> /\ page[p].stream = s /\ s # None
      /\ page \in [Pages -> PageStates] /\ stream \in [Streams -> StreamStates]
  BY NoneAssumption DEF Receives, TypeOK
<1>3. page'[p] = ApplyStreamed(page[p], Head(stream[s].out))
  BY <1>2
<1>4. page'[p].streamed = Brought(Head(stream[s].out), page[p].streamed) /\ page'[p].stream = s
  BY <1>1, <1>2, <1>3, ApplyBrings
<1>5. Backlog(stream[s], page[p].streamed, db[Owner[p]])
  BY <1>2 DEF PageOwed
<1>6. stream'[s] = [stream[s] EXCEPT !.out = Tail(@)]
  BY <1>2
<1> QED
  BY <1>1, <1>2, <1>4, <1>5, <1>6, BacklogArrives

\* A stream's handler takes a step: what it owes its page stays in order.
LEMMA HandlerOwes ==
  ASSUME TypeOK, TypeOK', NEW s \in Streams, GetStream(s), NEW seen \in Seen, NEW now \in Nat,
         Backlog(stream[s], seen, now), Served(s) => now = db[stream[s].user]
  PROVE  Backlog(stream'[s], seen, now)
<1>1. /\ stream[s] \in StreamStates /\ stream'[s] \in StreamStates
      /\ stream \in [Streams -> StreamStates]
  BY DEF TypeOK
<1>2. CASE ReloadCompanies(s)
  <2>1. /\ stream'[s].pc = "timers" /\ stream'[s].companies = now /\ stream'[s].out = stream[s].out
        /\ stream'[s].ticks = stream[s].ticks /\ stream'[s].timers = stream[s].timers
    BY <1>1, <1>2 DEF ReloadCompanies, Served, StreamStates
  <2> QED
    BY <1>1, <2>1, BacklogWaits
<1>3. CASE ReloadTimers(s)
  <2>1. PICK m : m = Message(stream[s].companies, now, IF stream[s].paused THEN "" ELSE None)
    OBVIOUS
  <2>2. now = db[stream[s].user] /\ stream[s].pc = "timers"
    BY <1>3 DEF ReloadTimers, Served
  <2>3. /\ stream'[s].pc = "select" /\ stream'[s].out = Append(stream[s].out, m)
        /\ stream'[s].companies = stream[s].companies /\ stream'[s].timers = now
    BY <1>1, <1>3, <2>1, <2>2 DEF ReloadTimers, StreamStates
  <2>4. m.companies = stream[s].companies /\ m.timers = now /\ m \in Messages
    BY <1>1, <2>1 DEF Message, Messages, Version, StreamStates
  <2> QED
    BY <1>1, <2>2, <2>3, <2>4, BacklogGrows
<1>4. CASE ReloadFails(s)
  <2>1. PICK m : m = Flash("paused")
    OBVIOUS
  <2>2. /\ stream'[s].pc = "select" /\ stream'[s].out = Append(stream[s].out, m)
        /\ stream'[s].paused /\ stream'[s].timers = stream[s].timers
        /\ stream'[s].ticks = stream[s].ticks
    BY <1>1, <1>4, <2>1 DEF ReloadFails, StreamStates
  <2>3. m.companies = None /\ m.timers = None /\ m \in Messages
    BY <2>1 DEF Flash, Message, Messages, Version
  <2> QED
    BY <1>1, <2>2, <2>3, BacklogGrows
<1>5. CASE Wake(s)
  <2>1. /\ stream'[s].pc = "companies" /\ stream'[s].out = stream[s].out
        /\ stream'[s].ticks = stream[s].ticks /\ stream'[s].timers = stream[s].timers
    BY <1>1, <1>5 DEF Wake, StreamStates
  <2> QED
    BY <1>1, <2>1, BacklogWaits
<1>6. CASE Tick(s)
  <2>1. PICK m : m = Message(None, stream[s].timers, None)
    OBVIOUS
  <2>2. /\ stream[s].pc = "select" /\ stream[s].ticks
        /\ stream'[s].pc = "select" /\ stream'[s].out = Append(stream[s].out, m)
        /\ stream'[s].paused = stream[s].paused /\ stream'[s].ticks = stream[s].ticks
        /\ stream'[s].companies = stream[s].companies /\ stream'[s].timers = stream[s].timers
    BY <1>1, <1>6, <2>1 DEF Tick, StreamStates
  <2>3. m.companies = None /\ m.timers = stream[s].timers /\ m \in Messages
    BY <1>1, <2>1 DEF Message, Messages, Version, StreamStates
  <2> QED
    BY <1>1, <2>2, <2>3, BacklogGrows
<1>7. CASE EndStream(s)
  <2>1. stream'[s].pc = "off" /\ stream'[s].out = stream[s].out /\ ~stream'[s].ticks
    BY <1>1, <1>7 DEF EndStream, NoStream
  <2> QED
    BY <1>1, <2>1, BacklogWaits
<1> QED
  BY <1>2, <1>3, <1>4, <1>5, <1>6, <1>7 DEF GetStream, Reload, BrowserGone, SeeClosing

\* A page load's handler takes a step: it reads nothing older than the page has.
LEMMA LoadReads ==
  ASSUME TypeOK, LoadsApart, NEW r \in Requests, Handler(r), Loading(r)', page' = page,
         db' = db, NEW p \in Pages, p = req[r].page, PageOwed(p), LoadOwed(r)
  PROVE  req'[r].page = p /\ LoadStands(req'[r], page[p].streamed, db[Owner[p]])
<1>1. /\ req[r] \in RequestStates /\ req \in [Requests -> RequestStates]
      /\ page[p].streamed \in Seen /\ db[Owner[p]] \in Nat
      /\ Within(page[p].streamed, db[Owner[p]])
      /\ p # None
  BY Known, NoneAssumption DEF TypeOK, PageOwed
<1>2. ASSUME req[r].load
      PROVE  req[r].pc \in {"companies", "timers", "sent"} /\ req[r].user = Owner[p]
  BY <1>1, <1>2 DEF LoadsApart, Loading
<1>3. CASE Commit(r) \/ Miss(r) \/ Announce(r)
  <2>1. req'[r].load = req[r].load /\ req[r].pc \in {"write", "announce"}
    BY <1>1, <1>3 DEF Commit, Miss, Announce, RequestStates
  <2> QED
    BY <1>2, <2>1 DEF Loading
<1>4. CASE Refuse(r)
  <2>1. req'[r].load = req[r].load /\ req[r].pc = "write"
    BY <1>1, <1>4 DEF Refuse, RequestStates
  <2> QED
    BY <1>2, <2>1 DEF Loading
<1>5. CASE ReadCompanies(r)
  <2>1. /\ req'[r].load = req[r].load /\ req'[r].page = p /\ req'[r].pc = "timers"
        /\ req'[r].companies = db[req[r].user]
    BY <1>1, <1>5 DEF ReadCompanies, RequestStates
  <2> QED
    BY <1>1, <1>2, <2>1 DEF Loading, LoadStands, Within, Seen
<1>6. CASE ReadTimers(r)
  <2>1. PICK m : m = Message(req[r].companies, db[req[r].user], IF req[r].missed THEN "said" ELSE "")
    OBVIOUS
  <2>2. /\ req'[r].load = req[r].load /\ req'[r].page = p /\ req'[r].pc = "sent"
        /\ req'[r].out = m /\ req[r].pc = "timers"
    BY <1>1, <1>6, <2>1 DEF ReadTimers, RequestStates
  <2>3. m.companies = req[r].companies /\ m.timers = db[req[r].user] /\ req[r].companies \in Nat
    BY <1>1, <2>1 DEF Message, RequestStates
  <2>4. Loading(r)
    BY <2>2, <1>1 DEF Loading
  <2>5. LoadStands(req[r], page[p].streamed, db[Owner[p]])
    BY <2>4 DEF LoadOwed
  <2> QED
    BY <1>1, <1>2, <2>2, <2>3, <2>4, <2>5 DEF Loading, LoadStands, Within, Seen
<1>7. CASE ReadFails(r) \/ Discard(r)
  <2>1. ~req'[r].load \/ req'[r].page = None
    <3>1. CASE req' = [req EXCEPT ![r] = NoRequest]
      BY <1>1, <3>1 DEF NoRequest
    <3>2. CASE ReadFails(r) /\ ~req[r].load
      BY <1>1, <3>2 DEF ReadFails, RequestStates
    <3> QED
      BY <1>7, <3>1, <3>2 DEF ReadFails, Discard
  <2> QED
    BY <2>1 DEF Loading
<1> QED
  BY <1>3, <1>4, <1>5, <1>6, <1>7 DEF Handler

\* No step leaves anything older on its way to a page than the page was brought.
LEMMA OwedInvariant ==
  ASSUME TypeOK, TypeOK', FeedsApart, LoadsApart, Owed, [Next]_vars
  PROVE  Owed'
<1> USE NoneAssumption
<1>1. /\ \A p \in Pages : PageOwed(p)
      /\ \A r \in Requests : LoadOwed(r)
      /\ \A p \in Pages : Owner[p] \in Users
      /\ \A u \in Users : db[u] <= db'[u]
  BY Known, Forward DEF Owed
<1>2. /\ req \in [Requests -> RequestStates] /\ stream \in [Streams -> StreamStates]
      /\ page \in [Pages -> PageStates]
      /\ \A r \in Requests : req[r].page # None => req[r].page \in Pages
      /\ \A p \in Pages : page[p].stream # None => page[p].stream \in Streams
  BY Known DEF TypeOK
<1>3. ASSUME NEW p \in Pages, page'[p] = page[p],
             page[p].stream # None => stream'[page[p].stream] = stream[page[p].stream]
      PROVE  PageOwed(p)'
  BY <1>1, <1>3, PageOwedKept
<1>4. ASSUME NEW r \in Requests, req'[r] = req[r],
             Loading(r) => page'[req[r].page].streamed = page[req[r].page].streamed
      PROVE  LoadOwed(r)'
  <2>1. Loading(r) => db[Owner[req[r].page]] <= db'[Owner[req[r].page]]
    BY <1>1, <1>2 DEF Loading
  <2> QED
    BY <1>1, <1>4, <2>1, LoadOwedKept
<1>5. ASSUME NEW r \in Requests, ~Loading(r)' PROVE LoadOwed(r)'
  BY <1>5 DEF LoadOwed
<1>6. ASSUME UNCHANGED <<stream, page>> PROVE \A p \in Pages : PageOwed(p)'
  BY <1>3, <1>6
<1>7. ASSUME NEW r \in Requests, Handler(r) PROVE Owed'
  <2>1. UNCHANGED <<stream, page>> /\ \A q \in Requests \ {r} : req'[q] = req[q]
    BY <1>2, <1>7 DEF Handler, Commit, Miss, Refuse, Announce, ReadCompanies, ReadTimers,
                      ReadFails, Discard
  <2>2. \A q \in Requests \ {r} : LoadOwed(q)'
    BY <1>4, <2>1
  <2>3. LoadOwed(r)'
    <3>1. CASE ~Loading(r)'
      BY <1>5, <3>1
    <3>2. CASE Commit(r)
      <4>1. /\ req'[r].load = req[r].load /\ req'[r].page = req[r].page /\ req[r].pc = "write"
        BY <1>2, <3>2 DEF Commit, RequestStates
      <4> QED
        BY <1>5, <4>1 DEF LoadsApart, Loading
    <3>3. CASE Loading(r)' /\ ~Commit(r)
      <4>1. db' = db
        BY <1>7, <3>3 DEF Handler, Miss, Refuse, Announce, ReadCompanies, ReadTimers, ReadFails,
                          Discard
      <4>2. req[r].page \in Pages
        <5>1. req'[r].page \in {req[r].page, None}
          <6>1. CASE req' = [req EXCEPT ![r] = NoRequest]
            BY <1>2, <6>1 DEF NoRequest
          <6>2. CASE ReadFails(r) /\ ~req[r].load
            BY <1>2, <6>2 DEF ReadFails, RequestStates
          <6>3. CASE Miss(r) \/ Announce(r)
            BY <1>2, <6>3 DEF Miss, Announce, RequestStates
          <6>4. CASE Refuse(r)
            BY <1>2, <6>4 DEF Refuse, RequestStates
          <6>5. CASE ReadCompanies(r)
            BY <1>2, <6>5 DEF ReadCompanies, RequestStates
          <6>6. CASE ReadTimers(r)
            BY <1>2, <6>6 DEF ReadTimers, RequestStates
          <6> QED
            BY <1>7, <3>3, <6>1, <6>2, <6>3, <6>4, <6>5, <6>6 DEF Handler, ReadFails, Discard
        <5> QED
          BY <1>2, <3>3, <5>1 DEF Loading
      <4>3. PICK p \in Pages : p = req[r].page
        BY <4>2
      <4>4. req'[r].page = p /\ LoadStands(req'[r], page[p].streamed, db[Owner[p]])
        BY <1>1, <1>7, <2>1, <3>3, <4>1, <4>3, LoadReads
      <4> QED
        BY <2>1, <4>1, <4>4 DEF LoadOwed
    <3> QED
      BY <3>1, <3>2, <3>3
  <2> QED
    BY <1>6, <2>1, <2>2, <2>3 DEF Owed
<1>8. ASSUME NEW r \in Requests, Sent(r) PROVE Owed'
  <2>1. UNCHANGED <<stream, page>> /\ \A q \in Requests \ {r} : req'[q] = req[q]
    BY <1>2, <1>8 DEF Sent, Load, Press, PressElsewhere
  <2>2. req'[r].pc \in {"companies", "write"}
    <3>1. ASSUME NEW p \in Pages, Load(r, p) PROVE req'[r].pc = "companies"
      BY <1>2, <3>1 DEF Load, NoRequest
    <3>2. ASSUME NEW p \in Pages, Press(r, p) PROVE req'[r].pc = "write"
      BY <1>2, <3>2 DEF Press, NoRequest
    <3>3. ASSUME NEW u \in Users, PressElsewhere(r, u) PROVE req'[r].pc = "write"
      BY <1>2, <3>3 DEF PressElsewhere, NoRequest
    <3> QED
      BY <1>8, <3>1, <3>2, <3>3 DEF Sent
  <2>3. LoadOwed(r)'
    BY <2>2 DEF LoadOwed, LoadStands
  <2> QED
    BY <1>4, <1>6, <2>1, <2>3 DEF Owed
<1>9. ASSUME NEW r \in Requests, LoseResponse(r) PROVE Owed'
  <2>1. /\ UNCHANGED <<stream, page>> /\ \A q \in Requests \ {r} : req'[q] = req[q]
        /\ ~Loading(r)'
    BY <1>2, <1>9 DEF LoseResponse, NoRequest, Loading
  <2> QED
    BY <1>4, <1>5, <1>6, <2>1 DEF Owed
<1>10. ASSUME NEW r \in Requests, Respond(r) PROVE Owed'
  <2>1. /\ stream' = stream /\ db' = db /\ \A q \in Requests \ {r} : req'[q] = req[q]
        /\ ~Loading(r)'
    BY <1>2, <1>10 DEF Respond, NoRequest, Loading
  <2>2. PICK p \in Pages : p = req[r].page
    BY <1>2, <1>10 DEF Respond
  <2>3. CASE req[r].load
    <3>1. /\ \A q \in Pages \ {p} : page'[q] = page[q]
          /\ page'[p].stream = None /\ Within(page'[p].streamed, db[Owner[p]])
      BY <1>1, <1>10, <2>2, <2>3, LoadBrings
    <3>2. PageOwed(p)'
      BY <2>1, <3>1 DEF PageOwed
    <3>3. \A q \in Requests \ {r} : req[q].page # p
      BY <2>2, <2>3 DEF LoadsApart, Loading
    <3>4. \A q \in Requests : LoadOwed(q)'
      BY <1>2, <1>4, <1>5, <2>1, <3>1, <3>3 DEF Loading
    <3> QED
      BY <1>3, <2>1, <3>1, <3>2, <3>4 DEF Owed
  <2>4. CASE ~req[r].load
    <3>1. /\ page' = [page EXCEPT ![p] = Apply(page[p], req[r].out)]
      BY <1>10, <2>2, <2>4 DEF Respond
    <3>2. /\ \A q \in Pages \ {p} : page'[q] = page[q]
          /\ page'[p].streamed = page[p].streamed /\ page'[p].stream = page[p].stream
      BY <1>2, <3>1, ApplyBrings
    <3>3. PageOwed(p)'
      BY <1>1, <2>1, <3>2, PageOwedKept
    <3>4. \A q \in Pages : page'[q].streamed = page[q].streamed
      BY <3>2
    <3>5. \A q \in Requests : LoadOwed(q)'
      BY <1>2, <1>4, <1>5, <2>1, <3>4 DEF Loading
    <3> QED
      BY <1>3, <2>1, <3>2, <3>3, <3>5 DEF Owed
  <2> QED
    BY <2>3, <2>4
<1>11. ASSUME NEW p \in Pages, Browser(p) PROVE Owed'
  <2>0. /\ db' = db /\ page[p] \in PageStates
        /\ \A s \in Streams : page[p].stream = s =>
             \A q \in Pages \ {p} : page[q].stream # s
    BY <1>2, <1>11 DEF Browser, Receives, LoseConnection, NoticeEnd, Leave, Open, FeedsApart
  <2>1. CASE Receives(p)
    <3>1. PICK s \in Streams : s = page[p].stream
      BY <1>2, <2>1 DEF Receives
    <3>2. /\ \A q \in Pages \ {p} : page'[q] = page[q]
          /\ page'[p].stream = s
          /\ \A x \in Streams \ {s} : stream'[x] = stream[x]
          /\ Within(page'[p].streamed, db[Owner[p]])
          /\ Backlog(stream'[s], page'[p].streamed, db[Owner[p]])
      BY <1>1, <2>1, <3>1, StreamBrings
    <3>3. PageOwed(p)'
      BY <2>0, <3>2 DEF PageOwed
    <3>4. \A q \in Pages \ {p} : PageOwed(q)'
      BY <1>2, <1>3, <2>0, <3>1, <3>2
    <3>5. req' = req /\ page[p].open
      BY <2>1, <3>1 DEF Receives, FeedsApart
    <3>6. \A r \in Requests : LoadOwed(r)'
      <4>1. \A r \in Requests : Loading(r) => req[r].page # p
        BY <3>5 DEF LoadsApart
      <4>2. \A r \in Requests : Loading(r) => page'[req[r].page] = page[req[r].page]
        BY <1>2, <3>2, <4>1 DEF Loading
      <4> QED
        BY <1>4, <3>5, <4>2
    <3> QED
      BY <3>3, <3>4, <3>6 DEF Owed
  <2>2. ASSUME NEW s \in Streams, Open(p, s) PROVE Owed'
    <3>1. /\ page' = [page EXCEPT ![p].stream = s] /\ req' = req
          /\ stream' = [stream EXCEPT ![s] = [NoStream EXCEPT !.pc = "companies", !.user = Owner[p]]]
          /\ \A q \in Pages : page[q].stream # s
      BY <2>2 DEF Open, Attached
    <3>2. /\ page'[p].stream = s /\ page'[p].streamed = page[p].streamed
          /\ \A q \in Pages \ {p} : page'[q] = page[q]
          /\ \A x \in Streams \ {s} : stream'[x] = stream[x]
      BY <1>2, <2>0, <3>1 DEF PageStates
    <3>3. /\ stream'[s].out = <<>> /\ stream'[s].pc = "companies" /\ ~stream'[s].ticks
      BY <1>2, <3>1 DEF NoStream
    <3>4. page[p].streamed \in Seen /\ db[Owner[p]] \in Nat /\ Within(page[p].streamed, db[Owner[p]])
      BY <1>1, Known DEF PageOwed
    <3>5. Backlog(stream'[s], page[p].streamed, db[Owner[p]])
      BY <3>3, <3>4, BacklogOpens
    <3>6. PageOwed(p)'
      BY <2>0, <3>2, <3>4, <3>5 DEF PageOwed
    <3>7. \A q \in Pages \ {p} : PageOwed(q)'
      BY <1>2, <1>3, <3>1, <3>2
    <3>8. \A q \in Pages : page'[q].streamed = page[q].streamed
      BY <3>2
    <3>9. \A r \in Requests : LoadOwed(r)'
      BY <1>2, <1>4, <3>1, <3>8 DEF Loading
    <3> QED
      BY <3>6, <3>7, <3>9 DEF Owed
  <2>3. CASE LoseConnection(p) \/ NoticeEnd(p) \/ Leave(p)
    <3>1. /\ \A q \in Pages \ {p} : page'[q] = page[q]
          /\ page'[p].stream = None /\ page'[p].streamed = page[p].streamed
      <4>1. CASE page' = [page EXCEPT ![p].stream = None]
        BY <1>2, <2>0, <4>1 DEF PageStates
      <4>2. CASE Leave(p)
        BY <1>2, <2>0, <4>2 DEF Leave, PageStates
      <4> QED
        BY <2>3, <4>1, <4>2 DEF LoseConnection, NoticeEnd
    <3>2. \A x \in Streams : x # page[p].stream => stream'[x] = stream[x]
      <4>1. CASE stream' = stream
        BY <4>1
      <4>2. CASE Detach(p)
        BY <1>2, <4>2 DEF Detach
      <4> QED
        BY <2>3, <4>1, <4>2 DEF LoseConnection, NoticeEnd, Leave
    <3>3. PageOwed(p)'
      BY <1>1, <2>0, <3>1, PageOwedKept
    <3>4. \A q \in Pages \ {p} : PageOwed(q)'
      BY <1>2, <1>3, <2>0, <3>1, <3>2
    <3>5. \A q \in Pages : page'[q].streamed = page[q].streamed
      BY <3>1
    <3>6. \A r \in Requests : LoadOwed(r)'
      <4>1. ASSUME NEW r \in Requests, req'[r] = req[r] PROVE LoadOwed(r)'
        BY <1>2, <1>4, <3>5, <4>1 DEF Loading
      <4>2. ASSUME NEW r \in Requests, Leave(p), req[r].page = p PROVE LoadOwed(r)'
        <5>1. req'[r].page = None
          BY <1>2, <4>2 DEF Leave, RequestStates
        <5> QED
          BY <1>5, <5>1 DEF Loading
      <4>3. \A r \in Requests : req'[r] = req[r] \/ (Leave(p) /\ req[r].page = p)
        BY <2>3 DEF LoseConnection, NoticeEnd, Leave
      <4> QED
        BY <4>1, <4>2, <4>3
    <3> QED
      BY <3>3, <3>4, <3>6 DEF Owed
  <2> QED
    BY <1>11, <2>1, <2>2, <2>3 DEF Browser
<1>12. ASSUME NEW s \in Streams, GetStream(s) PROVE Owed'
  <2>1. UNCHANGED <<db, req, page>> /\ \A x \in Streams \ {s} : stream'[x] = stream[x]
    BY <1>2, <1>12 DEF GetStream, Reload, ReloadCompanies, ReloadTimers, ReloadFails, Wake, Tick,
                       BrowserGone, SeeClosing, EndStream
  <2>2. ASSUME NEW p \in Pages, page[p].stream = s PROVE PageOwed(p)'
    <3>1. /\ page[p].streamed \in Seen /\ db[Owner[p]] \in Nat /\ s # None
          /\ Within(page[p].streamed, db[Owner[p]])
          /\ Backlog(stream[s], page[p].streamed, db[Owner[p]])
      BY <1>1, <2>2, Known DEF PageOwed
    <3>2. Served(s) => db[Owner[p]] = db[stream[s].user]
      BY <2>2, <3>1 DEF FeedsApart
    <3>3. Backlog(stream'[s], page[p].streamed, db[Owner[p]])
      BY <1>12, <3>1, <3>2, HandlerOwes
    <3> QED
      BY <2>1, <2>2, <3>1, <3>3 DEF PageOwed
  <2>3. \A p \in Pages : PageOwed(p)'
    BY <1>2, <1>3, <2>1, <2>2
  <2>4. \A r \in Requests : LoadOwed(r)'
    BY <1>4, <2>1
  <2> QED
    BY <2>3, <2>4 DEF Owed
<1>13. CASE Stopped
  <2>1. /\ UNCHANGED <<db, page>>
        /\ \A r \in Requests : req'[r] = req[r] \/ req'[r] = NoRequest
        /\ \A s \in Streams : stream'[s] = [NoStream EXCEPT !.out = stream[s].out]
    BY <1>13 DEF Stopped
  <2>2. ASSUME NEW p \in Pages PROVE PageOwed(p)'
    <3>1. /\ page[p].streamed \in Seen /\ db[Owner[p]] \in Nat
          /\ Within(page[p].streamed, db[Owner[p]])
      BY <1>1, Known DEF PageOwed
    <3>2. ASSUME NEW s \in Streams, page[p].stream = s, s # None
          PROVE  Backlog(stream'[s], page[p].streamed, db[Owner[p]])
      <4>1. /\ stream'[s].pc = "off" /\ ~stream'[s].ticks /\ stream'[s].out = stream[s].out
        BY <2>1 DEF NoStream
      <4>2. stream[s] \in StreamStates /\ stream'[s] \in StreamStates
        BY DEF TypeOK
      <4>3. Backlog(stream[s], page[p].streamed, db[Owner[p]])
        BY <1>1, <3>2 DEF PageOwed
      <4> QED
        BY <3>1, <4>1, <4>2, <4>3, BacklogWaits
    <3> QED
      BY <1>2, <2>1, <3>1, <3>2 DEF PageOwed
  <2>3. ASSUME NEW r \in Requests PROVE LoadOwed(r)'
    <3>1. CASE req'[r] = NoRequest
      BY <1>5, <3>1 DEF Loading, NoRequest
    <3> QED
      BY <1>4, <2>1, <3>1
  <2> QED
    BY <2>2, <2>3 DEF Owed
<1>14. CASE UNCHANGED <<req, stream, page>>
  BY <1>4, <1>6, <1>14 DEF Owed
<1>15. CASE Process
  BY <1>13, <1>14, <1>15 DEF Process, Crash, Shutdown, ShutdownDone, ShutdownTimeout, Restart
<1>16. CASE UNCHANGED vars
  BY <1>14, <1>16 DEF vars
<1> QED
  BY <1>7, <1>8, <1>9, <1>10, <1>11, <1>12, <1>15, <1>16, Actors

(***************************************************************************)
(* The theorems.                                                           *)
(***************************************************************************)
MirrorInv == FeedsApart /\ LoadsApart /\ Owed

LEMMA MirrorInvInit == Init => MirrorInv
<1> SUFFICES ASSUME Init PROVE MirrorInv
  OBVIOUS
<1>1. \A r \in Requests : ~Loading(r)
  BY DEF Init, NoRequest, Loading
<1>2. \A p \in Pages : /\ page[p].stream = None
                       /\ page[p].streamed = [companies |-> 0, timers |-> 0]
                       /\ db[Owner[p]] = 0
  BY OwnerAssumption DEF Init, NoPage
<1> QED
  BY <1>1, <1>2 DEF MirrorInv, FeedsApart, LoadsApart, Owed, PageOwed, LoadOwed, Within

THEOREM NothingOlderIsOwed == Spec => []MirrorInv
<1>1. TypeOK /\ TypeOK' /\ MirrorInv /\ [Next]_vars => MirrorInv'
  BY ApartInvariant, OwedInvariant DEF MirrorInv
<1> QED
  BY <1>1, MirrorInvInit, TypeCorrect, PTL DEF Spec

\* What a page was brought changes by a load's answer or a stream's message only,
\* forward and no further than the data.
LEMMA Brings ==
  ASSUME TypeOK, MirrorInv, [Next]_vars
  PROVE  \/ \A p \in Pages : page'[p].streamed = page[p].streamed
         \/ \E p \in Pages : /\ \A q \in Pages \ {p} : page'[q] = page[q]
                             /\ Newer(page'[p].streamed, page[p].streamed)
                             /\ Within(page'[p].streamed, db[Owner[p]])
                             /\ db' = db
<1> USE NoneAssumption DEF MirrorInv, Owed
<1>1. /\ page \in [Pages -> PageStates]
      /\ \A r \in Requests : req[r].page # None => req[r].page \in Pages
      /\ \A p \in Pages : page[p].stream # None => page[p].stream \in Streams
  BY Known DEF TypeOK
<1>2. ASSUME NEW r \in Requests, Handler(r) \/ Sent(r) \/ LoseResponse(r) PROVE page' = page
  BY <1>2 DEF Handler, Commit, Miss, Refuse, Announce, ReadCompanies, ReadTimers,
              ReadFails, Discard, Sent, Load, Press, PressElsewhere, LoseResponse
<1>3. ASSUME NEW s \in Streams, GetStream(s) PROVE page' = page
  BY <1>3 DEF GetStream, Reload, ReloadCompanies, ReloadTimers, ReloadFails, Wake, Tick,
              BrowserGone, SeeClosing, EndStream
<1>4. ASSUME Process \/ UNCHANGED vars PROVE page' = page
  BY <1>4 DEF Process, Crash, Shutdown, ShutdownDone, ShutdownTimeout, Restart, Stopped, vars
<1>5. ASSUME NEW r \in Requests, Respond(r), ~req[r].load
      PROVE  \A p \in Pages : page'[p].streamed = page[p].streamed
  <2>1. PICK p \in Pages : p = req[r].page
    BY <1>1, <1>5 DEF Respond
  <2>2. page' = [page EXCEPT ![p] = Apply(page[p], req[r].out)]
    BY <1>5, <2>1 DEF Respond
  <2> QED
    BY <1>1, <2>2, ApplyBrings
<1>6. ASSUME NEW r \in Requests, Respond(r), req[r].load
      PROVE  \E p \in Pages : /\ \A q \in Pages \ {p} : page'[q] = page[q]
                              /\ Newer(page'[p].streamed, page[p].streamed)
                              /\ Within(page'[p].streamed, db[Owner[p]])
                              /\ db' = db
  <2>1. PICK p \in Pages : p = req[r].page
    BY <1>1, <1>6 DEF Respond
  <2>2. db' = db
    BY <1>6 DEF Respond
  <2> QED
    BY <1>6, <2>1, <2>2, LoadBrings
<1>7. ASSUME NEW p \in Pages, Receives(p)
      PROVE  /\ \A q \in Pages \ {p} : page'[q] = page[q]
             /\ Newer(page'[p].streamed, page[p].streamed)
             /\ Within(page'[p].streamed, db[Owner[p]])
             /\ db' = db
  <2>1. PICK s \in Streams : s = page[p].stream
    BY <1>1, <1>7 DEF Receives
  <2>2. db' = db
    BY <1>7 DEF Receives
  <2> QED
    BY <1>7, <2>1, <2>2, StreamBrings
<1>8. ASSUME NEW p \in Pages, Browser(p), ~Receives(p)
      PROVE  \A q \in Pages : page'[q].streamed = page[q].streamed
  <2>1. page[p] \in PageStates
    BY <1>1
  <2>2. CASE page' = [page EXCEPT ![p].stream = None]
    BY <1>1, <2>1, <2>2 DEF PageStates
  <2>3. CASE Leave(p)
    BY <1>1, <2>1, <2>3 DEF Leave, PageStates
  <2>4. ASSUME NEW s \in Streams, Open(p, s)
        PROVE  \A q \in Pages : page'[q].streamed = page[q].streamed
    BY <1>1, <2>1, <2>4 DEF Open, PageStates
  <2> QED
    BY <1>8, <2>2, <2>3, <2>4 DEF Browser, LoseConnection, NoticeEnd
<1> QED
  BY <1>2, <1>3, <1>4, <1>5, <1>6, <1>7, <1>8, Actors

\* StreamedNeverGoesBack: Live implements Mirror.  Whatever is torn, lost, failed,
\* reconnected or restarted, the lists that loads and streams bring to a page only
\* move forward, to versions the user's data has been at: every message climbs
\* from what the page has, since a stream starts reading when its page is open and
\* feeds that page alone, and a load only answers a page nothing else is feeding.
THEOREM StreamsOnlyMoveForward == Spec => StreamedNeverGoesBack
<1>1. Init => Mirror!Init
  <2> SUFFICES ASSUME Init PROVE Mirror!Init
    OBVIOUS
  <2>1. \A p \in Pages : page[p].streamed = [companies |-> 0, timers |-> 0]
    BY DEF Init, NoPage
  <2>2. streamed = [p \in Pages |-> [companies |-> 0, timers |-> 0]]
    BY <2>1 DEF streamed
  <2> QED
    BY <2>2 DEF Init, Mirror!Init
<1>2. TypeOK /\ TypeOK' /\ MirrorInv /\ [Next]_vars => [Mirror!Next]_<<db, streamed>>
  <2> SUFFICES ASSUME TypeOK, TypeOK', MirrorInv, [Next]_vars, db' # db \/ streamed' # streamed
               PROVE  Mirror!Next
    OBVIOUS
  <2>1. (\A p \in Pages : page'[p].streamed = page[p].streamed) => streamed' = streamed
    BY DEF streamed
  <2>2. ASSUME NEW r \in Requests, Commit(r) PROVE Mirror!Next
    <3>1. page' = page /\ db' = [db EXCEPT ![req[r].user] = @ + 1]
      BY <2>2 DEF Commit
    <3>2. req[r].user \in Users
      BY <2>2 DEF Commit, TypeOK
    <3>3. streamed' = streamed
      BY <3>1 DEF streamed
    <3> QED
      BY <3>1, <3>2, <3>3 DEF Mirror!Next, Mirror!Change
  <2>3. ASSUME NEW p \in Pages, \A q \in Pages \ {p} : page'[q] = page[q],
               Newer(page'[p].streamed, page[p].streamed),
               Within(page'[p].streamed, db[Owner[p]]), db' = db
        PROVE  Mirror!Next
    <3>1. PICK new : new = page'[p].streamed
      OBVIOUS
    <3>2. new \in Seen /\ page[p].streamed \in Seen /\ db[Owner[p]] \in Nat
      BY <3>1, Known DEF TypeOK, PageStates, Seen
    <3>3. /\ new.companies \in page[p].streamed.companies .. db[Owner[p]]
          /\ new.timers \in page[p].streamed.timers .. db[Owner[p]]
          /\ new = [companies |-> new.companies, timers |-> new.timers]
      BY <2>3, <3>1, <3>2 DEF Newer, Within, Seen
    <3>4. streamed' = [streamed EXCEPT ![p] = new]
      BY <2>3, <3>1 DEF streamed
    <3>5. streamed[p] = page[p].streamed
      BY DEF streamed
    <3>6. Mirror!CatchUp(p)
      BY <2>3, <3>3, <3>4, <3>5 DEF Mirror!CatchUp
    <3> QED
      BY <3>6 DEF Mirror!Next
  <2> QED
    BY <2>1, <2>2, <2>3, Brings, Forward
<1> QED
  BY <1>1, <1>2, TypeCorrect, NothingOlderIsOwed, PTL DEF Spec, StreamedNeverGoesBack, Mirror!Spec

\* QuietStreamIsCurrent: with nothing of the user's in flight, a page whose stream
\* waits with all it sent received has been brought the current lists.  The last
\* lists a stream read are where its messages land, and they are current unless a
\* change is coming.
THEOREM QuietStreamsAreCurrent == Spec => []QuietStreamIsCurrent
<1>1. TypeOK /\ MirrorInv /\ StaleIsSignalled => QuietStreamIsCurrent
  <2> SUFFICES ASSUME TypeOK, MirrorInv, StaleIsSignalled, NEW p \in Pages, Quiet(p), ~Paused(p)
               PROVE  page[p].streamed = Current(p)
    BY DEF QuietStreamIsCurrent
  <2>1. PICK s \in Streams : s = page[p].stream
    BY Known DEF Quiet
  <2>2. /\ stream[s].pc = "select" /\ s \notin full /\ stream[s].out = <<>> /\ s # None
        /\ \A r \in Requests : req[r].user # Owner[p]
        /\ ~stream[s].paused
    BY <2>1 DEF Quiet, Paused
  <2>3. stream[s].user = Owner[p]
    BY <2>1, <2>2 DEF MirrorInv, FeedsApart, Served
  <2>4. stream[s].companies = db[Owner[p]] /\ stream[s].timers = db[Owner[p]]
    BY <2>2, <2>3 DEF StaleIsSignalled, Coming
  <2>5. Backlog(stream[s], page[p].streamed, db[Owner[p]])
    BY <2>1, <2>2 DEF MirrorInv, Owed, PageOwed
  <2>6. DOMAIN Companies(stream[s].out) = {} /\ DOMAIN Timers(stream[s].out) = {}
    BY <2>2 DEF Companies, Timers
  <2>7. page[p].streamed.companies = db[Owner[p]] /\ page[p].streamed.timers = db[Owner[p]]
    BY <2>2, <2>4, <2>5, <2>6 DEF Backlog, Reloaded, Lands
  <2>8. page[p].streamed \in Seen
    BY Known
  <2> QED
    BY <2>7, <2>8 DEF Current, Seen
<1> QED
  BY <1>1, TypeCorrect, NothingOlderIsOwed, NothingStaleUnsignalled, PTL
=============================================================================
