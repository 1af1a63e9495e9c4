--------------------------- MODULE HistoryProofs ---------------------------
(***************************************************************************)
(* What History shows of each entry, proved for any tables the service can *)
(* have written, any midnights, any clock and any unit of it.              *)
(***************************************************************************)
EXTENDS History, TrackingProofs, Sums

\* Rendering a history writes nothing: with it Tracking is still Tracking.
LEMMA HistoryOnlyReads == HistorySpec => Spec
<1>1. HistoryInit => Init
  BY DEF HistoryInit
<1>2. [HistoryNext]_historyVars => [Next]_vars
  BY DEF HistoryNext, historyVars, vars, Open, ReadTotals, ReadRows, ReadFails, Meanwhile
<1>3. QED
  BY <1>1, <1>2, PTL DEF HistorySpec, Spec

-----------------------------------------------------------------------------
(***************************************************************************)
(* The two units of time.                                                  *)
(***************************************************************************)
\* Seconds in Go's unit keep their order, and are a second apart at least.
LEMMA NanosScale ==
  ASSUME NEW a \in Int, NEW b \in Int
  PROVE  /\ Nanos(a) \in Int
         /\ a <= b => Nanos(a) <= Nanos(b)
         /\ a < b => Nanos(a) + Second <= Nanos(b)
         /\ Nanos(a + b) = Nanos(a) + Nanos(b)
         /\ Nanos(b - a) = Nanos(b) - Nanos(a)
<1>1. PICK m : m = Second /\ m \in Nat \ {0}
  BY SecondAssumption
<1>2. /\ m * a \in Int /\ m * b \in Int
      /\ m * (a + b) = m * a + m * b
      /\ m * (b - a) = m * b - m * a
  BY <1>1
<1>3. ASSUME NEW d \in Nat PROVE m * d >= 0
  BY <1>1
<1>4. a <= b => m * a <= m * b
  <2>1. a <= b => m * (b - a) >= 0
    BY <1>3
  <2>2. QED
    BY <1>1, <1>2, <2>1
<1>5. a < b => m * a + m <= m * b
  <2>1. a < b => m * (b - a - 1) >= 0
    BY <1>3
  <2>2. m * (b - a - 1) = m * b - m * a - m
    BY <1>1
  <2>3. QED
    BY <1>1, <1>2, <2>1, <2>2
<1>6. QED
  BY <1>1, <1>2, <1>4, <1>5 DEF Nanos

\* The earlier and the later of two instants are the same in either unit.
LEMMA NanosKeepOrder ==
  ASSUME NEW a \in Int, NEW b \in Int
  PROVE  /\ Nanos(EarlierOf(a, b)) = EarlierOf(Nanos(a), Nanos(b))
         /\ Nanos(LaterOf(a, b)) = LaterOf(Nanos(a), Nanos(b))
<1>1. /\ Nanos(a) \in Int /\ Nanos(b) \in Int
      /\ a < b => Nanos(a) + Second <= Nanos(b)
      /\ b < a => Nanos(b) + Second <= Nanos(a)
  BY NanosScale
<1>2. Second \in Nat \ {0}
  BY SecondAssumption
<1>3. CASE a = b
  BY <1>3 DEF EarlierOf, LaterOf
<1>4. CASE a < b
  <2>1. Nanos(a) < Nanos(b)
    BY <1>1, <1>2, <1>4
  <2>2. QED
    BY <1>1, <1>4, <2>1 DEF EarlierOf, LaterOf
<1>5. CASE b < a
  <2>1. Nanos(b) < Nanos(a)
    BY <1>1, <1>2, <1>5
  <2>2. QED
    BY <1>1, <1>5, <2>1 DEF EarlierOf, LaterOf
<1>6. QED
  BY <1>3, <1>4, <1>5

\* Unix drops less than a second.
LEMMA UnixFloors ==
  ASSUME NEW at \in Int
  PROVE  /\ Unix(at) \in Int
         /\ Nanos(Unix(at)) <= at
         /\ at <= Nanos(Unix(at)) + Second - 1
<1>1. PICK m : m = Second /\ m \in Nat \ {0}
  BY SecondAssumption
<1>2. at \div m \in Int /\ m * (at \div m) <= at /\ at < m * (at \div m) + m
  BY <1>1
<1>3. PICK q : q = at \div m /\ q \in Int /\ m * q \in Int
  BY <1>1, <1>2
<1>4. m * q <= at /\ at <= m * q + m - 1
  BY <1>1, <1>2, <1>3
<1>5. QED
  BY <1>1, <1>3, <1>4 DEF Unix, Nanos

\* What the clock can be read as is an integer, and always one of Instants.
LEMMA ReadingsAreInstants ==
  ASSUME TypeOK
  PROVE  /\ Readings \subseteq Instants
         /\ Instants \subseteq Int
<1>1. now \in Times /\ Times \subseteq Int
  BY TimeAssumption DEF TypeOK
<1>2. Second \in Nat
  BY SecondAssumption
<1>3. ASSUME NEW t \in Times, NEW f \in 0 .. Second - 1 PROVE Nanos(t) + f \in Int
  <2>1. t \in Int /\ f \in Int
    BY <1>1, <1>2
  <2>2. Nanos(t) \in Int
    BY <2>1, NanosScale
  <2>3. QED
    BY <2>1, <2>2
<1>4. QED
  BY <1>1, <1>3 DEF Readings, Instants

-----------------------------------------------------------------------------
(***************************************************************************)
(* One entry.                                                              *)
(***************************************************************************)
\* An entry as History finds it: its times are integers, and it has not ended
\* before it started.
LEMMA EntryTimes ==
  ASSUME TypeOK, SchemaHolds, NEW i \in DOMAIN entries
  PROVE  /\ entries[i].started \in Int
         /\ entries[i].stopped # None => /\ entries[i].stopped \in Int
                                         /\ entries[i].stopped >= entries[i].started
<1>1. entries[i] \in Entry
  BY DEF TypeOK
<1>2. QED
  BY <1>1 DEF Entry, SchemaHolds, EndsAfterStart

\* Its end for the SQL is its end for the page, less what Unix drops of the
\* clock while it runs.  Not ahead of the clock, it has not ended before it started.
LEMMA EntryEnds ==
  ASSUME TypeOK, SchemaHolds, NEW i \in DOMAIN entries, NEW at \in Int
  PROVE  /\ Ended(entries[i], at) \in Int /\ End(entries[i], at) \in Int
         /\ ToTheSecond(Nanos(Ended(entries[i], at)), End(entries[i], at), IF IsRunning(i) THEN 1 ELSE 0)
         /\ ~Ahead(entries[i], at) => /\ entries[i].started <= Ended(entries[i], at)
                                      /\ Nanos(entries[i].started) <= End(entries[i], at)
<1>1. PICK s : s = entries[i].started /\ s \in Int
  BY EntryTimes
<1>2. Second \in Nat \ {0}
  BY SecondAssumption
<1>3. CASE entries[i].stopped = None
  <2>1. PICK u : u = Unix(at) /\ u \in Int
    BY UnixFloors
  <2>2. Nanos(u) \in Int /\ Nanos(u) <= at /\ at <= Nanos(u) + Second - 1
    BY <2>1, UnixFloors, NanosScale
  <2>3. Nanos(s) \in Int /\ (u < s => Nanos(u) + Second <= Nanos(s))
    BY <1>1, <2>1, NanosScale
  <2>4. ~Ahead(entries[i], at) => Nanos(s) <= at
    BY <1>1, <1>3, <2>3 DEF Ahead
  <2>5. Nanos(s) <= at => s <= u
    BY <1>1, <1>2, <2>1, <2>2, <2>3
  <2>6. Ended(entries[i], at) = u /\ End(entries[i], at) = at /\ IsRunning(i)
    BY <1>3, <2>1 DEF Ended, End, IsRunning
  <2>7. Nanos(u) + (Second - 1) * 1 = Nanos(u) + Second - 1
    BY <1>2, <2>2
  <2>8. QED
    BY <1>1, <2>1, <2>2, <2>4, <2>5, <2>6, <2>7 DEF ToTheSecond
<1>4. CASE entries[i].stopped # None
  <2>1. PICK e : e = entries[i].stopped /\ e \in Int /\ s <= e
    BY <1>1, <1>4, EntryTimes
  <2>2. Nanos(e) \in Int /\ Nanos(s) <= Nanos(e)
    BY <1>1, <2>1, NanosScale
  <2>3. Ended(entries[i], at) = e /\ End(entries[i], at) = Nanos(e) /\ ~IsRunning(i)
    BY <1>4, <2>1 DEF Ended, End, IsRunning
  <2>4. Nanos(e) + (Second - 1) * 0 = Nanos(e)
    BY <1>2, <2>2
  <2>5. QED
    BY <1>1, <2>1, <2>2, <2>3, <2>4 DEF ToTheSecond
<1>5. QED
  BY <1>3, <1>4

\* The two ways of clipping agree to the second: of an entry that overlaps a
\* period and is not ahead of the clock, the SQL of Totals counts what Clip gives
\* its row, less what Unix drops of the clock while it runs.
LEMMA SecondsAreClip ==
  ASSUME TypeOK, SchemaHolds, NEW i \in DOMAIN entries, NEW at \in Int, NEW p \in Periods,
         Overlaps(entries[i], p, at), ~Ahead(entries[i], at)
  PROVE  /\ Seconds(entries[i], p, at) \in Int
         /\ ToTheSecond(Nanos(Seconds(entries[i], p, at)), Duration(entries[i], p, at),
                        IF IsRunning(i) THEN 1 ELSE 0)
<1>1. PICK s : s = entries[i].started /\ s \in Int
  BY EntryTimes
<1>2. PICK from, to : from = p.from /\ to = p.to /\ from \in Int /\ to \in Int /\ from < to
  BY PeriodAssumption DEF Periods, Period
<1>3. PICK e : e = Ended(entries[i], at) /\ e \in Int
  BY EntryEnds
<1>4. PICK end : end = End(entries[i], at) /\ end \in Int
  BY EntryEnds
<1>5. PICK part : part = (Second - 1) * (IF IsRunning(i) THEN 1 ELSE 0) /\ part \in Nat
  BY SecondAssumption
<1>6. Nanos(e) <= end /\ end <= Nanos(e) + part /\ Nanos(s) <= end
  BY <1>1, <1>3, <1>4, <1>5, EntryEnds DEF ToTheSecond
<1>7. /\ Nanos(s) \in Int /\ Nanos(e) \in Int /\ Nanos(from) \in Int /\ Nanos(to) \in Int
      /\ Nanos(s) <= Nanos(to) /\ Nanos(from) <= Nanos(e) /\ Nanos(from) <= Nanos(to)
  <2>1. s < to /\ e > from
    BY <1>1, <1>2, <1>3 DEF Overlaps
  <2>2. QED
    BY <1>1, <1>2, <1>3, <2>1, NanosScale
<1>8. PICK d : d = EarlierOf(e, to) - LaterOf(s, from)
  OBVIOUS
<1>9. /\ d \in Int
      /\ Nanos(d) = EarlierOf(Nanos(e), Nanos(to)) - LaterOf(Nanos(s), Nanos(from))
  <2>1. PICK last : last = EarlierOf(e, to) /\ last \in Int
    BY <1>2, <1>3 DEF EarlierOf
  <2>2. PICK first : first = LaterOf(s, from) /\ first \in Int
    BY <1>1, <1>2 DEF LaterOf
  <2>3. Nanos(last - first) = Nanos(last) - Nanos(first)
    BY <2>1, <2>2, NanosScale
  <2>4. Nanos(last) = EarlierOf(Nanos(e), Nanos(to)) /\ Nanos(first) = LaterOf(Nanos(s), Nanos(from))
    BY <1>1, <1>2, <1>3, <2>1, <2>2, NanosKeepOrder
  <2>5. QED
    BY <1>8, <2>1, <2>2, <2>3, <2>4
<1>10. PICK clip : clip = Clip(p, Nanos(s), end)
  OBVIOUS
<1>11. clip = EarlierOf(end, Nanos(to)) - LaterOf(Nanos(s), Nanos(from))
  BY <1>2, <1>4, <1>6, <1>7, <1>10 DEF Clip, EarlierOf, LaterOf
<1>12. Nanos(d) <= clip /\ clip <= Nanos(d) + part
  BY <1>4, <1>5, <1>6, <1>7, <1>9, <1>11 DEF EarlierOf, LaterOf
<1>13. Seconds(entries[i], p, at) = d /\ Duration(entries[i], p, at) = clip
  BY <1>1, <1>2, <1>3, <1>4, <1>8, <1>10 DEF Seconds, Duration
<1>14. QED
  BY <1>5, <1>9, <1>12, <1>13 DEF ToTheSecond

\* Row by row, the totals count what the rows show, but for the part of a second
\* a running timer is into.
RowsMatch ==
  \A at \in Readings, i \in DOMAIN entries, p \in Periods :
    Overlaps(entries[i], p, at) /\ ~Ahead(entries[i], at)
      => ToTheSecond(Nanos(Seconds(entries[i], p, at)), Duration(entries[i], p, at),
                     IF IsRunning(i) THEN 1 ELSE 0)

\* What an entry adds to two periods that meet is what it adds to both together.
LEMMA CountedMeets ==
  ASSUME TypeOK, SchemaHolds, NEW i \in DOMAIN entries, NEW at \in Int,
         NEW a \in Midnights, NEW b \in Midnights, NEW c \in Midnights,
         a < b, b < c, ~Ahead(entries[i], at)
  PROVE  Counted(entries[i], [from |-> a, to |-> b], at) + Counted(entries[i], [from |-> b, to |-> c], at)
           = Counted(entries[i], [from |-> a, to |-> c], at)
<1> DEFINE start == entries[i].started
           end == Ended(entries[i], at)
<1>1. a \in Int /\ b \in Int /\ c \in Int
  BY PeriodAssumption
<1>2. start \in Int /\ end \in Int /\ start <= end
  BY EntryTimes, EntryEnds
<1>3. CASE entries[i].deleted
  BY <1>3 DEF Counted, Overlaps
<1>4. CASE ~entries[i].deleted
  <2>1. ASSUME NEW from \in Int, NEW to \in Int, from < to
        PROVE  Counted(entries[i], [from |-> from, to |-> to], at)
                 = IF start < to /\ end > from
                   THEN (IF end < to THEN end ELSE to) - (IF start > from THEN start ELSE from)
                   ELSE 0
    BY <1>4 DEF Counted, Overlaps, Seconds, EarlierOf, LaterOf
  <2> HIDE DEF start, end
  <2>2. a < c
    BY <1>1
  <2>3. QED
    BY <1>1, <1>2, <2>1, <2>2
<1>5. QED
  BY <1>3, <1>4

\* PeriodsMeet: the time of an entry across midnight is split between the days
\* and none of it is lost or counted twice.
THEOREM PeriodsAlwaysMeet == HistorySpec => []PeriodsMeet
<1>1. TypeOK /\ SchemaHolds => PeriodsMeet
  BY CountedMeets, ReadingsAreInstants DEF PeriodsMeet
<1>2. QED
  BY <1>1, HistoryOnlyReads, TypeCorrect, SchemaAlwaysHolds, PTL

\* RowsMatch: the sum in SQL, in whole seconds and with no floor, and the rows, to
\* the nanosecond and with one, count the same of every entry that is not ahead of
\* the clock, less than a second of a running timer apart.
THEOREM RowsAlwaysMatch == HistorySpec => []RowsMatch
<1>1. TypeOK /\ SchemaHolds => RowsMatch
  BY SecondsAreClip, ReadingsAreInstants DEF RowsMatch
<1>2. QED
  BY <1>1, HistoryOnlyReads, TypeCorrect, SchemaAlwaysHolds, PTL

-----------------------------------------------------------------------------
(***************************************************************************)
(* Sums in the two units.                                                  *)
(***************************************************************************)
\* A sum of seconds in Go's unit is the sum of the terms in it.
LEMMA SumOfNanos ==
  ASSUME NEW f, NEW g, NEW A, IsFiniteSet(A), Integers(f, A),
         \A i \in A : g[i] = Nanos(f[i])
  PROVE  Nanos(SumFunctionOnSet(f, A)) = SumFunctionOnSet(g, A)
<1>1. PICK m : m = Second /\ m \in Int
  BY SecondAssumption
<1>2. \A i \in A : g[i] \in Int /\ g[i] = m * f[i] /\ m * f[i] <= 1 * g[i] + 0 /\ 1 * g[i] <= m * f[i] + 0
  BY <1>1 DEF Integers, Nanos
<1>3. Integers(g, A)
  BY <1>2 DEF Integers
<1>4. PICK F : F = SumFunctionOnSet(f, A) /\ F \in Int
  BY SumInteger
<1>5. PICK G : G = SumFunctionOnSet(g, A) /\ G \in Int
  BY <1>3, SumInteger
<1>6. PICK n : n = Cardinality(A) /\ n \in Nat
  BY FS_CardinalityType
<1>7. m * F <= 1 * G + 0 * n
  <2>1. m * SumFunctionOnSet(f, A) <= 1 * SumFunctionOnSet(g, A) + 0 * Cardinality(A)
    <3>1. m \in Int /\ 1 \in Int /\ 0 \in Int /\ \A i \in A : m * f[i] <= 1 * g[i] + 0
      BY <1>1, <1>2
    <3>2. QED
      BY <1>3, <3>1, SumBounded
  <2>2. QED
    BY <1>4, <1>5, <1>6, <2>1
<1>8. 1 * G <= m * F + 0 * n
  <2>1. 1 * SumFunctionOnSet(g, A) <= m * SumFunctionOnSet(f, A) + 0 * Cardinality(A)
    <3>1. m \in Int /\ 1 \in Int /\ 0 \in Int /\ \A i \in A : 1 * g[i] <= m * f[i] + 0
      BY <1>1, <1>2
    <3>2. QED
      BY <1>3, <3>1, SumBounded
  <2>2. QED
    BY <1>4, <1>5, <1>6, <2>1
<1>9. m * F \in Int /\ 0 * n = 0 /\ 1 * G = G
  BY <1>1, <1>4, <1>5, <1>6
<1>10. m * F = G
  BY <1>5, <1>7, <1>8, <1>9
<1>11. QED
  BY <1>1, <1>4, <1>5, <1>10 DEF Nanos

\* Terms that agree to the second for those of R, and wholly for the others, have
\* sums that agree to as many seconds as R has members.
LEMMA SumsToTheSecond ==
  ASSUME NEW f, NEW g, NEW A, IsFiniteSet(A), Integers(f, A), Integers(g, A), NEW R, R \subseteq A,
         \A i \in A : ToTheSecond(f[i], g[i], IF i \in R THEN 1 ELSE 0)
  PROVE  ToTheSecond(SumFunctionOnSet(f, A), SumFunctionOnSet(g, A), Cardinality(R))
<1> DEFINE rest == A \ R
<1>1. PICK k : k = Second - 1 /\ k \in Nat
  BY SecondAssumption
<1>2. /\ A = R \cup rest /\ R \cap rest = {}
      /\ IsFiniteSet(R) /\ IsFiniteSet(rest)
      /\ Integers(f, R) /\ Integers(g, R) /\ Integers(f, rest) /\ Integers(g, rest)
  BY FS_Subset DEF Integers
<1>3. \A i \in A : f[i] <= g[i] /\ g[i] <= f[i] + k * (IF i \in R THEN 1 ELSE 0)
  BY <1>1 DEF ToTheSecond
<1>4. \A i \in rest : f[i] = g[i]
  <2>1. ASSUME NEW i \in rest PROVE f[i] = g[i]
    <3>1. f[i] \in Int /\ g[i] \in Int /\ k * 0 = 0
      BY <1>1 DEF Integers
    <3>2. f[i] <= g[i] /\ g[i] <= f[i] + k * 0
      BY <1>3
    <3>3. QED
      BY <3>1, <3>2
  <2>2. QED
    BY <2>1
<1>5. \A i \in R : 1 * f[i] <= 1 * g[i] + 0 /\ 1 * g[i] <= 1 * f[i] + k
  <2>1. ASSUME NEW i \in R PROVE 1 * f[i] <= 1 * g[i] + 0 /\ 1 * g[i] <= 1 * f[i] + k
    <3>1. f[i] \in Int /\ g[i] \in Int /\ k * 1 = k
      BY <1>1 DEF Integers
    <3>2. f[i] <= g[i] /\ g[i] <= f[i] + k * 1
      BY <1>3
    <3>3. QED
      BY <1>1, <3>1, <3>2
  <2>2. QED
    BY <2>1
<1> HIDE DEF rest
<1>6. PICK F, G : /\ F = SumFunctionOnSet(f, R) /\ F \in Int
                  /\ G = SumFunctionOnSet(g, R) /\ G \in Int
  BY <1>2, SumInteger
<1>7. PICK E : E = SumFunctionOnSet(f, rest) /\ E = SumFunctionOnSet(g, rest) /\ E \in Int
  BY <1>2, <1>4, SumAgrees, SumInteger
<1>8. PICK n : n = Cardinality(R) /\ n \in Nat
  BY <1>2, FS_CardinalityType
<1>9. 1 * F <= 1 * G + 0 * n
  <2>1. 1 * SumFunctionOnSet(f, R) <= 1 * SumFunctionOnSet(g, R) + 0 * Cardinality(R)
    <3>1. 1 \in Int /\ 0 \in Int /\ \A i \in R : 1 * f[i] <= 1 * g[i] + 0
      BY <1>5
    <3>2. QED
      BY <1>2, <3>1, SumBounded
  <2>2. QED
    BY <1>6, <1>8, <2>1
<1>10. 1 * G <= 1 * F + k * n
  <2>1. 1 * SumFunctionOnSet(g, R) <= 1 * SumFunctionOnSet(f, R) + k * Cardinality(R)
    <3>1. 1 \in Int /\ k \in Int /\ \A i \in R : 1 * g[i] <= 1 * f[i] + k
      BY <1>1, <1>5
    <3>2. QED
      BY <1>2, <3>1, SumBounded
  <2>2. QED
    BY <1>6, <1>8, <2>1
<1>11. k * n \in Int /\ 0 * n = 0
  BY <1>1, <1>8
<1>12. F <= G /\ G <= F + k * n
  BY <1>6, <1>9, <1>10, <1>11
<1>13. SumFunctionOnSet(f, A) = F + E /\ SumFunctionOnSet(g, A) = G + E
  <2>1. Integers(f, R \cup rest) /\ Integers(g, R \cup rest)
    BY <1>2
  <2>2. /\ SumFunctionOnSet(f, R \cup rest) = SumFunctionOnSet(f, R) + SumFunctionOnSet(f, rest)
        /\ SumFunctionOnSet(g, R \cup rest) = SumFunctionOnSet(g, R) + SumFunctionOnSet(g, rest)
    BY <1>2, <2>1, SumOfUnion
  <2>3. QED
    BY <1>2, <1>6, <1>7, <2>2
<1>14. QED
  BY <1>1, <1>6, <1>7, <1>8, <1>11, <1>12, <1>13 DEF ToTheSecond

-----------------------------------------------------------------------------
(***************************************************************************)
(* The totals as sums over the entries.                                    *)
(***************************************************************************)
\* Of each entry: what Totals adds for it, what its row shows, its company.
SecondsOf(p, at) == [i \in DOMAIN entries |-> Nanos(Seconds(entries[i], p, at))]
DurationsOf(p, at) == [i \in DOMAIN entries |-> Duration(entries[i], p, at)]
CompanyOf == [i \in DOMAIN entries |-> entries[i].company]
OfCompany(over, c) == {i \in over : CompanyOf[i] = c}

\* The entries a query finds are rows of the table, and finitely many.
LEMMA OverlappingRows ==
  ASSUME TypeOK, NEW u, NEW p, NEW k, NEW at
  PROVE  /\ Overlapping(u, p, k, at) \subseteq DOMAIN entries
         /\ IsFiniteSet(Overlapping(u, p, k, at))
         /\ \A i \in Overlapping(u, p, k, at) : Overlaps(entries[i], p, at)
<1>1. Overlapping(u, p, k, at) \subseteq DOMAIN entries
  BY DEF Overlapping
<1>2. IsFiniteSet(DOMAIN entries)
  <2>1. Len(entries) \in Nat /\ DOMAIN entries = 1 .. Len(entries)
    BY DEF TypeOK
  <2>2. QED
    BY <2>1, FS_Interval
<1>3. QED
  BY <1>1, <1>2, FS_Subset DEF Overlapping

\* Both ways of clipping give integers, and Clip no negative one.
LEMMA TermTypes ==
  ASSUME TypeOK, SchemaHolds, NEW at \in Int, NEW p \in Periods, NEW i \in DOMAIN entries
  PROVE  /\ Seconds(entries[i], p, at) \in Int
         /\ Nanos(Seconds(entries[i], p, at)) \in Int
         /\ Duration(entries[i], p, at) \in Nat
<1>1. p.from \in Int /\ p.to \in Int
  BY PeriodAssumption DEF Periods, Period
<1>2. /\ Ended(entries[i], at) \in Int /\ End(entries[i], at) \in Int
      /\ entries[i].started \in Int
  BY EntryTimes, EntryEnds
<1>3. Nanos(p.from) \in Int /\ Nanos(p.to) \in Int /\ Nanos(entries[i].started) \in Int
  BY <1>1, <1>2, NanosScale
<1>4. Seconds(entries[i], p, at) \in Int
  BY <1>1, <1>2 DEF Seconds, LaterOf, EarlierOf
<1>5. Nanos(Seconds(entries[i], p, at)) \in Int
  BY <1>4, NanosScale
<1>6. Duration(entries[i], p, at) \in Nat
  BY <1>2, <1>3 DEF Duration, Clip, LaterOf, EarlierOf
<1>7. QED
  BY <1>4, <1>5, <1>6

LEMMA TermsAreIntegers ==
  ASSUME TypeOK, SchemaHolds, NEW at \in Int, NEW p \in Periods,
         NEW A \in SUBSET DOMAIN entries
  PROVE  Integers(SecondsOf(p, at), A) /\ Integers(DurationsOf(p, at), A)
  BY TermTypes DEF Integers, SecondsOf, DurationsOf

\* Over any entries found, what Totals adds and what the rows show agree to the
\* second of each that runs, unless a timer is ahead of the clock.
LEMMA TermsToTheSecond ==
  ASSUME TypeOK, SchemaHolds, NEW at \in Int, NEW p \in Periods,
         NEW A \in SUBSET DOMAIN entries, IsFiniteSet(A),
         \A i \in A : Overlaps(entries[i], p, at) /\ ~Ahead(entries[i], at)
  PROVE  ToTheSecond(SumFunctionOnSet(SecondsOf(p, at), A), SumFunctionOnSet(DurationsOf(p, at), A),
                     Cardinality({i \in A : IsRunning(i)}))
<1> DEFINE R == {i \in A : IsRunning(i)}
<1>1. ASSUME NEW i \in A
      PROVE  ToTheSecond(SecondsOf(p, at)[i], DurationsOf(p, at)[i], IF i \in R THEN 1 ELSE 0)
  BY SecondsAreClip DEF SecondsOf, DurationsOf
<1>2. Integers(SecondsOf(p, at), A) /\ Integers(DurationsOf(p, at), A) /\ R \subseteq A
  BY TermsAreIntegers
<1> HIDE DEF R
<1>3. ToTheSecond(SumFunctionOnSet(SecondsOf(p, at), A), SumFunctionOnSet(DurationsOf(p, at), A),
                  Cardinality(R))
  BY <1>1, <1>2, SumsToTheSecond
<1>4. QED
  BY <1>3 DEF R

\* A company's total is the sum of its entries' seconds.
LEMMA TotalsOfCompany ==
  ASSUME TypeOK, SchemaHolds, NEW u, NEW p \in Periods, NEW k, NEW at \in Int
  PROVE  LET over == Overlapping(u, p, k, at)
             totals == Totals(u, p, k, at)
         IN /\ DOMAIN totals = Groups(CompanyOf, over)
            /\ totals = [c \in DOMAIN totals |-> totals[c]]
            /\ \A c \in DOMAIN totals :
                 /\ totals[c] = [entries |-> totals[c].entries, duration |-> totals[c].duration]
                 /\ totals[c].entries = Cardinality(OfCompany(over, c))
                 /\ totals[c].duration = SumFunctionOnSet(SecondsOf(p, at), OfCompany(over, c))
<1> DEFINE over == Overlapping(u, p, k, at)
           totals == Totals(u, p, k, at)
           of(c) == {i \in over : entries[i].company = c}
           seconds(c) == [i \in of(c) |-> Seconds(entries[i], p, at)]
<1>1. over \subseteq DOMAIN entries /\ IsFiniteSet(over)
  BY OverlappingRows
<1>2. totals = [c \in {entries[i].company : i \in over} |->
                  [entries |-> Cardinality(of(c)), duration |-> Nanos(SumFunction(seconds(c)))]]
  BY DEF Totals
<1>3. {entries[i].company : i \in over} = Groups(CompanyOf, over)
  BY <1>1 DEF Groups, CompanyOf
<1>4. ASSUME NEW c
      PROVE  /\ of(c) = OfCompany(over, c)
             /\ Nanos(SumFunction(seconds(c))) = SumFunctionOnSet(SecondsOf(p, at), of(c))
  <2>1. of(c) = OfCompany(over, c)
    BY <1>1 DEF OfCompany, CompanyOf
  <2>2. IsFiniteSet(of(c)) /\ of(c) \subseteq DOMAIN entries
    BY <1>1, FS_Subset
  <2>3. \A i \in of(c) : seconds(c)[i] \in Int /\ SecondsOf(p, at)[i] = Nanos(seconds(c)[i])
    BY <2>2, TermTypes DEF SecondsOf
  <2>4. SumFunction(seconds(c)) = SumFunctionOnSet(seconds(c), of(c))
    BY DEF SumFunction
  <2> HIDE DEF seconds, of
  <2>5. QED
    BY <2>1, <2>2, <2>3, <2>4, SumOfNanos DEF Integers
<1> HIDE DEF totals, over, of, seconds
<1>5. QED
  BY <1>2, <1>3, <1>4 DEF totals, over

\* Over all companies, the totals are of every entry found.
LEMMA TotalOfTotals ==
  ASSUME TypeOK, SchemaHolds, NEW u, NEW p \in Periods, NEW k, NEW at \in Int
  PROVE  LET over == Overlapping(u, p, k, at)
             totals == Totals(u, p, k, at)
         IN /\ Total(totals) = SumFunctionOnSet(SecondsOf(p, at), over)
            /\ Entries(totals) = Cardinality(over)
<1> DEFINE over == Overlapping(u, p, k, at)
           totals == Totals(u, p, k, at)
           ones == [i \in over |-> 1]
           time == [c \in DOMAIN totals |-> totals[c].duration]
           count == [c \in DOMAIN totals |-> totals[c].entries]
<1>1. over \subseteq DOMAIN entries /\ IsFiniteSet(over)
  BY OverlappingRows
<1>2. /\ DOMAIN totals = Groups(CompanyOf, over)
      /\ \A c \in DOMAIN totals :
           /\ totals[c].entries = Cardinality(OfCompany(over, c))
           /\ totals[c].duration = SumFunctionOnSet(SecondsOf(p, at), OfCompany(over, c))
  BY TotalsOfCompany
<1>3. Integers(SecondsOf(p, at), over) /\ Integers(ones, over)
  BY <1>1, TermsAreIntegers DEF Integers
<1>4. ASSUME NEW c PROVE Cardinality(OfCompany(over, c)) = SumFunctionOnSet(ones, OfCompany(over, c))
  <2>1. OfCompany(over, c) \subseteq over
    BY DEF OfCompany
  <2>2. IsFiniteSet(OfCompany(over, c)) /\ \A i \in OfCompany(over, c) : ones[i] = 1
    BY <1>1, <2>1, FS_Subset
  <2> HIDE DEF ones
  <2>3. QED
    BY <2>2, SumOfOnes
<1>5. AddsUpEach(time, SecondsOf(p, at), CompanyOf, over)
  BY <1>2 DEF AddsUpEach, OfCompany
<1>6. AddsUpEach(count, ones, CompanyOf, over)
  <2> HIDE DEF ones, over, totals
  <2>1. QED
    BY <1>2, <1>4 DEF AddsUpEach, OfCompany
<1>7. SumFunctionOnSet(ones, over) = Cardinality(over)
  <2>1. \A i \in over : ones[i] = 1
    OBVIOUS
  <2> HIDE DEF ones, over
  <2>2. QED
    BY <1>1, <2>1, SumOfOnes
<1>8. /\ Total(totals) = SumFunctionOnSet(time, DOMAIN totals)
      /\ Entries(totals) = SumFunctionOnSet(count, DOMAIN totals)
  BY DEF Total, Entries, SumFunction
<1> HIDE DEF time, count, ones, totals, over
<1>9. SumFunctionOnSet(time, DOMAIN totals) = SumFunctionOnSet(SecondsOf(p, at), over)
  BY <1>1, <1>2, <1>3, <1>5, SumOfGroups
<1>10. SumFunctionOnSet(count, DOMAIN totals) = SumFunctionOnSet(ones, over)
  BY <1>1, <1>2, <1>3, <1>6, SumOfGroups
<1>11. QED
  BY <1>7, <1>8, <1>9, <1>10 DEF totals, over

-----------------------------------------------------------------------------
(***************************************************************************)
(* The rows in order.                                                      *)
(***************************************************************************)
\* ORDER BY orders any two rows.
LEMMA IsNewerOrders ==
  ASSUME TypeOK, SchemaHolds, NEW i \in DOMAIN entries, NEW j \in DOMAIN entries
  PROVE  /\ i # j => IsNewer(i, j) \/ IsNewer(j, i)
         /\ ~IsNewer(i, i)
         /\ \A k \in DOMAIN entries : IsNewer(i, j) /\ IsNewer(j, k) => IsNewer(i, k)
<1>1. \A k \in DOMAIN entries : entries[k].started \in Int /\ k \in Int
  <2>1. DOMAIN entries = 1 .. Len(entries) /\ Len(entries) \in Nat
    BY DEF TypeOK
  <2>2. QED
    BY <2>1, EntryTimes
<1>2. QED
  BY <1>1 DEF IsNewer

\* One of finitely many rows is the oldest.
LEMMA OldestExists ==
  ASSUME TypeOK, SchemaHolds, NEW A \in SUBSET DOMAIN entries, IsFiniteSet(A), A # {}
  PROVE  \E x \in A : \A y \in A \ {x} : IsNewer(y, x)
<1> DEFINE Oldest(s, x) == \A y \in s \ {x} : IsNewer(y, x)
           T == {s \in SUBSET A : s # {} /\ ~\E x \in s : Oldest(s, x)}
<1>1. SUFFICES ASSUME T # {} PROVE FALSE
  <2>1. A \notin T
    BY <1>1
  <2>2. QED
    BY <2>1
<1>2. PICK s \in T : \A t \in T : t \subseteq s => t = s
  <2>1. T \in SUBSET SUBSET A
    OBVIOUS
  <2> HIDE DEF T
  <2>2. QED
    BY <1>1, <2>1, LeastSubset
<1>3. PICK z \in s : TRUE
  OBVIOUS
<1> DEFINE t == s \ {z}
<1>4. CASE t = {}
  BY <1>3, <1>4
<1>5. CASE t # {}
  <2>1. \E x \in t : Oldest(t, x)
    <3>1. t \in SUBSET A /\ t \subseteq s /\ t # s
      BY <1>3
    <3>2. t \notin T
      <4> HIDE DEF T, t
      <4>1. QED
        BY <1>2, <3>1
    <3>3. QED
      BY <1>5, <3>1, <3>2
  <2>2. PICK x \in t : Oldest(t, x)
    BY <2>1
  <2>3. s \subseteq DOMAIN entries /\ x # z
    OBVIOUS
  <2>4. CASE IsNewer(z, x)
    <3>1. Oldest(s, x)
      BY <2>2, <2>4
    <3>2. QED
      BY <3>1
  <2>5. CASE IsNewer(x, z)
    <3>1. ASSUME NEW y \in s \ {z} PROVE IsNewer(y, z)
      <4>1. y = x \/ IsNewer(y, x)
        BY <2>2
      <4>2. y \in DOMAIN entries /\ x \in DOMAIN entries /\ z \in DOMAIN entries
        BY <2>3
      <4>3. QED
        BY <2>5, <4>1, <4>2, IsNewerOrders
    <3>2. QED
      BY <1>3, <3>1
  <2>6. QED
    BY <2>3, <2>4, <2>5, IsNewerOrders
<1>6. QED
  BY <1>4, <1>5

Ordered(q) == \A m, n \in DOMAIN q : m < n => IsNewer(q[m], q[n])

\* Finitely many rows can be put in order.
LEMMA OrderExists ==
  ASSUME TypeOK, SchemaHolds, NEW A \in SUBSET DOMAIN entries, IsFiniteSet(A)
  PROVE  \E q \in [1 .. Cardinality(A) -> A] : Ordered(q)
<1> DEFINE Sorts(s) == \E q \in [1 .. Cardinality(s) -> s] : Ordered(q)
           T == {s \in SUBSET A : ~Sorts(s)}
<1>1. SUFFICES ASSUME T # {} PROVE FALSE
  OBVIOUS
<1>2. PICK s \in T : \A t \in T : t \subseteq s => t = s
  <2>1. T \in SUBSET SUBSET A
    OBVIOUS
  <2> HIDE DEF T
  <2>2. QED
    BY <1>1, <2>1, LeastSubset
<1>3. s # {}
  <2>1. [i \in 1 .. 0 |-> 0] \in [1 .. 0 -> {}] /\ Ordered([i \in 1 .. 0 |-> 0])
    BY DEF Ordered
  <2>2. Sorts({})
    BY <2>1, FS_EmptySet
  <2>3. QED
    BY <2>2
<1>4. IsFiniteSet(s)
  BY FS_Subset
<1>5. PICK x \in s : \A y \in s \ {x} : IsNewer(y, x)
  BY <1>3, <1>4, OldestExists
<1> DEFINE t == s \ {x}
<1>6. PICK n : n = Cardinality(t)
  OBVIOUS
<1>7. n \in Nat /\ Cardinality(s) = n + 1
  <2>1. IsFiniteSet(t) /\ Cardinality(t) = Cardinality(s) - 1
    BY <1>4, FS_RemoveElement
  <2>2. Cardinality(t) \in Nat /\ Cardinality(s) \in Nat
    BY <1>4, <2>1, FS_CardinalityType
  <2>3. QED
    BY <1>6, <2>1, <2>2
<1>8. Sorts(t)
  <2>1. t \in SUBSET A /\ t \subseteq s /\ t # s
    OBVIOUS
  <2> HIDE DEF t, Sorts
  <2>2. QED
    BY <1>2, <2>1
<1>9. PICK q \in [1 .. n -> t] : Ordered(q)
  BY <1>6, <1>8
<1> DEFINE r == [m \in 1 .. n + 1 |-> IF m = n + 1 THEN x ELSE q[m]]
<1>10. r \in [1 .. n + 1 -> s]
  BY <1>7, <1>9
<1>11. ASSUME NEW l \in 1 .. n + 1, NEW m \in 1 .. n + 1, l < m PROVE IsNewer(r[l], r[m])
  <2>1. l \in 1 .. n /\ r[l] = q[l] /\ q[l] \in s \ {x}
    BY <1>7, <1>9, <1>11
  <2>2. CASE m = n + 1
    BY <2>1, <2>2, <1>5
  <2>3. CASE m # n + 1
    <3>1. m \in 1 .. n /\ r[m] = q[m]
      BY <2>3, <1>7
    <3>2. QED
      BY <2>1, <3>1, <1>9, <1>11 DEF Ordered
  <2>4. QED
    BY <2>2, <2>3
<1>12. Sorts(s)
  <2>1. DOMAIN r = 1 .. n + 1
    OBVIOUS
  <2>2. Ordered(r)
    <3> HIDE DEF r
    <3>1. QED
      BY <1>11, <2>1 DEF Ordered
  <2> HIDE DEF r
  <2>3. QED
    BY <1>7, <1>10, <2>2
<1>13. QED
  BY <1>12

\* The list holds every entry found, once.
LEMMA NewestLists ==
  ASSUME TypeOK, SchemaHolds, NEW A \in SUBSET DOMAIN entries, IsFiniteSet(A)
  PROVE  /\ Cardinality(A) \in Nat
         /\ Newest(A) \in [1 .. Cardinality(A) -> A]
         /\ \A m, n \in 1 .. Cardinality(A) : Newest(A)[m] = Newest(A)[n] => m = n
         /\ Groups(Newest(A), 1 .. Cardinality(A)) = A
<1>1. PICK q : q = Newest(A)
  OBVIOUS
<1>2. PICK c : c = Cardinality(A) /\ c \in Nat
  BY FS_CardinalityType
<1>3. q \in [1 .. c -> A] /\ Ordered(q)
  BY <1>1, <1>2, OrderExists DEF Newest, Ordered
<1>4. ASSUME NEW m \in 1 .. c, NEW n \in 1 .. c, q[m] = q[n] PROVE m = n
  <2>1. q[m] \in DOMAIN entries /\ q[n] \in DOMAIN entries
    BY <1>3
  <2>2. ~IsNewer(q[m], q[n]) /\ ~IsNewer(q[n], q[m])
    BY <2>1, <1>4, IsNewerOrders
  <2>3. ~(m < n) /\ ~(n < m)
    BY <2>2, <1>3 DEF Ordered
  <2>4. QED
    BY <2>3, <1>2
<1>5. Groups(q, 1 .. c) = A
  <2>1. IsFiniteSet(1 .. c) /\ Cardinality(1 .. c) = c
    BY <1>2, FS_Interval
  <2>2. q \in Injection(1 .. c, A)
    BY <1>3, <1>4 DEF Injection, IsInjective
  <2>3. q \in Surjection(1 .. c, A)
    BY <1>2, <2>1, <2>2, FS_Injection
  <2>4. QED
    BY <1>3, <2>3 DEF Surjection, Groups
<1>6. QED
  BY <1>1, <1>2, <1>3, <1>4, <1>5

-----------------------------------------------------------------------------
(***************************************************************************)
(* The request.                                                            *)
(***************************************************************************)
\* What Totals returns is a total for each of some of the companies there are.
LEMMA TotalsType ==
  ASSUME TypeOK, SchemaHolds, NEW u, NEW p \in Periods, NEW k, NEW at \in Int
  PROVE  IsTotals(Totals(u, p, k, at))
<1> DEFINE over == Overlapping(u, p, k, at)
<1>1. PICK totals : totals = Totals(u, p, k, at)
  OBVIOUS
<1>2. over \subseteq DOMAIN entries /\ IsFiniteSet(over)
  BY OverlappingRows
<1>3. /\ DOMAIN totals = Groups(CompanyOf, over)
      /\ totals = [c \in DOMAIN totals |-> totals[c]]
      /\ \A c \in DOMAIN totals :
           /\ totals[c] = [entries |-> totals[c].entries, duration |-> totals[c].duration]
           /\ totals[c].entries = Cardinality(OfCompany(over, c))
           /\ totals[c].duration = SumFunctionOnSet(SecondsOf(p, at), OfCompany(over, c))
  BY <1>1, TotalsOfCompany
<1>4. ASSUME NEW c \in DOMAIN totals
      PROVE  totals[c].entries \in Nat /\ totals[c].duration \in Int
  <2>1. OfCompany(over, c) \subseteq over
    BY DEF OfCompany
  <2>2. OfCompany(over, c) \in SUBSET DOMAIN entries /\ IsFiniteSet(OfCompany(over, c))
    BY <1>2, <2>1, FS_Subset
  <2>3. Integers(SecondsOf(p, at), OfCompany(over, c))
    BY <2>2, TermsAreIntegers
  <2>4. QED
    BY <1>3, <2>2, <2>3, SumInteger, FS_CardinalityType
<1>5. DOMAIN totals \subseteq DOMAIN companies
  BY <1>2, <1>3 DEF Groups, CompanyOf, SchemaHolds, OwnerIsCompanysOwner, OwnsCompany
<1>6. totals \in [DOMAIN totals -> [entries : Nat, duration : Int]]
  BY <1>3, <1>4
<1>7. QED
  BY <1>1, <1>5, <1>6 DEF IsTotals

LEMMA ListIsSequence ==
  ASSUME NEW S, NEW n \in Nat, NEW s \in [1 .. n -> S]
  PROVE  s \in Seq(S) /\ DOMAIN s = 1 .. n /\ Len(s) = n
<1>1. s \in Seq(S) /\ DOMAIN s = 1 .. n
  OBVIOUS
<1>2. QED
  BY <1>1

\* The rows ReadRows makes of the entries a query finds.
RowsOf(u, p, k, at) ==
  LET newest == Newest(Overlapping(u, p, k, at))
  IN [n \in 1 .. EarlierOf(Limit, Len(newest)) |-> Row(newest[n], p, at)]

LEMMA RowsListed ==
  ASSUME TypeOK, SchemaHolds, NEW u, NEW p \in Periods, NEW k, NEW at \in Int
  PROVE  LET over == Overlapping(u, p, k, at)
             rows == RowsOf(u, p, k, at)
             listed == EarlierOf(Limit, Cardinality(over))
         IN /\ rows \in Rows
            /\ DOMAIN rows = 1 .. listed /\ Len(rows) = listed
            /\ listed \in Nat /\ listed <= Limit
            /\ Cardinality(over) \in Nat
            /\ \A n \in 1 .. listed : /\ Newest(over)[n] \in over
                                      /\ rows[n] = Row(Newest(over)[n], p, at)
<1> DEFINE over == Overlapping(u, p, k, at)
<1>1. over \in SUBSET DOMAIN entries /\ IsFiniteSet(over)
  BY OverlappingRows
<1>2. PICK c : c = Cardinality(over) /\ c \in Nat
  BY <1>1, NewestLists
<1>3. PICK newest : newest = Newest(over) /\ newest \in [1 .. c -> over]
  BY <1>1, <1>2, NewestLists
<1>4. Len(newest) = c
  BY <1>2, <1>3, ListIsSequence
<1>5. PICK listed : listed = EarlierOf(Limit, c)
  OBVIOUS
<1>6. listed \in Nat /\ listed <= Limit /\ listed <= c
  BY <1>2, <1>5, SecondAssumption DEF EarlierOf
<1>7. RowsOf(u, p, k, at) = [n \in 1 .. listed |-> Row(newest[n], p, at)]
  BY <1>3, <1>4, <1>5 DEF RowsOf
<1>8. ASSUME NEW n \in 1 .. listed
      PROVE  /\ newest[n] \in over
             /\ Row(newest[n], p, at) \in [id : Nat, started : Int, running : BOOLEAN, duration : Nat]
  <2>1. newest[n] \in over
    BY <1>2, <1>3, <1>6
  <2>2. newest[n] \in DOMAIN entries /\ newest[n] \in Nat
    <3>1. DOMAIN entries = 1 .. Len(entries) /\ Len(entries) \in Nat
      BY DEF TypeOK
    <3>2. QED
      BY <1>1, <2>1, <3>1
  <2>3. Duration(entries[newest[n]], p, at) \in Nat /\ entries[newest[n]].started \in Int
    BY <2>2, TermTypes, EntryTimes
  <2>4. QED
    BY <2>1, <2>2, <2>3 DEF Row, IsRunning
<1>9. PICK rows : rows = RowsOf(u, p, k, at)
  OBVIOUS
<1>10. /\ rows \in [1 .. listed -> [id : Nat, started : Int, running : BOOLEAN, duration : Nat]]
       /\ \A n \in 1 .. listed : rows[n] = Row(newest[n], p, at)
  BY <1>7, <1>8, <1>9
<1>11. rows \in Rows /\ Len(rows) = listed /\ DOMAIN rows = 1 .. listed
  BY <1>6, <1>10, ListIsSequence DEF Rows
<1>12. QED
  BY <1>2, <1>3, <1>5, <1>6, <1>8, <1>9, <1>10, <1>11

\* The totals a request read are those of the tables as long as no entry changed.
ReadTogether ==
  page.step = "rows" /\ ~page.torn
    => page.totals = Totals(page.user, page.period, page.company, page.at)

HistoryInv == TypeOK /\ SchemaHolds /\ HistoryTypeOK /\ ReadTogether /\ PageAddsUp

\* The rows of timers that run.
RunningRows(rows) == {n \in DOMAIN rows : rows[n].running}

\* Read from the same tables, the rows add up to the totals to the second unless the list is
\* at its limit or shows a timer that is ahead of the clock.
LEMMA ListAddsUp ==
  ASSUME TypeOK, SchemaHolds, NEW u, NEW p \in Periods, NEW k, NEW at \in Int,
         NEW rows, rows = RowsOf(u, p, k, at),
         NEW totals, totals = Totals(u, p, k, at),
         ~\E n \in DOMAIN rows : rows[n].running /\ Nanos(rows[n].started) > at
  PROVE  IF Len(rows) < Entries(totals)
         THEN Len(rows) = Limit
         ELSE /\ Len(rows) = Entries(totals)
              /\ ToTheSecond(Total(totals), RowsTotal(rows), Cardinality(RunningRows(rows)))
<1> DEFINE over == Overlapping(u, p, k, at)
<1>1. PICK c : c = Cardinality(over)
  OBVIOUS
<1>2. PICK newest : newest = Newest(over)
  OBVIOUS
<1>3. over \in SUBSET DOMAIN entries /\ IsFiniteSet(over) /\ \A i \in over : Overlaps(entries[i], p, at)
  BY OverlappingRows
<1>4. /\ DOMAIN rows = 1 .. EarlierOf(Limit, c) /\ Len(rows) = EarlierOf(Limit, c)
      /\ c \in Nat
      /\ \A n \in 1 .. EarlierOf(Limit, c) : newest[n] \in over /\ rows[n] = Row(newest[n], p, at)
  BY <1>1, <1>2, RowsListed
<1>5. Entries(totals) = c /\ Total(totals) = SumFunctionOnSet(SecondsOf(p, at), over)
  BY <1>1, TotalOfTotals
<1>6. CASE c > Limit
  BY <1>4, <1>5, <1>6, SecondAssumption DEF EarlierOf
<1>7. CASE c <= Limit
  <2>1. DOMAIN rows = 1 .. c /\ Len(rows) = c
        /\ \A n \in 1 .. c : newest[n] \in over /\ rows[n] = Row(newest[n], p, at)
    BY <1>4, <1>7, SecondAssumption DEF EarlierOf
  <2>2. /\ \A m, n \in 1 .. c : newest[m] = newest[n] => m = n
        /\ Groups(newest, 1 .. c) = over
    BY <1>1, <1>2, <1>3, NewestLists
  <2> DEFINE durations == [n \in DOMAIN rows |-> rows[n].duration]
             seconds == [n \in 1 .. c |-> SecondsOf(p, at)[newest[n]]]
             running == RunningRows(rows)
  <2>3. ASSUME NEW n \in 1 .. c
        PROVE  /\ durations[n] \in Int /\ seconds[n] \in Int
               /\ ToTheSecond(seconds[n], durations[n], IF n \in running THEN 1 ELSE 0)
    <3>1. PICK i : i = newest[n] /\ i \in DOMAIN entries /\ i \in over /\ rows[n] = Row(i, p, at)
      BY <1>3, <2>1
    <3>2. /\ rows[n].running = IsRunning(i) /\ rows[n].started = entries[i].started
          /\ rows[n].duration = Duration(entries[i], p, at)
      BY <3>1 DEF Row
    <3>3. ~Ahead(entries[i], at)
      BY <2>1, <3>2 DEF Ahead, IsRunning
    <3>4. seconds[n] = Nanos(Seconds(entries[i], p, at)) /\ durations[n] = Duration(entries[i], p, at)
      BY <2>1, <3>1, <3>2 DEF SecondsOf
    <3>5. (IF n \in running THEN 1 ELSE 0) = (IF IsRunning(i) THEN 1 ELSE 0)
      BY <2>1, <3>2 DEF RunningRows
    <3> HIDE DEF seconds, durations, running
    <3>6. ToTheSecond(Nanos(Seconds(entries[i], p, at)), Duration(entries[i], p, at), IF IsRunning(i) THEN 1 ELSE 0)
      BY <1>3, <3>1, <3>3, SecondsAreClip
    <3>7. QED
      BY <3>1, <3>4, <3>5, <3>6, TermTypes
  <2>4. RowsTotal(rows) = SumFunctionOnSet(durations, 1 .. c)
    BY <2>1 DEF RowsTotal, SumFunction
  <2>5. running \subseteq 1 .. c
    BY <2>1 DEF RunningRows
  <2>6. Renames(newest, seconds, SecondsOf(p, at), 1 .. c)
    BY <2>2 DEF Renames
  <2> HIDE DEF durations, seconds, running, over
  <2>7. IsFiniteSet(1 .. c) /\ Integers(seconds, 1 .. c) /\ Integers(durations, 1 .. c)
    <3>1. IsFiniteSet(1 .. c)
      BY <1>4, FS_Interval
    <3>2. QED
      BY <2>3, <3>1 DEF Integers
  <2>8. SumFunctionOnSet(SecondsOf(p, at), over) = SumFunctionOnSet(seconds, 1 .. c)
    <3>1. SumFunctionOnSet(SecondsOf(p, at), Groups(newest, 1 .. c)) = SumFunctionOnSet(seconds, 1 .. c)
      BY <2>6, <2>7, SumRenamed
    <3>2. QED
      BY <2>2, <3>1
  <2>9. ToTheSecond(SumFunctionOnSet(seconds, 1 .. c), SumFunctionOnSet(durations, 1 .. c), Cardinality(running))
    BY <2>3, <2>5, <2>7, SumsToTheSecond
  <2>10. ToTheSecond(Total(totals), RowsTotal(rows), Cardinality(running))
    BY <1>5, <2>4, <2>8, <2>9
  <2>11. QED
    BY <1>4, <1>5, <2>1, <2>10 DEF running
<1>8. QED
  BY <1>4, <1>6, <1>7, SecondAssumption

LEMMA HistoryInvInit == HistoryInit => HistoryInv
<1> SUFFICES ASSUME HistoryInit PROVE HistoryInv
  OBVIOUS
<1>1. TypeOK /\ SchemaHolds
  BY TableInvInit DEF HistoryInit, TableInv
<1>2. page = [step |-> "none"]
  BY DEF HistoryInit, NoPage
<1>3. QED
  BY <1>1, <1>2 DEF HistoryInv, HistoryTypeOK, ReadTogether, PageAddsUp, NoPage

LEMMA HistoryInvStep == HistoryInv /\ TableInv /\ [HistoryNext]_historyVars => HistoryInv'
<1> SUFFICES ASSUME HistoryInv, TableInv, [HistoryNext]_historyVars PROVE HistoryInv'
  OBVIOUS
<1>0. TypeOK /\ SchemaHolds /\ HistoryTypeOK /\ ReadTogether /\ PageAddsUp
  BY DEF HistoryInv
<1>1. [Next]_vars
  BY DEF HistoryNext, historyVars, vars, Open, ReadTotals, ReadRows, ReadFails, Meanwhile
<1>2. TypeOK' /\ SchemaHolds'
  BY <1>1, TableInvInductive DEF TableInv
<1>3. Readings \subseteq Instants /\ Instants \subseteq Int
  BY <1>0, ReadingsAreInstants
<1>4. SUFFICES HistoryTypeOK' /\ ReadTogether' /\ PageAddsUp'
  BY <1>2 DEF HistoryInv
<1>5. ASSUME page' = NoPage PROVE HistoryTypeOK' /\ ReadTogether' /\ PageAddsUp'
  BY <1>5 DEF NoPage, HistoryTypeOK, ReadTogether, PageAddsUp
<1>6. ASSUME NEW u \in Users, NEW p \in Periods, NEW k \in {Everyone} \cup Ids(companies),
             NEW at \in Readings, Open(u, p, k, at)
      PROVE  HistoryTypeOK' /\ ReadTogether' /\ PageAddsUp'
  <2>1. page' = [step |-> "totals", user |-> u, period |-> p, company |-> k, at |-> at]
    BY <1>6 DEF Open
  <2>2. k \in Nat
    BY <1>0 DEF Everyone, Ids, TypeOK
  <2>3. QED
    BY <1>3, <2>1, <2>2 DEF HistoryTypeOK, ReadTogether, PageAddsUp
<1>7. CASE ReadTotals
  <2>1. page \in [step : {"totals"}, user : Users, period : Periods, company : Nat, at : Instants]
    BY <1>0, <1>7 DEF ReadTotals, HistoryTypeOK, NoPage
  <2>2. page.at \in Int /\ page.at \in Instants /\ page.user \in Users /\ page.period \in Periods
        /\ page.company \in Nat
    BY <1>3, <2>1
  <2>3. PICK totals : totals = Totals(page.user, page.period, page.company, page.at)
    OBVIOUS
  <2>4. page' = [step |-> "rows", user |-> page.user, period |-> page.period,
                 company |-> page.company, at |-> page.at, torn |-> FALSE, totals |-> totals]
        /\ companies' = companies /\ entries' = entries
    BY <1>7, <2>3 DEF ReadTotals, vars
  <2>5. /\ page'.step = "rows" /\ page'.user = page.user /\ page'.period = page.period
        /\ page'.company = page.company /\ page'.at = page.at /\ page'.torn = FALSE
        /\ page'.totals = totals
    BY <2>4
  <2>6. IsTotals(totals)
    BY <1>0, <2>2, <2>3, TotalsType
  <2>7. HistoryTypeOK'
    <3>1. IsTotals(page.totals)'
      BY <2>4, <2>5, <2>6 DEF IsTotals
    <3>2. page' \in [step : {"rows"}, user : Users, period : Periods, company : Nat, at : Instants,
                     torn : BOOLEAN, totals : {page'.totals}]
      BY <2>2, <2>4, <2>5
    <3>3. QED
      BY <3>1, <3>2 DEF HistoryTypeOK
  <2>8. ReadTogether'
    <3>1. Totals(page.user, page.period, page.company, page.at)' = totals
      BY <2>3, <2>4, <2>5 DEF Totals, Overlapping
    <3>2. QED
      BY <2>5, <3>1 DEF ReadTogether
  <2>9. QED
    BY <2>5, <2>7, <2>8 DEF PageAddsUp
<1>8. CASE ReadRows
  <2>1. /\ page \in [step : {"rows"}, user : Users, period : Periods, company : Nat, at : Instants,
                     torn : BOOLEAN, totals : {page.totals}]
        /\ IsTotals(page.totals)
    BY <1>0, <1>8 DEF ReadRows, HistoryTypeOK, NoPage
  <2>2. page.at \in Int /\ page.at \in Instants /\ page.period \in Periods /\ page.torn \in BOOLEAN
    BY <1>3, <2>1
  <2>3. PICK rows : rows = RowsOf(page.user, page.period, page.company, page.at)
    OBVIOUS
  <2>4. page' = [step |-> "shown", at |-> page.at, torn |-> page.torn, totals |-> page.totals,
                 rows |-> rows]
        /\ companies' = companies
    BY <1>8, <2>3 DEF ReadRows, RowsOf, vars
  <2>5. /\ page'.step = "shown" /\ page'.at = page.at /\ page'.torn = page.torn
        /\ page'.totals = page.totals /\ page'.rows = rows
    BY <2>4
  <2>6. rows \in Rows /\ Len(rows) <= Limit
    BY <1>0, <2>2, <2>3, RowsListed
  <2>7. HistoryTypeOK'
    <3>1. IsTotals(page.totals)'
      BY <2>1, <2>4, <2>5 DEF IsTotals
    <3>2. page' \in [step : {"shown"}, at : Instants, torn : BOOLEAN, totals : {page'.totals}, rows : Rows]
      BY <2>2, <2>4, <2>5, <2>6
    <3>3. QED
      BY <2>5, <2>6, <3>1, <3>2 DEF HistoryTypeOK
  <2>8. PageAddsUp'
    <3>1. SUFFICES ASSUME ~page.torn, ~\E n \in DOMAIN rows : rows[n].running /\ Nanos(rows[n].started) > page.at
                   PROVE  IF Len(rows) < Entries(page.totals)
                          THEN Len(rows) = Limit
                          ELSE /\ Len(rows) = Entries(page.totals)
                               /\ ToTheSecond(Total(page.totals), RowsTotal(rows),
                                              Cardinality(RunningRows(rows)))
      BY <2>5 DEF PageAddsUp, RunningRows
    <3>2. page.totals = Totals(page.user, page.period, page.company, page.at)
      BY <1>0, <2>1, <3>1 DEF ReadTogether
    <3>3. QED
      BY <1>0, <2>2, <2>3, <3>1, <3>2, ListAddsUp
  <2>9. QED
    BY <2>5, <2>7, <2>8 DEF ReadTogether
<1>9. CASE ReadFails
  BY <1>5, <1>9 DEF ReadFails
<1>10. CASE Meanwhile
  <2>1. CASE page.step = "shown"
    BY <1>5, <1>10, <2>1 DEF Meanwhile
  <2>2. IsTotals(page.totals) => IsTotals(page.totals)' \/ page'.totals # page.totals
    BY <1>0, <1>1, CompaniesOnlyGrow DEF IsTotals
  <2>3. CASE page.step = "rows" /\ entries' # entries
    <3>1. page' = [page EXCEPT !.torn = TRUE]
      BY <1>10, <2>3 DEF Meanwhile
    <3>2. /\ page \in [step : {"rows"}, user : Users, period : Periods, company : Nat, at : Instants,
                       torn : BOOLEAN, totals : {page.totals}]
          /\ IsTotals(page.totals)
      BY <1>0, <2>3 DEF HistoryTypeOK, NoPage
    <3>3. page'.step = "rows" /\ page'.torn = TRUE /\ page'.totals = page.totals
          /\ page' \in [step : {"rows"}, user : Users, period : Periods, company : Nat, at : Instants,
                        torn : BOOLEAN, totals : {page'.totals}]
      BY <3>1, <3>2
    <3>4. IsTotals(page.totals)'
      BY <2>2, <3>2, <3>3
    <3>5. QED
      BY <3>3, <3>4 DEF HistoryTypeOK, ReadTogether, PageAddsUp
  <2>4. CASE page.step # "shown" /\ ~(page.step = "rows" /\ entries' # entries)
    <3>1. page' = page
      BY <1>10, <2>4 DEF Meanwhile
    <3>2. HistoryTypeOK'
      BY <1>0, <2>2, <3>1 DEF HistoryTypeOK
    <3>3. ReadTogether'
      <4>1. SUFFICES ASSUME page.step = "rows", ~page.torn
                     PROVE  page.totals = Totals(page.user, page.period, page.company, page.at)'
        BY <3>1 DEF ReadTogether
      <4>2. entries' = entries
        BY <2>4, <4>1
      <4>3. Totals(page.user, page.period, page.company, page.at)'
              = Totals(page.user, page.period, page.company, page.at)
        BY <3>1, <4>2 DEF Totals, Overlapping
      <4>4. QED
        BY <1>0, <4>1, <4>3 DEF ReadTogether
    <3>4. PageAddsUp'
      BY <2>4, <3>1 DEF PageAddsUp
    <3>5. QED
      BY <3>2, <3>3, <3>4
  <2>5. QED
    BY <2>1, <2>3, <2>4
<1>11. CASE UNCHANGED historyVars
  <2>1. page' = page /\ companies' = companies /\ entries' = entries
    BY <1>11 DEF historyVars
  <2>2. HistoryTypeOK'
    BY <1>0, <2>1 DEF HistoryTypeOK, IsTotals
  <2>3. ReadTogether'
    <3>1. Totals(page.user, page.period, page.company, page.at)'
            = Totals(page.user, page.period, page.company, page.at)
      BY <2>1 DEF Totals, Overlapping
    <3>2. QED
      BY <1>0, <2>1, <3>1 DEF ReadTogether
  <2>4. QED
    BY <1>0, <2>1, <2>2, <2>3 DEF PageAddsUp
<1>12. QED
  BY <1>6, <1>7, <1>8, <1>9, <1>10, <1>11 DEF HistoryNext

LEMMA HistoryInvariance == HistorySpec => []HistoryInv
  BY HistoryInvInit, HistoryInvStep, HistoryOnlyReads, Invariance, PTL DEF HistorySpec

\* HistoryTypeOK: the request keeps its type; in particular no row ever shows a
\* negative duration, and the list is never longer than its limit.
THEOREM HistoryTypeCorrect == HistorySpec => []HistoryTypeOK
  BY HistoryInvariance, PTL DEF HistoryInv

\* PageAddsUp: a page whose two reads met the same rows shows totals that are the
\* sums of its rows, to the second of each timer that runs, for any number of
\* companies, entries and statements.
THEOREM PagesAddUp == HistorySpec => []PageAddsUp
  BY HistoryInvariance, PTL DEF HistoryInv

\* What Together gives: a request whose totals are those of the tables.
LEMMA TogetherMeans ==
  ASSUME HistoryInv, Together
  PROVE  /\ TypeOK /\ SchemaHolds
         /\ page.period \in Periods /\ page.at \in Int
         /\ page.totals = Totals(page.user, page.period, page.company, page.at)
         /\ Matching \in SUBSET DOMAIN entries /\ IsFiniteSet(Matching)
         /\ \A i \in Matching : Overlaps(entries[i], page.period, page.at)
<1>1. TypeOK /\ SchemaHolds /\ HistoryTypeOK /\ ReadTogether
  BY DEF HistoryInv
<1>2. page.period \in Periods /\ page.at \in Instants
  BY <1>1 DEF HistoryTypeOK, NoPage, Together
<1>3. Instants \subseteq Int
  BY <1>1, ReadingsAreInstants
<1>4. page.totals = Totals(page.user, page.period, page.company, page.at)
  BY <1>1 DEF Together, ReadTogether
<1>5. QED
  BY <1>1, <1>2, <1>3, <1>4, OverlappingRows DEF Matching

\* TotalsMatchRowsOnTime: company by company, the sum in SQL is the sum of the
\* rows, to the second of each timer that runs, unless one is ahead of the clock.
THEOREM TotalsMatchOnTime == HistorySpec => []TotalsMatchRowsOnTime
<1>1. HistoryInv => TotalsMatchRowsOnTime
  <2> SUFFICES ASSUME HistoryInv, Together, \A i \in Matching : ~Ahead(entries[i], page.at),
                      NEW c \in DOMAIN page.totals
               PROVE  LET of == {i \in Matching : entries[i].company = c}
                      IN ToTheSecond(page.totals[c].duration,
                                     SumFunction([i \in of |-> Duration(entries[i], page.period, page.at)]),
                                     Cardinality({i \in of : IsRunning(i)}))
    BY DEF TotalsMatchRowsOnTime, TotalsMatchRows
  <2> DEFINE of == {i \in Matching : entries[i].company = c}
             rows == [i \in of |-> Duration(entries[i], page.period, page.at)]
             timers == {i \in of : IsRunning(i)}
  <2>1. PICK p, at : p = page.period /\ at = page.at
    OBVIOUS
  <2>2. /\ TypeOK /\ SchemaHolds /\ p \in Periods /\ at \in Int
        /\ page.totals = Totals(page.user, p, page.company, at)
        /\ Matching = Overlapping(page.user, p, page.company, at)
        /\ Matching \subseteq DOMAIN entries /\ IsFiniteSet(Matching)
        /\ \A i \in Matching : Overlaps(entries[i], p, at) /\ ~Ahead(entries[i], at)
    BY <2>1, TogetherMeans DEF Matching
  <2>3. of = OfCompany(Matching, c) /\ IsFiniteSet(of) /\ of \subseteq Matching
    BY <2>2, FS_Subset DEF OfCompany, CompanyOf
  <2>4. page.totals[c].duration = SumFunctionOnSet(SecondsOf(p, at), of)
    <3>1. PICK totals, u, k : totals = page.totals /\ u = page.user /\ k = page.company
      OBVIOUS
    <3>2. totals = Totals(u, p, k, at) /\ Matching = Overlapping(u, p, k, at)
      BY <2>2, <3>1
    <3> HIDE DEF of
    <3>3. totals[c].duration = SumFunctionOnSet(SecondsOf(p, at), OfCompany(Matching, c))
      BY <2>2, <3>1, <3>2, TotalsOfCompany
    <3>4. QED
      BY <2>3, <3>1, <3>3
  <2>5. \A i \in of : rows[i] = DurationsOf(p, at)[i]
    BY <2>1, <2>2, <2>3 DEF DurationsOf
  <2>6. SumFunction(rows) = SumFunctionOnSet(rows, of)
    BY DEF SumFunction
  <2>7. ToTheSecond(SumFunctionOnSet(SecondsOf(p, at), of), SumFunctionOnSet(DurationsOf(p, at), of),
                    Cardinality(timers))
    <3> HIDE DEF of
    <3>1. of \in SUBSET DOMAIN entries
      BY <2>2, <2>3
    <3>2. QED
      BY <2>2, <2>3, <3>1, TermsToTheSecond
  <2> HIDE DEF rows, of, timers
  <2>8. SumFunctionOnSet(rows, of) = SumFunctionOnSet(DurationsOf(p, at), of)
    BY <2>3, <2>5, SumAgrees
  <2>9. ToTheSecond(page.totals[c].duration, SumFunction(rows), Cardinality(timers))
    BY <2>4, <2>6, <2>7, <2>8
  <2>10. QED
    BY <2>9 DEF rows, of, timers
<1>2. QED
  BY <1>1, HistoryInvariance, PTL

-----------------------------------------------------------------------------
(***************************************************************************)
(* The export.                                                             *)
(***************************************************************************)
\* A line of the export is within half a minute of what Totals counts of the
\* entry: the part of a second the line has and the count has not reaches no
\* half minute the count does not.
LEMMA WholeMinutesNear ==
  ASSUME NEW s \in Int, NEW d \in Int, Nanos(s) <= d, d <= Nanos(s) + Second - 1
  PROVE  /\ Minute \in Nat /\ WholeMinutes(d) \in Int
         /\ (2 * Minute) * WholeMinutes(d) <= 2 * Nanos(s) + Minute
         /\ 2 * Nanos(s) <= (2 * Minute) * WholeMinutes(d) + Minute
<1>1. PICK h : h = HalfMinute /\ h \in Nat \ {0}
  BY SecondAssumption
<1>2. PICK H : H = Nanos(h) /\ H \in Nat \ {0}
  <2>1. 0 \in Int /\ h \in Int /\ 0 < h
    BY <1>1
  <2>2. Nanos(h) \in Int
    BY <2>1, NanosScale
  <2>3. Nanos(0) + Second <= Nanos(h)
    BY <2>1, NanosScale
  <2>4. Nanos(0) = 0 /\ Second \in Nat \ {0}
    BY SecondAssumption DEF Nanos
  <2>5. QED
    BY <2>2, <2>3, <2>4
<1>3. PICK m : m = Minute /\ m = 2 * H /\ m \in Nat \ {0}
  <2>1. 2 * h = h + h
    BY <1>1
  <2>2. Nanos(h + h) = Nanos(h) + Nanos(h)
    BY <1>1, NanosScale
  <2>3. QED
    BY <1>1, <1>2, <2>1, <2>2 DEF Minute
<1>4. PICK q : q = (d + H) \div m /\ q \in Int /\ m * q <= d + H /\ d + H < m * q + m
  <2>1. PICK e : e = d + H /\ e \in Int
    BY <1>2
  <2>2. e \div m \in Int /\ m * (e \div m) <= e /\ e < m * (e \div m) + m
    BY <1>3, <2>1
  <2>3. QED
    BY <2>1, <2>2
<1>5. WholeMinutes(d) = q
  BY <1>1, <1>2, <1>3, <1>4 DEF WholeMinutes
<1>6. PICK x : x = m * q /\ x \in Int
  BY <1>3, <1>4
<1>7. Nanos(s) \in Int /\ Second \in Nat \ {0}
  BY NanosScale, SecondAssumption
<1>8. x <= Nanos(s) + H
  <2>1. PICK k : k = (2 * h) * q /\ k \in Int
    BY <1>1, <1>4
  <2>2. x = Nanos(k)
    <3>1. PICK n : n = Second /\ n \in Int
      BY SecondAssumption
    <3>2. (n * (2 * h)) * q = n * ((2 * h) * q)
      BY <1>1, <1>4, <3>1
    <3>3. QED
      BY <1>1, <1>3, <1>6, <2>1, <3>1, <3>2 DEF Minute, Nanos
  <2>3. PICK t : t = s + h /\ t \in Int
    BY <1>1
  <2>4. Nanos(t) = Nanos(s) + H
    BY <1>1, <1>2, <2>3, NanosScale
  <2>5. t < k => Nanos(t) + Second <= Nanos(k)
    BY <2>1, <2>3, NanosScale
  <2>6. k <= t => Nanos(k) <= Nanos(t)
    BY <2>1, <2>3, NanosScale
  <2>7. x < Nanos(t) + Second
    BY <1>2, <1>4, <1>6, <1>7, <2>4
  <2>8. ~(t < k)
    BY <1>2, <1>6, <1>7, <2>2, <2>4, <2>5, <2>7
  <2>9. QED
    BY <2>1, <2>2, <2>3, <2>4, <2>6, <2>8
<1>9. (2 * m) * q = 2 * x
  BY <1>3, <1>4, <1>6
<1>10. 2 * x <= 2 * Nanos(s) + m
  BY <1>2, <1>3, <1>6, <1>7, <1>8
<1>11. 2 * Nanos(s) <= 2 * x + m
  BY <1>2, <1>3, <1>4, <1>6, <1>7
<1>12. QED
  BY <1>3, <1>4, <1>5, <1>9, <1>10, <1>11

\* ReportIsNear: however many lines the export has, their sum is within half a
\* minute an entry of the total the page shows, running timers and all.
THEOREM ReportsAreNear == HistorySpec => []ReportIsNear
<1>1. HistoryInv => ReportIsNear
  <2> SUFFICES ASSUME HistoryInv, Together, \A i \in Matching : ~Ahead(entries[i], page.at)
               PROVE  LET lines == Report(page.user, page.period, page.company, page.at)
                          off == Minute * SumFunction(lines) - Total(page.totals)
                      IN LaterOf(2 * off, -2 * off) <= Minute * Cardinality(Matching)
    BY DEF ReportIsNear
  <2>0. PICK u, p, k, at : u = page.user /\ p = page.period /\ k = page.company /\ at = page.at
    OBVIOUS
  <2> DEFINE over == Overlapping(u, p, k, at)
             minutes == [i \in over |-> WholeMinutes(Duration(entries[i], p, at))]
             seconds == SecondsOf(p, at)
             some == {i \in over : minutes[i] # 0}
             lines == [i \in some |-> minutes[i]]
  <2>1. /\ TypeOK /\ SchemaHolds /\ p \in Periods /\ at \in Int
        /\ page.totals = Totals(u, p, k, at)
        /\ over = Matching
    BY <2>0, TogetherMeans DEF Matching
  <2>2. /\ over \in SUBSET DOMAIN entries /\ IsFiniteSet(over)
        /\ \A i \in over : Overlaps(entries[i], p, at) /\ ~Ahead(entries[i], at)
    BY <2>0, <2>1, TogetherMeans
  <2>3. Report(page.user, page.period, page.company, page.at) = lines
    BY <2>0 DEF Report
  <2>4. ASSUME NEW i \in over
        PROVE  /\ minutes[i] \in Int /\ seconds[i] \in Int
               /\ (2 * Minute) * minutes[i] <= 2 * seconds[i] + Minute
               /\ 2 * seconds[i] <= (2 * Minute) * minutes[i] + Minute
    <3>1. i \in DOMAIN entries /\ Overlaps(entries[i], p, at) /\ ~Ahead(entries[i], at)
      BY <2>2
    <3>2. PICK d : d = Duration(entries[i], p, at) /\ d \in Int
      BY <2>1, <3>1, TermTypes
    <3>3. PICK s : s = Seconds(entries[i], p, at) /\ s \in Int /\ Nanos(s) \in Int
      BY <2>1, <3>1, TermTypes
    <3>4. PICK part : part = (Second - 1) * (IF IsRunning(i) THEN 1 ELSE 0) /\ part \in Int /\ part <= Second - 1
      BY SecondAssumption
    <3>5. Nanos(s) <= d /\ d <= Nanos(s) + part
      BY <2>1, <3>1, <3>2, <3>3, <3>4, SecondsAreClip DEF ToTheSecond
    <3>6. d <= Nanos(s) + Second - 1
      BY <3>2, <3>3, <3>4, <3>5, SecondAssumption
    <3>7. seconds[i] = Nanos(s) /\ minutes[i] = WholeMinutes(d)
      BY <3>1, <3>2, <3>3 DEF SecondsOf
    <3> HIDE DEF minutes, seconds
    <3>8. QED
      BY <3>2, <3>3, <3>5, <3>6, <3>7, WholeMinutesNear
  <2>5. /\ some \subseteq over /\ over = some \cup (over \ some) /\ some \cap (over \ some) = {}
        /\ \A i \in some : lines[i] = minutes[i]
        /\ \A i \in over \ some : minutes[i] = 0
        /\ DOMAIN lines = some
    OBVIOUS
  <2>6. PICK M : M = Minute /\ M \in Int
    BY SecondAssumption DEF Minute, Nanos
  <2> HIDE DEF minutes, seconds, over, some, lines
  <2>7. Integers(minutes, over) /\ Integers(seconds, over)
    BY <2>4 DEF Integers
  <2>8. SumFunction(lines) = SumFunctionOnSet(minutes, over)
    <3>1. IsFiniteSet(some) /\ IsFiniteSet(over \ some)
      BY <2>2, <2>5, FS_Subset
    <3>2. SumFunction(lines) = SumFunctionOnSet(minutes, some)
      BY <2>5, <3>1, SumAgrees DEF SumFunction
    <3>3. SumFunctionOnSet(minutes, over) = SumFunctionOnSet(minutes, some) + SumFunctionOnSet(minutes, over \ some)
      BY <2>5, <2>7, <3>1, SumOfUnion
    <3>4. SumFunctionOnSet(minutes, over \ some) = 0
      BY <2>5, <3>1, SumOfZeros
    <3>5. SumFunctionOnSet(minutes, some) \in Int
      BY <2>5, <2>7, <3>1, SumInteger DEF Integers
    <3>6. QED
      BY <3>2, <3>3, <3>4, <3>5
  <2>9. Total(page.totals) = SumFunctionOnSet(seconds, over)
    BY <2>1, TotalOfTotals DEF seconds, over
  <2>10. PICK S : S = SumFunctionOnSet(minutes, over) /\ S \in Int
    BY <2>2, <2>7, SumInteger
  <2>11. PICK T : T = SumFunctionOnSet(seconds, over) /\ T \in Int
    BY <2>2, <2>7, SumInteger
  <2>12. PICK n : n = Cardinality(over) /\ n \in Nat
    BY <2>2, FS_CardinalityType
  <2>13. (2 * M) * S <= 2 * T + M * n
    <3>1. 2 * M \in Int /\ \A i \in over : (2 * M) * minutes[i] <= 2 * seconds[i] + M
      BY <2>4, <2>6
    <3>2. (2 * M) * SumFunctionOnSet(minutes, over)
             <= 2 * SumFunctionOnSet(seconds, over) + M * Cardinality(over)
      BY <2>2, <2>6, <2>7, <3>1, SumBounded
    <3>3. QED
      BY <2>10, <2>11, <2>12, <3>2
  <2>14. 2 * T <= (2 * M) * S + M * n
    <3>1. 2 * M \in Int /\ \A i \in over : 2 * seconds[i] <= (2 * M) * minutes[i] + M
      BY <2>4, <2>6
    <3>2. 2 * SumFunctionOnSet(seconds, over)
             <= (2 * M) * SumFunctionOnSet(minutes, over) + M * Cardinality(over)
      BY <2>2, <2>6, <2>7, <3>1, SumBounded
    <3>3. QED
      BY <2>10, <2>11, <2>12, <3>2
  <2>15. PICK x : x = M * S /\ x \in Int
    BY <2>6, <2>10
  <2>16. PICK y : y = M * n /\ y \in Int
    BY <2>6, <2>12
  <2>17. (2 * M) * S = 2 * x
    BY <2>6, <2>10, <2>15
  <2>18. LaterOf(2 * (x - T), -2 * (x - T)) <= y
    BY <2>11, <2>13, <2>14, <2>15, <2>16, <2>17 DEF LaterOf
  <2>19. QED
    BY <2>1, <2>3, <2>6, <2>8, <2>9, <2>10, <2>11, <2>12, <2>15, <2>16, <2>18
<1>2. QED
  BY <1>1, HistoryInvariance, PTL
=============================================================================
