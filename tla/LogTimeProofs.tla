--------------------------- MODULE LogTimeProofs ---------------------------
(***************************************************************************)
(* What LogTime and the Calendar in it do with days, lengths and           *)
(* addresses, proved for any time zone with one change of its offset, any  *)
(* calendar of months that follow one another, and any lengths typed.      *)
(***************************************************************************)
EXTENDS LogTime, Sums

-----------------------------------------------------------------------------
(***************************************************************************)
(* Midnights.                                                              *)
(***************************************************************************)
\* A midnight exists when its instant, read back in the zone, is that midnight.
Midnight(n) == Local(Date(n, 0)) = Hours * n

\* A day counted on from an existing midnight begins where it is named to.
LEMMA AddDaysFromMidnight ==
  ASSUME zone \in Zones, NEW n \in Int, NEW d \in Int, Midnight(n)
  PROVE  AddDays(Date(n, 0), d) = Date(n + d, 0)
<1>1. DayOf(Date(n, 0)) = n /\ HourOf(Date(n, 0)) = 0
  BY DEF Midnight, DayOf, HourOf, Hours
<1>2. QED
  BY <1>1 DEF AddDays

\* Two days meet wherever the first of them has a midnight to begin at.
THEOREM DaysMeet ==
  ASSUME zone \in Zones, NEW n \in Int, Midnight(n)
  PROVE  Day(n).to = Day(n + 1).from
<1>1. Day(n).to = AddDays(Date(n, 0), 1)
  BY DEF Day, Period, Span
<1>2. Day(n + 1).from = Date(n + 1, 0)
  BY DEF Day, Period, Span
<1>3. \A d \in Int : AddDays(Date(n, 0), d) = Date(n + d, 0)
  BY AddDaysFromMidnight
<1>4. QED
  BY <1>1, <1>2, <1>3

(***************************************************************************)
(* What the rest needs of the user's zone, and what not every zone keeps.  *)
(***************************************************************************)
MidnightsKept == KeepsMidnights(zone)

LEMMA MidnightsClear ==
  ASSUME zone \in Zones, MidnightsKept
  PROVE  LET lost == zone.after - zone.before IN
         /\ -(Hours \div 2) < lost
         /\ \A n \in Int :
              LET l == Hours * n
              IN ~ IF lost > 0 THEN zone.at + zone.before - lost < l /\ l < zone.at + zone.after + lost
                               ELSE zone.at + zone.after <= l /\ l < zone.at + zone.before
<1>1. PICK at, before, after : at = zone.at /\ before = zone.before /\ after = zone.after
  OBVIOUS
<1>2. at \in Int /\ before \in Int /\ after \in Int
  BY <1>1, CalendarAssumption
<1>3. PICK lost : lost = after - before
  OBVIOUS
<1>4. PICK unsafe : unsafe = IF lost > 0 THEN at + before - lost + 1 .. at + after + lost - 1
                                         ELSE at + after .. at + before - 1
  OBVIOUS
<1>5. -(Hours \div 2) < lost /\ \A l \in unsafe : l % Hours # 0
  BY <1>1, <1>3, <1>4 DEF MidnightsKept, KeepsMidnights
<1>6. ASSUME NEW n \in Int
      PROVE  ~ IF lost > 0 THEN at + before - lost < Hours * n /\ Hours * n < at + after + lost
                           ELSE at + after <= Hours * n /\ Hours * n < at + before
  <2>1. Hours * n \in Int /\ (Hours * n) % Hours = 0
    BY DEF Hours
  <2>2. Hours * n \notin unsafe
    BY <1>5, <2>1
  <2>3. QED
    BY <1>2, <1>3, <1>4, <2>1, <2>2
<1>7. QED
  BY <1>1, <1>3, <1>5, <1>6

\* In such a zone a day begins at its midnight and holds its hours.
LEMMA MidnightStarts ==
  ASSUME zone \in Zones, MidnightsKept, NEW n \in Int
  PROVE  /\ Date(n, 0) \in Int /\ Midnight(n)
         /\ DayOf(Date(n, 0)) = n
         /\ \A t \in Int : DayOf(t) \in Int /\ (n <= DayOf(t) <=> Date(n, 0) <= t)
<1> DEFINE at == zone.at
           before == zone.before
           after == zone.after
           l == Hours * n
<1>1. at \in Int /\ before \in Int /\ after \in Int
  BY CalendarAssumption
<1>2. l < at + before <=> l < at + after
  BY <1>1, MidnightsClear DEF Hours
<1>3. \A t \in Int : Local(t) = t + (IF t < at THEN before ELSE after)
  BY DEF Local, Offset
<1>4. Date(n, 0) = IF l < at + before THEN l - before ELSE l - after
  <2>1. Date(n, 0) = l - Offset(l - Offset(l))
    BY <1>1 DEF Date, Hours, Offset
  <2>2. QED
    BY <1>1, <1>2, <2>1 DEF Offset, Hours
<1>5. l \in Int /\ \A t \in Int : l <= Local(t) <=> Date(n, 0) <= t
  BY <1>1, <1>2, <1>3, <1>4 DEF Hours
<1>6. Local(Date(n, 0)) = l /\ Date(n, 0) \in Int
  BY <1>1, <1>2, <1>3, <1>4 DEF Hours
<1>7. \A t \in Int : Local(t) \in Int
  BY <1>1, <1>3
<1>8. \A t \in Int : DayOf(t) \in Int /\ (n <= DayOf(t) <=> l <= Local(t))
  BY <1>7 DEF DayOf, Hours
<1>9. DayOf(Date(n, 0)) = n
  BY <1>6 DEF DayOf, Hours
<1>10. QED
  BY <1>5, <1>6, <1>8, <1>9 DEF Midnight

LEMMA HoursStay ==
  ASSUME zone \in Zones, MidnightsKept, NEW n \in Int, NEW h \in 0 .. Hours - 1
  PROVE  Date(n, h) \in Int /\ DayOf(Date(n, h)) = n
<1> DEFINE at == zone.at
           before == zone.before
           after == zone.after
           l == Hours * n + h
<1>1. at \in Int /\ before \in Int /\ after \in Int
  BY CalendarAssumption
<1>2. l \in Int /\ Hours * n <= l /\ l < Hours * (n + 1)
  BY DEF Hours
<1>3. ASSUME NEW m \in Int
      PROVE  /\ after > before => ~(at + before - (after - before) < Hours * m /\ Hours * m < at + after + (after - before))
             /\ after <= before => ~(at + after <= Hours * m /\ Hours * m < at + before)
  BY <1>1, MidnightsClear
<1>4. Date(n, h) = l - Offset(l - Offset(l))
  BY DEF Date
<1>5. Date(n, h) \in Int /\ Hours * n <= Local(Date(n, h)) /\ Local(Date(n, h)) < Hours * (n + 1)
  <2>1. n + 1 \in Int
    OBVIOUS
  <2> DEFINE a == Hours * n
             b == Hours * (n + 1)
  <2>2. a \in Int /\ b \in Int
    BY DEF Hours
  <2>3. /\ after > before => ~(at + before - (after - before) < a /\ a < at + after + (after - before))
        /\ after <= before => ~(at + after <= a /\ a < at + before)
        /\ after > before => ~(at + before - (after - before) < b /\ b < at + after + (after - before))
        /\ after <= before => ~(at + after <= b /\ b < at + before)
    BY <1>3, <2>1
  <2> HIDE DEF a, b, l
  <2>4. \A t \in Int : Local(t) = t + (IF t < at THEN before ELSE after)
    BY <1>1 DEF Local, Offset
  <2>5. PICK o \in {before, after} : Date(n, h) = l - (IF l - o < at THEN before ELSE after)
    BY <1>1, <1>2, <1>4 DEF Offset
  <2>6. Date(n, h) \in Int
    BY <1>1, <1>2, <2>5
  <2>7. Local(Date(n, h)) = Date(n, h) + (IF Date(n, h) < at THEN before ELSE after)
    BY <2>4, <2>6
  <2>8. a <= l /\ l < b
    BY <1>2 DEF a, b
  <2>9. CASE after <= before
    <3>1. CASE o = before
      BY <1>1, <1>2, <2>5, <2>7, <2>8, <2>9, <3>1
    <3>2. CASE o = after
      BY <1>1, <1>2, <2>5, <2>7, <2>8, <2>9, <3>2
    <3>3. QED
      BY <3>1, <3>2, <2>6, <2>5, <2>8 DEF a, b
  <2>10. CASE after > before
    <3>1. CASE l < at + before \/ at + after <= l
      BY <1>1, <1>2, <2>5, <2>7, <2>8, <2>10, <3>1 DEF a, b
    <3>2. CASE at + before <= l /\ l < at + after
      <4>1. a <= Local(Date(n, h)) /\ Local(Date(n, h)) < b
        BY <1>1, <1>2, <2>2, <2>3, <2>5, <2>7, <2>8, <2>10, <3>2
      <4>2. QED
        BY <4>1, <2>6 DEF a, b
    <3>3. QED
      BY <1>1, <1>2, <3>1, <3>2
  <2>11. QED
    BY <1>1, <2>9, <2>10
<1>6. Local(Date(n, h)) \in Int
  BY <1>1, <1>5 DEF Local, Offset
<1>7. QED
  BY <1>5, <1>6 DEF DayOf, Hours

(***************************************************************************)
(* Filters.                                                                *)
(***************************************************************************)
\* A filter with every field filled in.
Filled == [mode : Modes, day : Int, month : Int, year : Int, from : Int, to : Int]

\* Previous and next of a day are the days before and after it, and one undoes
\* the other, wherever the days concerned have a midnight to begin at.
THEOREM DayStepsReturn ==
  ASSUME zone \in Zones, NEW f \in Filled, f.mode = "day", NEW n \in Int,
         Midnight(f.day), Midnight(f.day + n)
  PROVE  /\ Shift(f, n) = [f EXCEPT !.day = f.day + n]
         /\ Shift(Shift(f, n), -n) = f
<1>1. ASSUME NEW g \in Filled, g.mode = "day", NEW m \in Int, Midnight(g.day), Midnight(g.day + m)
      PROVE  Shift(g, m) = [g EXCEPT !.day = g.day + m]
  <2>1. Period(g).from = Date(g.day, 0)
    BY <1>1 DEF Period, Span
  <2>2. AddDays(Date(g.day, 0), m) = Date(g.day + m, 0)
    BY <1>1, AddDaysFromMidnight DEF Filled
  <2>3. DayOf(Date(g.day + m, 0)) = g.day + m
    BY <1>1 DEF Midnight, DayOf, Hours, Filled
  <2>4. QED
    BY <1>1, <2>1, <2>2, <2>3 DEF Shift
<1>2. Shift(f, n) = [f EXCEPT !.day = f.day + n]
  BY <1>1
<1> DEFINE g == [f EXCEPT !.day = f.day + n]
<1>3. g \in Filled /\ g.mode = "day" /\ g.day = f.day + n /\ g.day + -n = f.day
  BY DEF Filled
<1>4. Shift(g, -n) = [g EXCEPT !.day = f.day]
  <2> HIDE DEF g
  <2>1. Midnight(g.day) /\ Midnight(g.day + -n)
    BY <1>3
  <2>2. QED
    BY <1>1, <1>3, <2>1
<1>5. [g EXCEPT !.day = f.day] = f
  BY DEF Filled
<1>6. QED
  BY <1>2, <1>4, <1>5

\* A local time that some instant shows is the one time.Date finds.
LEMMA DateFindsWhatExists ==
  ASSUME zone \in Zones, NEW day \in Int, NEW at \in 0 .. Hours - 1, Exists(day, at)
  PROVE  DayOf(Date(day, at)) = day /\ HourOf(Date(day, at)) = at
<1> DEFINE turn == zone.at
           before == zone.before
           after == zone.after
           l == Hours * day + at
<1>1. turn \in Int /\ before \in Int /\ after \in Int
  BY CalendarAssumption
<1>2. l \in Int /\ l \div Hours = day /\ l % Hours = at
  BY DEF Hours
<1>3. PICK t \in Int : DayOf(t) = day /\ HourOf(t) = at
  <2>1. Hours * (day - 1) .. Hours * (day + 2) \subseteq Int
    OBVIOUS
  <2>2. QED
    BY <2>1 DEF Exists
<1>4. \A u \in Int : Local(u) = u + (IF u < turn THEN before ELSE after)
  BY DEF Local, Offset
<1>5. Local(t) = l
  <2>1. Local(t) \in Int
    BY <1>1, <1>3, <1>4
  <2>2. QED
    BY <1>3, <2>1 DEF DayOf, HourOf, Hours
<1>6. PICK o \in {before, after} : Date(day, at) = l - (IF l - o < turn THEN before ELSE after)
  BY <1>1, <1>2 DEF Date, Offset
<1>7. Local(Date(day, at)) = l
  <2> HIDE DEF turn, before, after, l
  <2>1. Date(day, at) \in Int
    BY <1>1, <1>2, <1>6
  <2>2. CASE o = before
    BY <1>1, <1>2, <1>3, <1>4, <1>5, <1>6, <2>1, <2>2
  <2>3. CASE o = after
    BY <1>1, <1>2, <1>3, <1>4, <1>5, <1>6, <2>1, <2>3
  <2>4. QED
    BY <2>2, <2>3, <1>6
<1>8. QED
  BY <1>2, <1>7 DEF DayOf, HourOf

(***************************************************************************)
(* Lengths.                                                                *)
(***************************************************************************)
\* A sum of numbers with units is a number.
LEMMA SumOfParts ==
  ASSUME NEW parts, IsFiniteSet(DOMAIN parts),
         \A i \in DOMAIN parts : parts[i].n \in Nat /\ parts[i].unit \in {"h", "m"}
  PROVE  Sum(parts) \in Int
<1> DEFINE part == [i \in DOMAIN parts |-> parts[i].n * UnitLength[parts[i].unit]]
<1>1. UnitLength.h \in Int /\ UnitLength.m \in Int
  BY LogAssumption DEF UnitLength, Hour, Minute
<1>2. \A i \in DOMAIN part : part[i] \in Int
  BY <1>1
<1>3. DOMAIN part = DOMAIN parts
  OBVIOUS
<1> HIDE DEF part
<1>4. SumFunction(part) \in Int
  BY <1>2, <1>3, SumInteger DEF SumFunction, Integers
<1>5. QED
  BY <1>4 DEF Sum, part

\* A reading is what was meant, or a refusal; and nothing within a day is refused.
Reading(x, n) == /\ n \in Int
                 /\ n \in {Invalid, TooLong} \/ (Meant(x) # None /\ n = Meant(x))
                 /\ Meant(x) # None => /\ Meant(x) \in Int
                                       /\ 0 < Meant(x) /\ Meant(x) <= Minute * MaxLogged => n = Meant(x)

LEMMA ClockIsRead ==
  ASSUME NEW x \in Lengths, x.form = "clock", x.h \in Nat, x.m \in Nat
  PROVE  Reading(x, ClockReading(x))
<1> DEFINE whole == Hours \div HourLen
<1>1. HourLen \in Nat \ {0} /\ Hours = HourLen * whole /\ whole \in Nat /\ whole <= Hours
  BY LogAssumption DEF Hours
<1>2. MaxInt \in Int /\ Hours <= MaxInt /\ Width \in Nat /\ 2 * Hours < Width \div 2
  BY LogAssumption
<1>3. Meant(x) = IF Len(x.mm) = 2 /\ x.m < HourLen THEN Hour * x.h + Minute * x.m ELSE None
  BY DEF Meant
<1>4. Hour * x.h + Minute * x.m \in Nat /\ None \notin Int
  BY <1>1, CalendarAssumption DEF Hour, Minute
<1>5. ASSUME x.h > whole
      PROVE  Minute * MaxLogged < Hour * x.h + Minute * x.m
  <2>1. PICK over \in Nat : x.h = whole + 1 + over
    <3>1. x.h - whole - 1 \in Nat /\ x.h = whole + 1 + (x.h - whole - 1)
      BY <1>1, <1>5
    <3>2. QED
      BY <3>1
  <2>2. HourLen * x.h = HourLen * whole + HourLen + HourLen * over
    BY <1>1, <2>1
  <2>3. HourLen * over \in Nat
    BY <1>1
  <2>4. Hour * x.h = 2 * (HourLen * x.h)
    BY <1>1 DEF Hour
  <2>5. QED
    BY <1>1, <2>2, <2>3, <2>4 DEF Minute, MaxLogged, Hours
<1>6. ASSUME x.h <= whole
      PROVE  Wrap(Hour * x.h) = Hour * x.h
  <2>1. PICK under \in Nat : whole = x.h + under
    <3>1. whole - x.h \in Nat /\ whole = x.h + (whole - x.h)
      BY <1>1, <1>6
    <3>2. QED
      BY <3>1
  <2>2. HourLen * whole = HourLen * x.h + HourLen * under
    BY <1>1, <2>1
  <2>3. HourLen * under \in Nat /\ HourLen * x.h \in Nat
    BY <1>1
  <2>4. Hour * x.h = 2 * (HourLen * x.h)
    BY <1>1 DEF Hour
  <2>5. PICK v : v = Hour * x.h
    OBVIOUS
  <2>6. v \in Nat /\ v < Width \div 2
    BY <1>1, <1>2, <2>2, <2>3, <2>4, <2>5 DEF Hours
  <2>7. Wrap(v) = v
    BY <1>2, <2>6 DEF Wrap
  <2>8. QED
    BY <2>5, <2>7
<1>7. QED
  <2>1. CASE x.h > MaxInt \/ Len(x.mm) # 2 \/ x.m >= HourLen
    <3>1. ClockReading(x) = Invalid
      BY <2>1 DEF ClockReading
    <3>2. Meant(x) # None => Minute * MaxLogged < Meant(x)
      BY <1>1, <1>2, <1>3, <1>5, <2>1
    <3>3. QED
      BY <1>3, <1>4, <3>1, <3>2 DEF Reading, Invalid, Minute, MaxLogged, Hours
  <2>2. CASE ~(x.h > MaxInt \/ Len(x.mm) # 2 \/ x.m >= HourLen) /\ x.h > whole
    <3>1. ClockReading(x) = TooLong
      BY <2>2 DEF ClockReading, MaxLogged
    <3>2. Minute * MaxLogged < Meant(x)
      BY <1>1, <1>3, <1>5, <2>2
    <3>3. QED
      BY <1>3, <1>4, <3>1, <3>2 DEF Reading, TooLong, Minute, MaxLogged, Hours
  <2>3. CASE ~(x.h > MaxInt \/ Len(x.mm) # 2 \/ x.m >= HourLen) /\ ~(x.h > whole)
    <3>1. ClockReading(x) = Hour * x.h + Minute * x.m
      BY <1>1, <1>6, <2>3 DEF ClockReading, MaxLogged
    <3>2. Meant(x) = Hour * x.h + Minute * x.m
      BY <1>1, <1>3, <2>3
    <3>3. QED
      BY <1>4, <3>1, <3>2 DEF Reading
  <2>4. QED
    BY <2>1, <2>2, <2>3

LEMMA PlainIsRead ==
  ASSUME NEW x \in Lengths, x.form = "plain", x.n \in Nat
  PROVE  Reading(x, PlainHours(x))
<1> DEFINE whole == Hours \div HourLen
<1>1. HourLen \in Nat \ {0} /\ Hours = HourLen * whole /\ whole \in Nat
  BY LogAssumption DEF Hours
<1>2. Meant(x) = x.n * (Hour \div 2)
  BY DEF Meant
<1>3. Hour \div 2 = HourLen
  BY <1>1 DEF Hour
<1>4. x.n * HourLen \in Nat /\ None \notin Int
  BY <1>1, CalendarAssumption
<1>5. ASSUME x.n > 2 * whole
      PROVE  Minute * MaxLogged < x.n * HourLen
  <2>1. PICK over \in Nat : x.n = 2 * whole + 1 + over
    <3>1. x.n - 2 * whole - 1 \in Nat /\ x.n = 2 * whole + 1 + (x.n - 2 * whole - 1)
      BY <1>1, <1>5
    <3>2. QED
      BY <3>1
  <2>2. x.n * HourLen = 2 * (HourLen * whole) + HourLen + over * HourLen
    BY <1>1, <2>1
  <2>3. over * HourLen \in Nat
    BY <1>1
  <2>4. QED
    BY <1>1, <2>2, <2>3 DEF Minute, MaxLogged, Hours
<1>6. CASE x.n > 2 * whole
  BY <1>2, <1>3, <1>4, <1>5, <1>6 DEF Reading, PlainHours, TooLong, Minute, MaxLogged, Hours
<1>7. CASE ~(x.n > 2 * whole)
  BY <1>2, <1>3, <1>4, <1>7 DEF Reading, PlainHours, MaxLogged
<1>8. QED
  BY <1>6, <1>7

LEMMA UnitsAreRead ==
  ASSUME NEW x \in Lengths, x.form = "units", x.parts \in Seq([n : Nat, unit : {"h", "m", "none"}])
  PROVE  Reading(x, WithUnits(x))
<1> DEFINE parts == x.parts
           bare == {i \in DOMAIN parts : parts[i].unit = "none"}
           spelt == [i \in DOMAIN parts |-> IF i \in bare THEN [parts[i] EXCEPT !.unit = "m"] ELSE parts[i]]
           meant == [i \in DOMAIN parts |-> IF parts[i].unit = "h" THEN parts[i] ELSE [parts[i] EXCEPT !.unit = "m"]]
           hours == \E i \in DOMAIN parts : parts[i].unit = "h"
           minutes == \A i \in DOMAIN parts : parts[i].unit = "m"
<1>1. \A i \in DOMAIN parts : parts[i] \in [n : Nat, unit : {"h", "m", "none"}]
  <2>1. PICK P : P = [n : Nat, unit : {"h", "m", "none"}]
    OBVIOUS
  <2>2. PICK p : p = parts /\ p \in Seq(P)
    BY <2>1
  <2>3. \A i \in DOMAIN p : p[i] \in P
    BY <2>2
  <2>4. QED
    BY <2>1, <2>2, <2>3
<1>2. IsFiniteSet(DOMAIN parts)
  <2>1. DOMAIN parts = 1 .. Len(parts) /\ Len(parts) \in Nat
    OBVIOUS
  <2>2. QED
    BY <2>1, FS_Interval
<1>3. \A i \in DOMAIN parts : spelt[i].n \in Nat /\ spelt[i].unit \in {"h", "m"}
  BY <1>1
<1>4. Sum(spelt) \in Int
  <2>1. DOMAIN spelt = DOMAIN parts
    OBVIOUS
  <2> HIDE DEF spelt
  <2>2. QED
    BY <1>2, <1>3, <2>1, SumOfParts
<1>5. spelt = meant
  <2>1. \A i \in DOMAIN parts : spelt[i] = meant[i]
    BY <1>1
  <2>2. QED
    BY <2>1
<1>6. minutes => spelt = parts
  <2>1. ASSUME minutes, NEW i \in DOMAIN parts
        PROVE  spelt[i] = parts[i]
    BY <2>1
  <2>2. parts = [i \in DOMAIN parts |-> parts[i]]
    OBVIOUS
  <2>3. minutes => spelt = [i \in DOMAIN parts |-> parts[i]]
    BY <2>1
  <2>4. QED
    BY <2>2, <2>3
<1>7. Meant(x) = IF hours THEN Sum(meant) ELSE IF minutes THEN Sum(parts) ELSE None
  <2>1. CASE hours
    <3>1. ~ minutes
      BY <2>1
    <3>2. QED
      BY <2>1, <3>1 DEF Meant
  <2>2. CASE ~hours
    BY <2>2 DEF Meant
  <2>3. QED
    BY <2>1, <2>2
<1>8. Meant(x) = IF hours \/ minutes THEN Sum(spelt) ELSE None
  BY <1>5, <1>6, <1>7
<1>9. bare # {} /\ ~hours <=> ~(hours \/ minutes)
  BY <1>1
<1>10. WithUnits(x) = IF (bare # {} /\ ~hours) \/ Sum(spelt) >= Width \div 2 THEN Invalid ELSE Sum(spelt)
  BY DEF WithUnits
<1> HIDE DEF spelt, bare, hours, minutes
<1>11. None \notin Int /\ Width \in Nat /\ 2 * Hours < Width \div 2
  BY CalendarAssumption, LogAssumption
<1>12. CASE hours \/ minutes
  <2>1. Meant(x) = Sum(spelt)
    BY <1>8, <1>12
  <2>2. WithUnits(x) = IF Meant(x) >= Width \div 2 THEN Invalid ELSE Meant(x)
    BY <1>9, <1>10, <1>12, <2>1
  <2>3. Meant(x) \in Int
    BY <2>1, <1>4
  <2>4. QED
    BY <1>11, <2>2, <2>3 DEF Reading, Invalid, Minute, MaxLogged, Hours
<1>13. CASE ~(hours \/ minutes)
  <2>1. WithUnits(x) = Invalid /\ Meant(x) = None
    BY <1>8, <1>9, <1>10, <1>13
  <2>2. QED
    BY <2>1 DEF Reading, Invalid
<1>14. QED
  BY <1>12, <1>13

\* Every text typed as a length.
LEMMA LengthIsRead ==
  ASSUME NEW x \in Lengths
  PROVE  Reading(x, Parsed(x))
<1>1. CASE x.form = "clock" /\ x.h \in Nat /\ x.m \in Nat
  <2>1. Parsed(x) = ClockReading(x)
    BY <1>1 DEF Parsed
  <2>2. QED
    BY <1>1, <2>1, ClockIsRead
<1>2. CASE x.form = "units" /\ x.parts \in Seq([n : Nat, unit : {"h", "m", "none"}])
  <2>1. Parsed(x) = WithUnits(x)
    BY <1>2 DEF Parsed
  <2>2. QED
    BY <1>2, <2>1, UnitsAreRead
<1>3. CASE x.form = "plain" /\ x.n \in Nat
  <2>1. Parsed(x) = PlainHours(x)
    BY <1>3 DEF Parsed
  <2>2. QED
    BY <1>3, <2>1, PlainIsRead
<1>4. CASE x.form \in {"blank", "other"}
  <2>1. Parsed(x) = Invalid
    BY <1>4 DEF Parsed
  <2>2. Meant(x) = None
    BY <1>4 DEF Meant
  <2>3. QED
    BY <2>1, <2>2 DEF Reading, Invalid
<1>5. QED
  BY <1>1, <1>2, <1>3, <1>4, LogAssumption

LEMMA LengthIsMeant ==
  ASSUME NEW x \in Lengths
  PROVE  /\ ParseDuration(x) \in Int
         /\ ParseDuration(x) > 0 => /\ Meant(x) # None
                                    /\ Minute * ParseDuration(x) - Meant(x) \in 0 .. Minute \div 2
                                    /\ ParseDuration(x) <= MaxLogged
         /\ Meant(x) # None => (0 < Meant(x) /\ Meant(x) <= Minute * MaxLogged => ParseDuration(x) > 0)
<1>1. PICK n : n = Parsed(x)
  OBVIOUS
<1>2. PICK m : m = Meant(x)
  OBVIOUS
<1>3. /\ n \in Int
      /\ n \in {-1, -2} \/ (m # None /\ n = m)
      /\ m # None => m \in Int /\ (0 < m /\ m <= 2 * Hours => n = m)
  BY <1>1, <1>2, LengthIsRead DEF Reading, Invalid, TooLong, Minute, MaxLogged
<1>4. PICK d : d = (n + 1) \div 2
  OBVIOUS
<1>5. ParseDuration(x) = IF n = -2 \/ d > Hours THEN -2 ELSE IF d <= 0 THEN -1 ELSE d
  BY <1>1, <1>4 DEF ParseDuration, TooLong, Invalid, Minute, MaxLogged
<1>6. d \in Int /\ 2 * d - n \in 0 .. 1
  BY <1>3, <1>4
<1>7. QED
  BY <1>2, <1>3, <1>5, <1>6 DEF Minute, MaxLogged, Hours

(***************************************************************************)
(* The theorems of the whole specification.                                *)
(***************************************************************************)
\* What every step keeps, of the state that is not the page's.
ClockInv == zone \in Zones /\ now \in Clock
LogInv ==
  /\ ClockInv
  /\ dialog \in Int \cup {None}
  /\ pending # None => /\ pending.start \in Int /\ pending.d \in 1 .. MaxLogged
                       /\ pending.date \in Int \cup {None} /\ pending.at \in Starts \cup {None}
                       /\ pending.read \in Clock
  /\ notice # None => notice.start \in Int /\ notice.day = DayOf(notice.start)

\* What is on its way to the service began where LogStart put it.
StartPicked ==
  pending # None =>
    LET p == pending
        day == IF p.date = None THEN DayOf(p.read) ELSE p.date
    IN IF p.at = None THEN p.start + p.d = p.read /\ day = DayOf(p.read)
       ELSE p.start = Date(day, p.at)

\* No step moves the user to another zone, and each of them leaves the clock at
\* one of its readings.
LEMMA ZoneStays ==
  ASSUME ClockInv, [LogNext]_allVars
  PROVE  ClockInv' /\ zone' = zone
<1>1. CASE LogNext
  <2>1. CASE Browse
    BY <2>1 DEF ClockInv, Browse, Next, ChangeField, Change, PressPreset, PressShift, Answer, Reload, ClockMoves
  <2>2. CASE GetDashboard \/ OpenHistory \/ FollowNotice
    BY <2>2 DEF ClockInv, GetDashboard, OpenHistory, FollowNotice
  <2>3. CASE GetLogDialog \/ GetCloseLogDialog \/ Log \/ \E in \in LogSignals : PostLog(in.duration, in.date, in.at)
    BY <2>3 DEF ClockInv, GetLogDialog, GetCloseLogDialog, Log, PostLog, Onward, vars
  <2>4. CASE Timers /\ ClockMoves /\ UNCHANGED logVars
    BY <2>4 DEF ClockInv, ClockMoves
  <2>5. QED
    BY <1>1, <2>1, <2>2, <2>3, <2>4 DEF LogNext
<1>2. CASE UNCHANGED allVars
  BY <1>2 DEF ClockInv, allVars, vars
<1>3. QED
  BY <1>1, <1>2

\* What the zone shows an instant to be changes only with the zone.
LEMMA DaysStay ==
  ASSUME zone' = zone
  PROVE  /\ \A t : DayOf(t)' = DayOf(t) /\ HourOf(t)' = HourOf(t)
         /\ \A n, h : Date(n, h)' = Date(n, h)
  BY DEF DayOf, HourOf, Local, Offset, Date

\* The zone's days are numbers.
LEMMA DaysAreNumbers ==
  ASSUME zone \in Zones
  PROVE  /\ \A t \in Int : DayOf(t) \in Int /\ HourOf(t) \in 0 .. Hours - 1
         /\ \A n, h \in Int : Date(n, h) \in Int
<1>1. zone.at \in Int /\ zone.before \in Int /\ zone.after \in Int
  BY CalendarAssumption
<1>2. \A t \in Int : Offset(t) \in Int
  BY <1>1 DEF Offset
<1>3. \A t \in Int : Local(t) \in Int
  BY <1>2 DEF Local
<1>4. \A t \in Int : DayOf(t) \in Int /\ HourOf(t) \in 0 .. Hours - 1
  BY <1>3 DEF DayOf, HourOf, Hours
<1>5. \A n, h \in Int : Date(n, h) \in Int
  <2>1. TAKE n, h \in Int
  <2>2. PICK l : l = Hours * n + h
    OBVIOUS
  <2>3. l \in Int
    BY <2>2 DEF Hours
  <2>4. QED
    BY <1>2, <2>2, <2>3 DEF Date
<1>6. QED
  BY <1>4, <1>5

LEMMA LogInvInit ==
  ASSUME LogInit
  PROVE  LogInv /\ StartPicked
  BY DEF LogInit, Init, LogInv, ClockInv, StartPicked

LEMMA PostLogKeeps ==
  ASSUME LogInv, NEW x \in Lengths, NEW date \in {dialog, None, Bad} \cup Days,
         NEW at \in Starts \cup {None, Bad}, PostLog(x, date, at)
  PROVE  LogInv' /\ StartPicked'
<1> DEFINE d == ParseDuration(x)
           day == IF date = None THEN Today ELSE date
           start == LogStart(date, at, d)
<1>1. zone' = zone /\ now' = now /\ dialog' = dialog /\ notice' = notice
  BY DEF PostLog, Onward, vars
<1>2. dialog # None /\ d > 0 /\ start # None
  BY DEF PostLog
<1>3. pending' = [start |-> start, d |-> d, date |-> date, at |-> at, read |-> now]
  BY DEF PostLog
<1>4. d \in 1 .. MaxLogged
  BY <1>2, LengthIsMeant DEF MaxLogged, Hours
<1>5. now \in Int /\ Today \in Int /\ None \notin Int /\ Bad \notin Int \cup {None} /\ Days \subseteq Int /\ Starts \subseteq 0 .. Hours - 1
  BY DaysAreNumbers, CalendarAssumption, LogAssumption DEF LogInv, ClockInv, Today
<1>6. start = CASE day = Bad \/ at = Bad -> None
                [] at = None -> IF day = Today THEN now - d ELSE None
                [] OTHER -> Date(day, at)
  BY DEF LogStart
<1>7. day # Bad /\ at # Bad
  <2>1. CASE day = Bad \/ at = Bad
    <3>1. start = None
      BY <1>5, <1>6, <2>1
    <3>2. QED
      BY <1>2, <3>1
  <2>2. QED
    BY <2>1
<1>8. date # Bad
  BY <1>5, <1>7
<1>9. date \in Int \cup {None} /\ at \in Starts \cup {None} /\ day \in Int
  BY <1>2, <1>5, <1>7, <1>8 DEF LogInv
<1>10. IF at = None THEN day = Today /\ start = now - d ELSE start = Date(day, at)
  <2>1. CASE at = None
    <3>1. start = IF day = Today THEN now - d ELSE None
      BY <1>6, <1>7, <2>1
    <3>2. QED
      BY <1>2, <2>1, <3>1
  <2>2. CASE at # None
    BY <1>6, <1>7, <2>2
  <2>3. QED
    BY <2>1, <2>2
<1>11. start \in Int
  <2>1. CASE at = None
    BY <1>4, <1>5, <1>10, <2>1
  <2>2. CASE at # None
    <3>1. at \in Int
      BY <1>5, <1>9, <2>2
    <3>2. Date(day, at) \in Int
      BY <1>9, <3>1, DaysAreNumbers DEF LogInv, ClockInv
    <3>3. QED
      BY <1>10, <2>2, <3>2
  <2>3. QED
    BY <2>1, <2>2
<1> HIDE DEF start, d
<1>12. \A t : DayOf(t)' = DayOf(t)
  BY <1>1, DaysStay
<1>13. LogInv'
  <2>1. (notice # None => notice.start \in Int /\ notice.day = DayOf(notice.start))'
    BY <1>1, <1>12 DEF LogInv
  <2>2. QED
    BY <1>1, <1>3, <1>4, <1>9, <1>11, <2>1 DEF LogInv, ClockInv
<1>14. StartPicked'
  <2>1. (Date(day, at))' = Date(day, at)
    BY <1>1 DEF Date, Offset, Today, DayOf, Local
  <2>2. DayOf(now)' = Today /\ pending'.read = now /\ pending'.date = date /\ pending'.at = at /\ pending'.start = start /\ pending'.d = d
    BY <1>1, <1>3, <1>12 DEF Today
  <2>3. DayOf(pending.read)' = Today
    BY <1>1, <2>2 DEF Today, DayOf, Local, Offset
  <2>4. CASE at = None
    <3>1. start + d = now
      BY <1>4, <1>5, <1>10, <2>4
    <3>2. QED
      BY <1>10, <2>2, <2>3, <2>4, <3>1 DEF StartPicked
  <2>5. CASE at # None
    <3>1. start = Date(day, at)
      BY <1>10, <2>5
    <3>2. Date(IF pending.date = None THEN DayOf(pending.read) ELSE pending.date, pending.at)' = Date(day, at)
      BY <1>1, <2>2, <2>3 DEF Date, Offset
    <3>3. QED
      BY <2>2, <2>5, <3>1, <3>2 DEF StartPicked
  <2>6. QED
    BY <2>4, <2>5
<1>15. QED
  BY <1>13, <1>14

\* A step that brings nothing new to the service or the notice.
LEMMA LessKeeps ==
  ASSUME LogInv, StartPicked, ClockInv', zone' = zone,
         pending' \in {pending, None}, notice' \in {notice, None}, dialog' \in {dialog, None, Today}
  PROVE  LogInv' /\ StartPicked'
<1>1. Today \in Int
  BY DaysAreNumbers, CalendarAssumption DEF LogInv, ClockInv, Today
<1>2. dialog' \in Int \cup {None}
  BY <1>1 DEF LogInv
<1>3. (notice # None => notice.start \in Int /\ notice.day = DayOf(notice.start))'
  BY DEF LogInv, DayOf, Local, Offset
<1>4. (pending # None => /\ pending.start \in Int /\ pending.d \in 1 .. MaxLogged
                         /\ pending.date \in Int \cup {None} /\ pending.at \in Starts \cup {None}
                         /\ pending.read \in Clock)'
  BY DEF LogInv
<1>5. StartPicked'
  BY DEF StartPicked, DayOf, Local, Offset, Date
<1>6. QED
  BY <1>2, <1>3, <1>4, <1>5 DEF LogInv

LEMMA LogInvStep ==
  ASSUME LogInv, StartPicked, [LogNext]_allVars
  PROVE  LogInv' /\ StartPicked'
<1>1. ClockInv' /\ zone' = zone
  BY ZoneStays DEF LogInv
<1>2. CASE LogNext
  <2>1. CASE Browse
    BY <1>1, <2>1, LessKeeps DEF Browse
  <2>2. CASE GetDashboard \/ OpenHistory \/ FollowNotice
    BY <1>1, <2>2, LessKeeps DEF GetDashboard, OpenHistory, FollowNotice
  <2>3. CASE GetLogDialog \/ GetCloseLogDialog
    BY <1>1, <2>3, LessKeeps DEF GetLogDialog, GetCloseLogDialog
  <2>4. CASE Log
    <3>1. CASE UNCHANGED <<dialog, notice>>
      BY <1>1, <2>4, <3>1, LessKeeps DEF Log
    <3>2. CASE ~ UNCHANGED <<dialog, notice>>
      <4>1. /\ pending # None /\ pending' = None /\ dialog' = None
            /\ notice' = [start |-> pending.start, day |-> DayOf(pending.start)]
        BY <2>4, <3>2 DEF Log, DayOfNotice
      <4>2. notice'.start \in Int /\ notice'.start = pending.start /\ notice'.day = DayOf(pending.start)
        BY <4>1 DEF LogInv
      <4>3. DayOf(notice.start)' = DayOf(pending.start)
        BY <1>1, <4>2 DEF DayOf, Local, Offset
      <4>4. QED
        BY <1>1, <4>1, <4>2, <4>3 DEF LogInv, StartPicked
    <3>3. QED
      BY <3>1, <3>2
  <2>5. CASE \E in \in LogSignals : PostLog(in.duration, in.date, in.at)
    BY <2>5, PostLogKeeps DEF LogSignals
  <2>6. CASE Timers /\ ClockMoves /\ UNCHANGED logVars
    BY <1>1, <2>6, LessKeeps DEF logVars
  <2>7. QED
    BY <1>2, <2>1, <2>2, <2>3, <2>4, <2>5, <2>6 DEF LogNext
<1>3. CASE UNCHANGED allVars
  BY <1>1, <1>3, LessKeeps DEF allVars, logVars
<1>4. QED
  BY <1>2, <1>3

LEMMA LogInvHolds == LogSpec => [](LogInv /\ StartPicked)
<1>1. LogInit => LogInv /\ StartPicked
  BY LogInvInit
<1>2. LogInv /\ StartPicked /\ [LogNext]_allVars => (LogInv /\ StartPicked)'
  BY LogInvStep
<1>3. QED
  BY <1>1, <1>2, PTL DEF LogSpec

\* A length is read as it was meant, whatever numbers are typed.
THEOREM LengthsReadAsMeant == LogSpec => []ReadsAsMeant
<1>1. ReadsAsMeant
  BY LengthIsMeant DEF ReadsAsMeant
<1>2. QED
  BY <1>1, PTL

\* Time goes down on the day and at the hour picked, in any zone and on any day
\* its clocks change on, unless they skip that hour.
THEOREM TimeGoesWhereTyped == LogSpec => []LoggedWhereTyped
<1>1. LogInv /\ StartPicked => LoggedWhereTyped
  <2>1. SUFFICES ASSUME LogInv, StartPicked, pending # None
                 PROVE  LET p == pending
                            day == IF p.date = None THEN DayOf(p.read) ELSE p.date
                        IN IF p.at = None THEN p.start + p.d = p.read /\ day = DayOf(p.read)
                           ELSE Exists(day, p.at) => DayOf(p.start) = day /\ HourOf(p.start) = p.at
    BY DEF LoggedWhereTyped
  <2>2. PICK p : p = pending
    OBVIOUS
  <2>3. PICK day : day = IF p.date = None THEN DayOf(p.read) ELSE p.date
    OBVIOUS
  <2>4. day \in Int
    <3>1. p.read \in Int
      BY <2>1, <2>2, CalendarAssumption DEF LogInv
    <3>2. QED
      BY <2>1, <2>2, <2>3, <3>1, DaysAreNumbers DEF LogInv, ClockInv
  <2>5. CASE p.at = None
    BY <2>1, <2>2, <2>3, <2>5 DEF StartPicked
  <2>6. CASE p.at # None
    <3>1. p.at \in 0 .. Hours - 1
      BY <2>1, <2>2, <2>6, LogAssumption DEF LogInv
    <3>2. p.start = Date(day, p.at)
      BY <2>1, <2>2, <2>3, <2>6 DEF StartPicked
    <3>3. Exists(day, p.at) => DayOf(p.start) = day /\ HourOf(p.start) = p.at
      BY <2>1, <2>4, <3>1, <3>2, DateFindsWhatExists DEF LogInv, ClockInv
    <3>4. QED
      BY <2>2, <2>3, <2>6, <3>3
  <2>7. QED
    BY <2>5, <2>6
<1>2. QED
  BY <1>1, LogInvHolds, PTL

(***************************************************************************)
(* The address.                                                            *)
(***************************************************************************)
Fields == {"mode", "day", "month", "year", "from", "to"}

\* An address that has every field its mode reads.
Names(u) == /\ DOMAIN u = Fields
            /\ u.mode \in Modes
            /\ \A x \in Reads[u.mode] : u[x] # None

\* A day is in one month.
LEMMA OneMonth ==
  ASSUME NEW n \in Int, NEW k, InMonth(n, k)
  PROVE  MonthOf(n) = k /\ FirstOf(n) = First[k]
<1>1. PICK m : m = MonthOf(n)
  OBVIOUS
<1>2. m \in DOMAIN First /\ First[m] <= n /\ n < First[m + 1]
  BY <1>1 DEF InMonth, MonthOf
<1>3. k \in DOMAIN First /\ k + 1 \in DOMAIN First /\ First[k] <= n /\ n < First[k + 1]
  BY DEF InMonth
<1>4. \A i, j \in DOMAIN First : i < j => First[i] < First[j] /\ i .. j \subseteq DOMAIN First
  BY MonthsAssumption
<1>5. \A i \in DOMAIN First : i \in Int /\ First[i] \in Int
  BY MonthsAssumption
<1>6. m <= k
  <2>1. SUFFICES ASSUME ~(m <= k)
                 PROVE  FALSE
    OBVIOUS
  <2>2. k + 1 <= m
    BY <1>2, <1>3, <1>5, <2>1
  <2>3. First[k + 1] <= First[m]
    BY <1>2, <1>3, <1>4, <1>5, <2>2
  <2>4. QED
    BY <1>2, <1>3, <1>5, <2>3
<1>7. k <= m
  <2>1. SUFFICES ASSUME ~(k <= m)
                 PROVE  FALSE
    OBVIOUS
  <2>2. m + 1 \in m .. k /\ m < k
    BY <1>2, <1>3, <1>5, <2>1
  <2>3. m + 1 \in DOMAIN First
    BY <1>2, <1>3, <1>4, <2>2
  <2>4. First[m + 1] <= First[k]
    BY <1>2, <1>3, <1>4, <1>5, <2>2, <2>3
  <2>5. QED
    BY <1>2, <1>3, <1>5, <2>3, <2>4
<1>8. QED
  BY <1>1, <1>2, <1>3, <1>5, <1>6, <1>7 DEF FirstOf

LEMMA MonthOfDay ==
  ASSUME NEW n \in Days
  PROVE  InMonth(n, MonthOf(n)) /\ MonthOf(n) \in Int
<1>1. PICK k \in DOMAIN First : InMonth(n, k)
  BY MonthsAssumption
<1>2. n \in Int
  BY CalendarAssumption
<1>3. MonthOf(n) = k
  BY <1>1, <1>2, OneMonth
<1>4. QED
  BY <1>1, <1>3, MonthsAssumption

LEMMA FiltersAreFilled ==
  ASSUME NEW f \in Filters
  PROVE  f \in Filled /\ Names(f)
<1>1. Months \subseteq Int
  BY MonthOfDay DEF Months
<1>2. Years \subseteq Int
  <2>1. SUFFICES ASSUME NEW k \in Months
                 PROVE  k \div MonthsInYear \in Int
    BY DEF Years
  <2>2. QED
    BY <1>1, CalendarAssumption
<1>3. Days \subseteq Int /\ None \notin Int
  BY CalendarAssumption
<1>4. f \in Filled
  BY <1>1, <1>2, <1>3 DEF Filters, Filled
<1>5. Names(f)
  <2>1. DOMAIN f = Fields
    BY DEF Filters, Fields
  <2>2. f.day # None /\ f.month # None /\ f.year # None /\ f.from # None /\ f.to # None /\ f.mode \in Modes
    BY <1>3, <1>4 DEF Filled
  <2>3. QED
    BY <2>1, <2>2 DEF Names, Reads, Modes
<1>6. QED
  BY <1>4, <1>5

\* A period is that of the fields its mode reads.
LEMMA PeriodOfReads ==
  ASSUME NEW f, NEW g, f.mode \in Modes, g.mode = f.mode, \A x \in Reads[f.mode] : g[x] = f[x]
  PROVE  Period(g) = Period(f)
<1>1. CASE f.mode = "day"
  BY <1>1 DEF Period, Reads
<1>2. CASE f.mode = "month"
  BY <1>2 DEF Period, Reads
<1>3. CASE f.mode = "year"
  BY <1>3 DEF Period, Reads
<1>4. CASE f.mode = "range"
  BY <1>4 DEF Period, Reads
<1>5. QED
  BY <1>1, <1>2, <1>3, <1>4 DEF Modes, Reads

\* Whatever the time is when it is read, an address names the period it says.
LEMMA NamedPeriod ==
  ASSUME NEW u, Names(u)
  PROVE  Period(Filter(u)) = Period(u)
<1>1. \A x \in Fields : u[x] # None => Filter(u)[x] = u[x]
  BY DEF Filter, Names
<1>2. u.mode # None
  BY CalendarAssumption DEF Names, Modes, Reads
<1>3. Filter(u).mode = u.mode
  BY <1>1, <1>2 DEF Fields
<1>4. \A x \in Reads[u.mode] : Filter(u)[x] = u[x]
  BY <1>1 DEF Names, Reads, Modes, Fields
<1>5. QED
  BY <1>3, <1>4, PeriodOfReads DEF Names

\* The address of a filter says what the filter says.
LEMMA QueryNames ==
  ASSUME NEW f \in Filters
  PROVE  Names(HistoryQuery(f)) /\ Period(HistoryQuery(f)) = Period(f)
<1> DEFINE u == HistoryQuery(f)
<1>1. Names(f)
  BY FiltersAreFilled
<1>2. DOMAIN u = Fields /\ \A x \in {"mode"} \cup Reads[f.mode] : u[x] = f[x]
  BY <1>1 DEF HistoryQuery, Names, Fields, Reads, Modes
<1>3. u.mode = f.mode /\ \A x \in Reads[f.mode] : u[x] = f[x]
  BY <1>2
<1> HIDE DEF u
<1>4. Names(u)
  BY <1>1, <1>2, <1>3 DEF Names
<1>5. Period(u) = Period(f)
  BY <1>1, <1>3, PeriodOfReads DEF Names
<1>6. QED
  BY <1>4, <1>5 DEF u

LEMMA PeriodStays ==
  ASSUME zone' = zone
  PROVE  \A f : Period(f)' = Period(f)
<1>1. /\ \A n, h : Date(n, h)' = Date(n, h)
      /\ \A t, d : AddDays(t, d)' = AddDays(t, d)
      /\ \A t, m : AddMonths(t, m)' = AddMonths(t, m)
  BY DEF AddDays, AddMonths, DayOf, HourOf, Local, Offset, Date
<1>2. QED
  BY <1>1 DEF Period, Between

AddressInv == url = BlankQuery \/ \E f : url = f /\ Names(f) /\ shown = Period(f)

LEMMA AddressNamed ==
  ASSUME NEW f, Names(f), zone' = zone, url' = f, shown' = Period(f)
  PROVE  AddressInv'
<1>1. Period(f)' = Period(f)
  BY PeriodStays
<1>2. Names(f)'
  BY DEF Names
<1>3. QED
  BY <1>1, <1>2 DEF AddressInv

LEMMA AnswerNames ==
  ASSUME NEW f, NEW s, Answer(f, s)
  PROVE  AddressInv'
<1>1. f \in Filters /\ zone' = zone /\ url' = HistoryQuery(f) /\ shown' = Period(f)
  BY DEF Answer
<1>2. Names(HistoryQuery(f)) /\ Period(HistoryQuery(f)) = Period(f)
  BY <1>1, QueryNames
<1>3. QED
  BY <1>1, <1>2, AddressNamed

LEMMA RenderNames ==
  ASSUME NEW q, Names(q), Render(q), zone' = zone
  PROVE  AddressInv'
<1>1. url' = q /\ shown' = Period(Filter(q))
  BY DEF Render
<1>2. shown' = Period(q)
  BY <1>1, NamedPeriod
<1>3. QED
  BY <1>1, <1>2, AddressNamed

LEMMA AddressStays ==
  ASSUME AddressInv, zone' = zone, url' = url, shown' = shown
  PROVE  AddressInv'
<1>1. CASE url = BlankQuery
  BY <1>1 DEF AddressInv, BlankQuery
<1>2. ASSUME NEW f, url = f, Names(f), shown = Period(f)
      PROVE  AddressInv'
  BY <1>2, AddressNamed
<1>3. QED
  BY <1>1, <1>2 DEF AddressInv

LEMMA AddressStep ==
  ASSUME LogInv, AddressInv, [LogNext]_allVars
  PROVE  AddressInv'
<1>1. ClockInv' /\ zone' = zone
  BY ZoneStays DEF LogInv
<1>2. CASE LogNext
  <2>1. CASE Browse
    <3>1. CASE ChangeField
      BY <3>1, AnswerNames DEF ChangeField, Change
    <3>2. CASE \E name \in Presets : PressPreset(name)
      BY <3>2, AnswerNames DEF PressPreset
    <3>3. CASE \E n \in {-1, 1} : PressShift(n)
      BY <3>3, AnswerNames DEF PressShift
    <3>4. CASE Reload
      <4>1. CASE url = BlankQuery
        BY <3>4, <4>1 DEF Reload, Render, AddressInv, BlankQuery
      <4>2. CASE Names(url)
        BY <1>1, <3>4, <4>2, RenderNames DEF Reload
      <4>3. QED
        BY <4>1, <4>2 DEF AddressInv
    <3>5. CASE ClockMoves
      BY <1>1, <3>5, AddressStays DEF ClockMoves
    <3>6. QED
      BY <2>1, <3>1, <3>2, <3>3, <3>4, <3>5 DEF Browse, Next
  <2>2. CASE GetDashboard
    BY <2>2 DEF GetDashboard, AddressInv, BlankQuery
  <2>3. CASE OpenHistory
    BY <2>3 DEF OpenHistory, Render, AddressInv, BlankQuery
  <2>4. CASE FollowNotice
    <3>1. PICK q : q = [BlankQuery EXCEPT !.mode = "day", !.day = notice.day]
      OBVIOUS
    <3>2. notice.day \in Int /\ None \notin Int
      BY <2>4, DaysAreNumbers, CalendarAssumption DEF LogInv, ClockInv, FollowNotice
    <3>3. DOMAIN q = Fields /\ q.mode = "day" /\ q.day # None
      BY <3>1, <3>2 DEF BlankQuery, Fields
    <3>4. Names(q)
      BY <3>3 DEF Names, Modes, Reads
    <3>5. Render(q)
      BY <2>4, <3>1 DEF FollowNotice
    <3>6. QED
      BY <1>1, <3>4, <3>5, RenderNames
  <2>5. CASE GetLogDialog \/ GetCloseLogDialog \/ Log \/ \E in \in LogSignals : PostLog(in.duration, in.date, in.at)
    <3>1. url' = url /\ shown' = shown
      BY <2>5 DEF GetLogDialog, GetCloseLogDialog, Log, PostLog, Onward, vars
    <3>2. QED
      BY <1>1, <3>1, AddressStays
  <2>6. CASE Timers /\ ClockMoves /\ UNCHANGED logVars
    BY <1>1, <2>6, AddressStays DEF ClockMoves
  <2>7. QED
    BY <1>2, <2>1, <2>2, <2>3, <2>4, <2>5, <2>6 DEF LogNext
<1>3. CASE UNCHANGED allVars
  BY <1>1, <1>3, AddressStays DEF allVars, vars
<1>4. QED
  BY <1>2, <1>3

\* The address names the period on screen, whenever it is opened again.
THEOREM AddressesLast == LogSpec => []AddressNamesPeriod
<1>1. LogInit => AddressInv
  BY DEF LogInit, Init, AddressInv
<1>2. LogInv /\ AddressInv /\ [LogNext]_allVars => AddressInv'
  BY AddressStep
<1>3. AddressInv => AddressNamesPeriod
  <2>1. SUFFICES ASSUME AddressInv, url # BlankQuery
                 PROVE  Period(Filter(url)) = shown
    BY DEF AddressNamesPeriod
  <2>2. Names(url) /\ shown = Period(url)
    BY <2>1 DEF AddressInv
  <2>3. QED
    BY <2>2, NamedPeriod
<1>4. QED
  BY <1>1, <1>2, <1>3, LogInvHolds, PTL DEF LogSpec

(***************************************************************************)
(* Days, months and years where midnights are kept.                        *)
(***************************************************************************)
LEMMA MidnightsRise ==
  ASSUME zone \in Zones, MidnightsKept, NEW m \in Int, NEW n \in Int
  PROVE  /\ m < n <=> Date(m, 0) < Date(n, 0)
         /\ m <= n <=> Date(m, 0) <= Date(n, 0)
<1>1. Date(m, 0) \in Int /\ DayOf(Date(m, 0)) = m
  BY MidnightStarts
<1>2. Date(n, 0) \in Int /\ DayOf(Date(n, 0)) = n
  BY MidnightStarts
<1>3. n <= m <=> Date(n, 0) <= Date(m, 0)
  BY <1>1, MidnightStarts
<1>4. m <= n <=> Date(m, 0) <= Date(n, 0)
  BY <1>2, MidnightStarts
<1>5. QED
  BY <1>1, <1>2, <1>3, <1>4

LEMMA MidnightsCount ==
  ASSUME zone \in Zones, MidnightsKept, NEW n \in Int, NEW d \in Int
  PROVE  AddDays(Date(n, 0), d) = Date(n + d, 0) /\ DayOf(AddDays(Date(n, 0), d)) = n + d
<1>1. Midnight(n)
  BY MidnightStarts
<1>2. AddDays(Date(n, 0), d) = Date(n + d, 0)
  BY <1>1, AddDaysFromMidnight
<1>3. n + d \in Int
  OBVIOUS
<1>4. DayOf(Date(n + d, 0)) = n + d
  BY <1>3, MidnightStarts
<1>5. QED
  BY <1>2, <1>4

\* From midnight to midnight is the days between them, to the nearest day.
LEMMA DaysAreWhole ==
  ASSUME zone \in Zones, MidnightsKept, NEW a \in Int, NEW b \in Int, a <= b
  PROVE  WholeDays(Span(Date(a, 0), Date(b, 0))) = b - a
<1>1. PICK turn, before, after : turn = zone.at /\ before = zone.before /\ after = zone.after
  OBVIOUS
<1>2. turn \in Int /\ before \in Int /\ after \in Int
  BY <1>1, CalendarAssumption
<1>3. after - before > -12
  BY <1>1, <1>2, MidnightsClear DEF Hours
<1>4. after - before <= 12
  <2>1. SUFFICES ASSUME after - before > 12
                 PROVE  FALSE
    BY <1>2
  <2>2. PICK n \in Int : 24 * n <= turn + before /\ turn + before < 24 * n + 24
    <3>1. 24 * ((turn + before) \div 24) <= turn + before /\ turn + before < 24 * ((turn + before) \div 24) + 24
      BY <1>2
    <3>2. (turn + before) \div 24 \in Int
      BY <1>2
    <3>3. QED
      BY <3>1, <3>2
  <2>3. n + 1 \in Int
    OBVIOUS
  <2>4. ~ (turn + before - (after - before) < 24 * (n + 1) /\ 24 * (n + 1) < turn + after + (after - before))
    <3>1. after - before > 0
      BY <1>2, <2>1
    <3>2. \A m \in Int : ~ (turn + before - (after - before) < Hours * m /\ Hours * m < turn + after + (after - before))
      BY <1>1, <3>1, MidnightsClear
    <3>3. QED
      BY <2>3, <3>2 DEF Hours
  <2>5. QED
    BY <1>2, <2>1, <2>2, <2>4
<1>5. ASSUME NEW n \in Int
      PROVE  Date(n, 0) = 24 * n - (IF 24 * n < turn + before THEN before ELSE after)
  <2>1. 24 * n < turn + before <=> 24 * n < turn + after
    BY <1>1, <1>2, MidnightsClear DEF Hours
  <2>2. Date(n, 0) = 24 * n - Offset(24 * n - Offset(24 * n))
    BY <1>1, <1>2 DEF Date, Hours, Offset
  <2>3. QED
    BY <1>1, <1>2, <2>1, <2>2 DEF Offset
<1>6. PICK x, y : x = Date(a, 0) /\ y = Date(b, 0)
  OBVIOUS
<1>7. x = 24 * a - (IF 24 * a < turn + before THEN before ELSE after)
  BY <1>5, <1>6
<1>8. y = 24 * b - (IF 24 * b < turn + before THEN before ELSE after)
  BY <1>5, <1>6
<1>9. y - x + 12 \in 24 * (b - a) .. 24 * (b - a) + 23
  BY <1>2, <1>3, <1>4, <1>7, <1>8
<1>10. (y - x + 12) \div 24 = b - a
  BY <1>9
<1>11. QED
  BY <1>6, <1>10 DEF WholeDays, Span, Hours

\* Months are counted on from the first day of one to the first of another.
LEMMA MonthsCount ==
  ASSUME zone \in Zones, MidnightsKept, NEW k, NEW m \in Int,
         {k, k + 1, k + m} \subseteq DOMAIN First
  PROVE  AddMonths(Date(First[k], 0), m) = Date(First[k + m], 0)
<1>1. k \in Int /\ First[k] \in Int /\ First[k + m] \in Int /\ First[k + 1] \in Int /\ First[k] < First[k + 1]
  BY MonthsAssumption
<1>2. PICK n : n = First[k]
  OBVIOUS
<1>3. n \in Int /\ InMonth(n, k)
  BY <1>1, <1>2 DEF InMonth
<1>4. MonthOf(n) = k /\ FirstOf(n) = n
  BY <1>2, <1>3, OneMonth
<1>5. DayOf(Date(n, 0)) = n /\ Local(Date(n, 0)) = Hours * n
  BY <1>3, MidnightStarts DEF Midnight
<1>6. HourOf(Date(n, 0)) = 0
  BY <1>3, <1>5 DEF HourOf, Hours
<1>7. First[k + m] + n - FirstOf(n) = First[k + m]
  BY <1>1, <1>3, <1>4
<1>8. QED
  BY <1>2, <1>4, <1>5, <1>6, <1>7 DEF AddMonths

\* The months about a day that the calendar lists.
LEMMA MonthsListed ==
  ASSUME NEW n \in Days, NEW k, k = MonthOf(n), NEW y, y = k \div MonthsInYear
  PROVE  /\ k \in Int /\ y \in Int
         /\ MonthsInYear * y <= k /\ k < MonthsInYear * y + MonthsInYear
         /\ MonthsInYear * y - MonthsInYear .. MonthsInYear * y + 2 * MonthsInYear \subseteq DOMAIN First
<1>1. PICK j \in DOMAIN First :
         LET i == j \div MonthsInYear
         IN InMonth(n, j) /\ {MonthsInYear * (i - 1), MonthsInYear * (i + 2)} \subseteq DOMAIN First
  BY MonthsAssumption
<1>2. n \in Int /\ MonthsInYear \in Nat \ {0}
  BY CalendarAssumption
<1>3. k = j
  BY <1>1, <1>2, OneMonth
<1>4. k \in Int
  BY <1>3, MonthsAssumption
<1>5. PICK M : M = MonthsInYear
  OBVIOUS
<1>6. y \in Int /\ M * y <= k /\ k < M * y + M
  BY <1>2, <1>4, <1>5
<1>7. M * (y - 1) = M * y - M /\ M * (y + 2) = M * y + 2 * M
  BY <1>2, <1>5, <1>6
<1>8. {M * y - M, M * y + 2 * M} \subseteq DOMAIN First
  BY <1>1, <1>3, <1>5, <1>7
<1>9. M * y \in Int
  BY <1>2, <1>5, <1>6
<1>10. M * y - M .. M * y + 2 * M \subseteq DOMAIN First
  <2>1. M * y - M < M * y + 2 * M
    BY <1>2, <1>5, <1>9
  <2>2. QED
    BY <1>8, <2>1, MonthsAssumption
<1>11. QED
  BY <1>4, <1>5, <1>6, <1>10

\* The period of each mode is from one midnight to another.
LEMMA DayPeriod ==
  ASSUME zone \in Zones, MidnightsKept, NEW f, f.mode = "day", f.day \in Int
  PROVE  Period(f) = Span(Date(f.day, 0), Date(f.day + 1, 0))
<1>1. PICK n \in Int : n = f.day
  OBVIOUS
<1>2. AddDays(Date(n, 0), 1) = Date(n + 1, 0)
  <2>1. \A d \in Int : AddDays(Date(n, 0), d) = Date(n + d, 0)
    BY MidnightsCount
  <2>2. QED
    BY <2>1
<1>3. QED
  BY <1>1, <1>2 DEF Period

LEMMA MonthPeriod ==
  ASSUME zone \in Zones, MidnightsKept, NEW f, f.mode = "month", {f.month, f.month + 1} \subseteq DOMAIN First
  PROVE  Period(f) = Span(Date(First[f.month], 0), Date(First[f.month + 1], 0))
<1>1. PICK k : k = f.month
  OBVIOUS
<1>2. AddMonths(Date(First[k], 0), 1) = Date(First[k + 1], 0)
  BY <1>1, MonthsCount
<1>3. QED
  BY <1>1, <1>2 DEF Period

LEMMA YearPeriod ==
  ASSUME zone \in Zones, MidnightsKept, NEW f, f.mode = "year", NEW s, s = MonthsInYear * f.year,
         {s, s + 1, s + MonthsInYear} \subseteq DOMAIN First
  PROVE  Period(f) = Span(Date(First[s], 0), Date(First[s + MonthsInYear], 0))
<1>1. MonthsInYear \in Int
  BY CalendarAssumption
<1>2. AddMonths(Date(First[s], 0), MonthsInYear) = Date(First[s + MonthsInYear], 0)
  BY <1>1, MonthsCount
<1>3. QED
  BY <1>2 DEF Period

LEMMA RangePeriod ==
  ASSUME zone \in Zones, MidnightsKept, NEW f, f.mode = "range", f.from \in Int, f.to \in Int
  PROVE  Period(f) = IF f.to < f.from THEN None ELSE Span(Date(f.from, 0), Date(f.to + 1, 0))
<1>1. PICK a, b \in Int : a = f.from /\ b = f.to
  OBVIOUS
<1>2. AddDays(Date(b, 0), 1) = Date(b + 1, 0)
  <2>1. \A d \in Int : AddDays(Date(b, 0), d) = Date(b + d, 0)
    BY MidnightsCount
  <2>2. QED
    BY <2>1
<1>3. Period(f) = Between(Date(a, 0), Date(b, 0))
  BY <1>1 DEF Period
<1>4. b < a <=> Date(b, 0) < Date(a, 0)
  BY MidnightsRise
<1>5. QED
  BY <1>1, <1>2, <1>3, <1>4 DEF Between

\* Days meet; a month and a year is from its first day to its last.
LEMMA PeriodsTileKept ==
  ASSUME zone \in Zones, MidnightsKept
  PROVE  PeriodsTile
<1>1. ASSUME NEW n \in Int
      PROVE  Day(n).from = Date(n, 0) /\ Day(n).to = Date(n + 1, 0)
  <2>1. PICK f : f = [mode |-> "day", day |-> n]
    OBVIOUS
  <2>2. Period(f) = Span(Date(n, 0), Date(n + 1, 0))
    BY <2>1, DayPeriod
  <2>3. QED
    BY <2>1, <2>2 DEF Day, Span
<1>2. ASSUME NEW k, {k, k + 1} \subseteq DOMAIN First
      PROVE  Month(k) = Span(Date(First[k], 0), Date(First[k + 1], 0))
  <2>1. PICK f : f = [mode |-> "month", month |-> k]
    OBVIOUS
  <2>2. Period(f) = Span(Date(First[k], 0), Date(First[k + 1], 0))
    BY <1>2, <2>1, MonthPeriod
  <2>3. QED
    BY <2>1, <2>2 DEF Month
<1>3. \A n \in Days : Day(n).to = Day(n + 1).from
  <2>1. TAKE n \in Days
  <2>2. n \in Int /\ n + 1 \in Int
    BY CalendarAssumption
  <2>3. QED
    BY <1>1, <2>2
<1>4. \A k \in Months : Month(k) = Span(Day(First[k]).from, Day(First[k + 1] - 1).to)
  <2>1. TAKE k \in Months
  <2>2. k \in DOMAIN First /\ k + 1 \in DOMAIN First
    BY MonthOfDay DEF Months, InMonth
  <2>3. First[k] \in Int /\ First[k + 1] - 1 \in Int /\ First[k + 1] - 1 + 1 = First[k + 1]
    BY <2>2, MonthsAssumption
  <2>4. Day(First[k]).from = Date(First[k], 0)
    BY <1>1, <2>3
  <2>5. Day(First[k + 1] - 1).to = Date(First[k + 1], 0)
    BY <1>1, <2>3
  <2>6. QED
    BY <1>2, <2>2, <2>4, <2>5
<1>5. \A y \in Years : Year(y) = Span(Month(MonthsInYear * y).from, Month(MonthsInYear * (y + 1) - 1).to)
  <2>1. TAKE y \in Years
  <2>2. PICK n \in Days : y = MonthOf(n) \div MonthsInYear
    BY DEF Years, Months
  <2>3. PICK M : M = MonthsInYear
    OBVIOUS
  <2>4. PICK s : s = M * y
    OBVIOUS
  <2>5. y \in Int /\ s - M .. s + 2 * M \subseteq DOMAIN First
    BY <2>2, <2>3, <2>4, MonthsListed
  <2>6. M \in Nat \ {0} /\ s \in Int /\ M * (y + 1) - 1 = s + M - 1 /\ s + M - 1 + 1 = s + M
    BY <2>3, <2>4, <2>5, CalendarAssumption
  <2>7. {s, s + 1, s + M - 1, s + M} \subseteq DOMAIN First
    BY <2>5, <2>6
  <2>8. Year(y) = Span(Date(First[s], 0), Date(First[s + M], 0))
    <3>1. PICK f : f = [mode |-> "year", year |-> y]
      OBVIOUS
    <3>2. Period(f) = Span(Date(First[s], 0), Date(First[s + M], 0))
      BY <2>3, <2>4, <2>7, <3>1, YearPeriod
    <3>3. QED
      BY <3>1, <3>2 DEF Year
  <2>9. Month(s).from = Date(First[s], 0)
    BY <1>2, <2>7 DEF Span
  <2>10. Month(s + M - 1).to = Date(First[s + M], 0)
    BY <1>2, <2>6, <2>7 DEF Span
  <2>11. QED
    BY <2>3, <2>4, <2>6, <2>8, <2>9, <2>10
<1>6. QED
  BY <1>3, <1>4, <1>5 DEF PeriodsTile

(***************************************************************************)
(* The page.                                                               *)
(***************************************************************************)
Queries == [mode : Modes \cup {None}, day : Days \cup {None}, month : Months \cup {None},
            year : Years \cup {None}, from : Days \cup {None}, to : Days \cup {None}]

\* Today, and any time up to a day ago, is a day the filter may name.
LEMMA TodayKnown ==
  ASSUME ClockInv
  PROVE  /\ Today \in Days /\ FirstOf(Today) \in Days
         /\ \A d \in 0 .. Hours : DayOf(now - d) \in Days
<1>1. zone.before \in Int /\ zone.after \in Int /\ zone.at \in Int /\ now \in Int
  BY CalendarAssumption DEF ClockInv
<1>2. ASSUME NEW d \in 0 .. Hours
      PROVE  DayOf(now - d) \in Days
  <2>1. PICK o \in {zone.before, zone.after} : DayOf(now - d) = (now - d + o) \div 24
    BY DEF DayOf, Local, Offset, Hours
  <2>2. PICK n : n = (now + o) \div 24
    OBVIOUS
  <2>3. {n - 1, n} \subseteq Days
    BY <2>2, ClockAssumption DEF ClockInv
  <2>4. PICK m : m = (now - d + o) \div 24
    OBVIOUS
  <2>5. m \in {n - 1, n}
    <3>1. PICK t : t = now + o
      OBVIOUS
    <3>2. t \in Int /\ n = t \div 24 /\ m = (t - d) \div 24 /\ d \in 0 .. 24
      BY <1>1, <2>2, <2>4, <3>1 DEF Hours
    <3>3. QED
      BY <3>2
  <2>6. QED
    BY <2>1, <2>3, <2>4, <2>5
<1>3. FirstOf(Today) \in Days
  <2>1. PICK o \in {zone.before, zone.after} : Today = (now + o) \div 24
    BY DEF Today, DayOf, Local, Offset, Hours
  <2>2. PICK k \in DOMAIN First : InMonth(Today, k) /\ First[k] \in Days
    BY <2>1, ClockAssumption DEF ClockInv
  <2>3. Today \in Int
    BY <1>1, <2>1
  <2>4. QED
    BY <2>2, <2>3, OneMonth
<1>4. Today \in Days
  <2>1. 0 \in 0 .. Hours /\ now - 0 = now
    BY <1>1 DEF Hours
  <2>2. QED
    BY <1>2, <2>1 DEF Today
<1>5. QED
  BY <1>2, <1>3, <1>4

LEMMA DefaultsKnown ==
  ASSUME ClockInv, MidnightsKept
  PROVE  DefaultFilter(now) \in Filters
<1>1. PICK n : n = DayOf(now)
  OBVIOUS
<1>2. n \in Days /\ FirstOf(n) \in Days /\ FirstOf(n) \in Int
  BY <1>1, TodayKnown, CalendarAssumption DEF Today
<1>3. DayOf(Date(FirstOf(n), 0)) = FirstOf(n)
  BY <1>2, MidnightStarts DEF ClockInv
<1>4. MonthOf(n) \in Months /\ MonthOf(n) \div MonthsInYear \in Years
  BY <1>2 DEF Months, Years
<1>5. DefaultFilter(now) = [mode |-> "month", day |-> n, month |-> MonthOf(n), year |-> MonthOf(n) \div MonthsInYear,
                            from |-> FirstOf(n), to |-> n]
  BY <1>1, <1>3 DEF DefaultFilter
<1>6. QED
  BY <1>2, <1>4, <1>5 DEF Filters, Modes, Reads

LEMMA FilterKnown ==
  ASSUME ClockInv, MidnightsKept, NEW s \in Queries
  PROVE  Filter(s) \in Filters
<1>1. PICK g : g = DefaultFilter(now) /\ g \in Filters
  BY DefaultsKnown
<1>2. Filter(s) = [x \in DOMAIN s |-> IF s[x] = None THEN g[x] ELSE s[x]]
  BY <1>1 DEF Filter
<1>3. DOMAIN s = {"mode", "day", "month", "year", "from", "to"}
  BY DEF Queries
<1>4. PICK f : f = Filter(s)
  OBVIOUS
<1>5. f = [mode |-> f.mode, day |-> f.day, month |-> f.month, year |-> f.year, from |-> f.from, to |-> f.to]
  BY <1>2, <1>3, <1>4
<1>6. f.mode \in Modes /\ f.day \in Days /\ f.month \in Months /\ f.year \in Years /\ f.from \in Days /\ f.to \in Days
  BY <1>1, <1>2, <1>3, <1>4 DEF Queries, Filters
<1>7. QED
  BY <1>4, <1>5, <1>6 DEF Filters

LEMMA QueryKnown ==
  ASSUME NEW f \in Filters
  PROVE  HistoryQuery(f) \in Queries
<1>1. DOMAIN f = {"mode", "day", "month", "year", "from", "to"}
  BY DEF Filters
<1>2. PICK u : u = HistoryQuery(f)
  OBVIOUS
<1>3. /\ u = [mode |-> u.mode, day |-> u.day, month |-> u.month, year |-> u.year, from |-> u.from, to |-> u.to]
      /\ \A x \in DOMAIN f : u[x] \in {f[x], None}
  BY <1>1, <1>2 DEF HistoryQuery
<1>4. u.mode \in {f.mode, None} /\ u.day \in {f.day, None} /\ u.month \in {f.month, None}
      /\ u.year \in {f.year, None} /\ u.from \in {f.from, None} /\ u.to \in {f.to, None}
  BY <1>1, <1>3
<1>5. QED
  BY <1>2, <1>3, <1>4 DEF Filters, Queries

\* A period that is one goes on for some time.
LEMMA PeriodGoesOn ==
  ASSUME zone \in Zones, MidnightsKept, NEW f \in Filters, Period(f) # None
  PROVE  Period(f).from < Period(f).to
<1>1. f \in Filled
  BY FiltersAreFilled
<1>2. CASE f.mode = "day"
  <2>1. PICK n \in Int : n = f.day
    BY <1>1 DEF Filled
  <2>2. Period(f) = Span(Date(n, 0), Date(n + 1, 0))
    BY <1>2, <2>1, DayPeriod
  <2>3. n + 1 \in Int /\ n < n + 1
    OBVIOUS
  <2>4. Date(n, 0) < Date(n + 1, 0)
    BY <2>3, MidnightsRise
  <2>5. QED
    BY <2>2, <2>4 DEF Span
<1>3. CASE f.mode = "month"
  <2>1. PICK k : k = f.month /\ {k, k + 1} \subseteq DOMAIN First
    BY MonthOfDay DEF Filters, Months, InMonth
  <2>2. Period(f) = Span(Date(First[k], 0), Date(First[k + 1], 0))
    BY <1>3, <2>1, MonthPeriod
  <2>3. First[k] \in Int /\ First[k + 1] \in Int /\ First[k] < First[k + 1]
    BY <2>1, MonthsAssumption
  <2>4. Date(First[k], 0) < Date(First[k + 1], 0)
    BY <2>3, MidnightsRise
  <2>5. QED
    BY <2>2, <2>4 DEF Span
<1>4. CASE f.mode = "year"
  <2>1. PICK n \in Days : f.year = MonthOf(n) \div MonthsInYear
    BY DEF Filters, Years, Months
  <2>2. PICK s, M : M = MonthsInYear /\ s = M * f.year
    OBVIOUS
  <2>3. s - M .. s + 2 * M \subseteq DOMAIN First /\ M \in Nat \ {0} /\ s \in Int
    BY <1>1, <2>1, <2>2, MonthsListed, CalendarAssumption DEF Filled
  <2>4. {s, s + 1, s + M} \subseteq DOMAIN First /\ s < s + M
    BY <2>3
  <2>5. Period(f) = Span(Date(First[s], 0), Date(First[s + M], 0))
    BY <1>4, <2>2, <2>4, YearPeriod
  <2>6. First[s] \in Int /\ First[s + M] \in Int /\ First[s] < First[s + M]
    BY <2>4, MonthsAssumption
  <2>7. Date(First[s], 0) < Date(First[s + M], 0)
    BY <2>6, MidnightsRise
  <2>8. QED
    BY <2>5, <2>7 DEF Span
<1>5. CASE f.mode = "range"
  <2>1. PICK a, b \in Int : a = f.from /\ b = f.to
    BY <1>1 DEF Filled
  <2>2. Period(f) = IF b < a THEN None ELSE Span(Date(a, 0), Date(b + 1, 0))
    BY <1>5, <2>1, RangePeriod
  <2>3. a < b + 1 /\ b + 1 \in Int
    BY <2>2
  <2>4. Date(a, 0) < Date(b + 1, 0)
    BY <2>3, MidnightsRise
  <2>5. QED
    BY <2>2, <2>4 DEF Span
<1>6. QED
  BY <1>1, <1>2, <1>3, <1>4, <1>5 DEF Filled, Modes, Reads

\* What ShiftsMeet asks of a filter.
Meets(f) ==
  LET p == Period(f)
  IN p # None => /\ Period(Shift(f, 1)).from = p.to
                 /\ Period(Shift(f, -1)).to = p.from
                 /\ \A n \in {-1, 1} : Shift(Shift(f, n), -n) = f

LEMMA DayShifts ==
  ASSUME zone \in Zones, MidnightsKept, NEW f \in Filled, f.mode = "day"
  PROVE  Meets(f)
<1>1. ASSUME NEW g \in Filled, g.mode = "day"
      PROVE  Period(g) = Span(Date(g.day, 0), Date(g.day + 1, 0))
  BY <1>1, DayPeriod DEF Filled
<1>2. ASSUME NEW n \in {-1, 1}
      PROVE  Shift(f, n) = [f EXCEPT !.day = f.day + n] /\ Shift(Shift(f, n), -n) = f
  <2>1. Midnight(f.day) /\ Midnight(f.day + n)
    BY MidnightStarts DEF Filled
  <2>2. QED
    BY <2>1, DayStepsReturn
<1>3. ASSUME NEW n \in {-1, 1}
      PROVE  Period(Shift(f, n)) = Span(Date(f.day + n, 0), Date(f.day + n + 1, 0))
  <2>1. PICK g : g = [f EXCEPT !.day = f.day + n]
    OBVIOUS
  <2>2. g \in Filled /\ g.mode = "day" /\ g.day = f.day + n
    BY <2>1 DEF Filled
  <2>3. QED
    BY <1>1, <1>2, <2>1, <2>2
<1>4. Period(Shift(f, 1)).from = Date(f.day + 1, 0)
  BY <1>3 DEF Span
<1>5. Period(Shift(f, -1)).to = Date(f.day, 0)
  <2>1. f.day + -1 + 1 = f.day
    BY DEF Filled
  <2>2. QED
    BY <1>3, <2>1 DEF Span
<1>6. Period(f).from = Date(f.day, 0) /\ Period(f).to = Date(f.day + 1, 0)
  BY <1>1 DEF Span
<1>7. QED
  BY <1>2, <1>4, <1>5, <1>6 DEF Meets

LEMMA MonthShifts ==
  ASSUME zone \in Zones, MidnightsKept, NEW f \in Filled, f.mode = "month", f.month - 1 .. f.month + 2 \subseteq DOMAIN First
  PROVE  Meets(f)
<1>1. PICK k \in Int : k = f.month
  BY DEF Filled
<1>2. {k - 1, k, k + 1, k + 2} \subseteq DOMAIN First
  BY <1>1
<1>3. ASSUME NEW g \in Filled, g.mode = "month", {g.month, g.month + 1} \subseteq DOMAIN First
      PROVE  Period(g) = Span(Date(First[g.month], 0), Date(First[g.month + 1], 0))
  BY <1>3, MonthPeriod
<1>4. ASSUME NEW g \in Filled, g.mode = "month", NEW n \in {-1, 1},
             {g.month, g.month + 1, g.month + n, g.month + n + 1} \subseteq DOMAIN First
      PROVE  Shift(g, n) = [g EXCEPT !.month = g.month + n]
  <2>1. PICK j : j = g.month
    OBVIOUS
  <2>2. Period(g).from = Date(First[j], 0)
    BY <1>3, <1>4, <2>1 DEF Span
  <2>3. n \in Int
    OBVIOUS
  <2>4. AddMonths(Date(First[j], 0), n) = Date(First[j + n], 0)
    BY <1>4, <2>1, <2>3, MonthsCount
  <2>5. PICK a : a = First[j + n]
    OBVIOUS
  <2>6. a \in Int /\ InMonth(a, j + n)
    BY <1>4, <2>1, <2>3, <2>5, MonthsAssumption DEF InMonth, Filled
  <2>7. DayOf(Date(a, 0)) = a /\ MonthOf(a) = j + n
    BY <2>6, MidnightStarts, OneMonth
  <2>8. QED
    BY <1>4, <2>1, <2>2, <2>4, <2>5, <2>7 DEF Shift
<1>5. ASSUME NEW n \in {-1, 1}
      PROVE  /\ Period(Shift(f, n)) = Span(Date(First[k + n], 0), Date(First[k + n + 1], 0))
             /\ Shift(Shift(f, n), -n) = f
  <2>1. PICK g : g = [f EXCEPT !.month = k + n]
    OBVIOUS
  <2>2. g \in Filled /\ g.mode = "month" /\ g.month = k + n
    BY <2>1 DEF Filled
  <2>3. {k, k + 1, k + n, k + n + 1} \subseteq DOMAIN First /\ k + n + -n = k /\ k + n + -n + 1 = k + 1
    BY <1>1, <1>2
  <2>4. Shift(f, n) = g
    BY <1>1, <1>4, <2>1, <2>3
  <2>5. -n \in {-1, 1}
    OBVIOUS
  <2>6. Shift(g, -n) = [g EXCEPT !.month = k]
    <3>1. PICK m \in {-1, 1} : m = -n
      BY <2>5
    <3>2. {g.month, g.month + 1, g.month + m, g.month + m + 1} \subseteq DOMAIN First /\ g.month + m = k
      BY <2>2, <2>3, <3>1
    <3>3. QED
      BY <1>4, <2>2, <3>1, <3>2
  <2>7. [g EXCEPT !.month = k] = f
    BY <1>1, <2>1 DEF Filled
  <2>8. Period(g) = Span(Date(First[k + n], 0), Date(First[k + n + 1], 0))
    BY <1>3, <2>2, <2>3
  <2>9. QED
    BY <2>4, <2>6, <2>7, <2>8
<1>6. Period(f) = Span(Date(First[k], 0), Date(First[k + 1], 0))
  BY <1>1, <1>2, <1>3
<1>7. Period(Shift(f, 1)).from = Date(First[k + 1], 0)
  BY <1>5 DEF Span
<1>8. Period(Shift(f, -1)).to = Date(First[k], 0)
  <2>1. k + -1 + 1 = k
    OBVIOUS
  <2>2. QED
    BY <1>5, <2>1 DEF Span
<1>9. QED
  BY <1>5, <1>6, <1>7, <1>8 DEF Meets, Span

LEMMA YearShifts ==
  ASSUME zone \in Zones, MidnightsKept, NEW f \in Filled, f.mode = "year", NEW M, M = MonthsInYear,
         NEW s, s = M * f.year, s - M .. s + 2 * M \subseteq DOMAIN First
  PROVE  Meets(f)
<1>1. PICK y \in Int : y = f.year
  BY DEF Filled
<1>2. M \in Nat \ {0} /\ s \in Int
  BY <1>1, CalendarAssumption
<1>3. {s - M, s - M + 1, s, s + 1, s + M, s + M + 1, s + 2 * M} \subseteq DOMAIN First
  BY <1>2
<1>4. ASSUME NEW g \in Filled, g.mode = "year", NEW r, r = M * g.year, {r, r + 1, r + M} \subseteq DOMAIN First
      PROVE  Period(g) = Span(Date(First[r], 0), Date(First[r + M], 0))
  BY <1>4, YearPeriod
<1>5. ASSUME NEW g \in Filled, g.mode = "year", NEW n \in {-1, 1}, NEW r \in Int, r = M * g.year,
             {r, r + 1, r + M, r + n * M, r + n * M + 1} \subseteq DOMAIN First
      PROVE  Shift(g, n) = [g EXCEPT !.year = g.year + n]
  <2>1. Period(g).from = Date(First[r], 0)
    BY <1>4, <1>5 DEF Span
  <2>2. PICK m \in Int : m = n * M
    BY <1>2
  <2>3. AddMonths(Date(First[r], 0), m) = Date(First[r + m], 0)
    BY <1>5, <2>2, MonthsCount
  <2>4. PICK a : a = First[r + m]
    OBVIOUS
  <2>5. a \in Int /\ InMonth(a, r + m)
    BY <1>5, <2>2, <2>4, MonthsAssumption DEF InMonth
  <2>6. DayOf(Date(a, 0)) = a /\ MonthOf(a) = r + m
    BY <2>5, MidnightStarts, OneMonth
  <2>7. (r + m) \div M = g.year + n
    <3>1. PICK j \in Int : j = g.year
      BY <1>5 DEF Filled
    <3>2. r + m = M * (j + n)
      BY <1>2, <1>5, <2>2, <3>1
    <3>3. j + n \in Int /\ (M * (j + n)) \div M = j + n
      BY <1>2
    <3>4. QED
      BY <3>1, <3>2, <3>3
  <2>8. QED
    BY <1>5, <2>1, <2>2, <2>3, <2>4, <2>6, <2>7 DEF Shift
<1>6. ASSUME NEW n \in {-1, 1}
      PROVE  /\ Period(Shift(f, n)) = Span(Date(First[s + n * M], 0), Date(First[s + n * M + M], 0))
             /\ Shift(Shift(f, n), -n) = f
  <2>1. PICK g : g = [f EXCEPT !.year = y + n]
    OBVIOUS
  <2>2. g \in Filled /\ g.mode = "year" /\ g.year = y + n
    BY <2>1 DEF Filled
  <2>3. PICK r \in Int : r = s + n * M
    BY <1>2
  <2>4. M * (y + n) = r
    BY <1>1, <1>2, <2>3
  <2>5. /\ {s, s + 1, s + M, r, r + 1, r + M} \subseteq DOMAIN First
        /\ r + (-n) * M = s
    BY <1>2, <1>3, <2>3
  <2>6. Shift(f, n) = g
    BY <1>1, <1>2, <1>5, <2>1, <2>3, <2>5
  <2>7. Shift(g, -n) = [g EXCEPT !.year = y]
    <3>1. PICK m \in {-1, 1} : m = -n
      OBVIOUS
    <3>2. {r, r + 1, r + M, r + m * M, r + m * M + 1} \subseteq DOMAIN First /\ g.year + m = y /\ r = M * g.year
      BY <2>2, <2>4, <2>5, <3>1
    <3>3. QED
      BY <1>5, <2>2, <3>1, <3>2
  <2>8. [g EXCEPT !.year = y] = f
    BY <1>1, <2>1 DEF Filled
  <2>9. Period(g) = Span(Date(First[r], 0), Date(First[r + M], 0))
    BY <1>4, <2>2, <2>4, <2>5
  <2>10. QED
    BY <2>3, <2>6, <2>7, <2>8, <2>9
<1>7. Period(f) = Span(Date(First[s], 0), Date(First[s + M], 0))
  BY <1>3, <1>4
<1>8. Period(Shift(f, 1)).from = Date(First[s + M], 0)
  <2>1. s + 1 * M = s + M
    BY <1>2
  <2>2. QED
    BY <1>6, <2>1 DEF Span
<1>9. Period(Shift(f, -1)).to = Date(First[s], 0)
  <2>1. s + (-1) * M + M = s
    BY <1>2
  <2>2. QED
    BY <1>6, <2>1 DEF Span
<1>10. QED
  BY <1>6, <1>7, <1>8, <1>9 DEF Meets, Span

LEMMA RangeShifts ==
  ASSUME zone \in Zones, MidnightsKept, NEW f \in Filled, f.mode = "range"
  PROVE  Meets(f)
<1>1. ASSUME NEW g \in Filled, g.mode = "range"
      PROVE  Period(g) = IF g.to < g.from THEN None ELSE Span(Date(g.from, 0), Date(g.to + 1, 0))
  BY <1>1, RangePeriod DEF Filled
<1>2. PICK a, b \in Int : a = f.from /\ b = f.to
  BY DEF Filled
<1>3. SUFFICES ASSUME a <= b
               PROVE  Meets(f)
  BY <1>1, <1>2 DEF Meets
<1>4. PICK w \in Int : w = b + 1 - a
  OBVIOUS
<1>5. ASSUME NEW g \in Filled, g.mode = "range", NEW n \in {-1, 1}, g.to + 1 - g.from = w
      PROVE  Shift(g, n) = [g EXCEPT !.from = g.from + n * w, !.to = g.to + n * w]
  <2>1. PICK c, d \in Int : c = g.from /\ d = g.to
    BY DEF Filled
  <2>2. Period(g) = Span(Date(c, 0), Date(d + 1, 0))
    BY <1>1, <1>3, <1>4, <1>5, <2>1
  <2>3. d + 1 \in Int /\ c <= d + 1 /\ d + 1 - c = w
    BY <1>3, <1>4, <1>5, <2>1
  <2>4. WholeDays(Period(g)) = w
    BY <2>2, <2>3, DaysAreWhole
  <2>5. Period(g).from = Date(c, 0) /\ Period(g).to = Date(d + 1, 0)
    BY <2>2 DEF Span
  <2>6. DayOf(AddDays(Date(c, 0), n * w)) = c + n * w
    <3>1. n * w \in Int
      OBVIOUS
    <3>2. QED
      BY <3>1, MidnightsCount
  <2>7. DayOf(AddDays(Date(d + 1, 0), n * w - 1)) = d + n * w
    <3>1. n * w - 1 \in Int /\ d + 1 + (n * w - 1) = d + n * w
      OBVIOUS
    <3>2. QED
      BY <2>3, <3>1, MidnightsCount
  <2>8. QED
    BY <1>5, <2>1, <2>4, <2>5, <2>6, <2>7 DEF Shift
<1>6. ASSUME NEW n \in {-1, 1}
      PROVE  /\ Period(Shift(f, n)) = Span(Date(a + n * w, 0), Date(b + n * w + 1, 0))
             /\ Shift(Shift(f, n), -n) = f
  <2>1. PICK s \in Int : s = n * w
    OBVIOUS
  <2>2. PICK g : g = [f EXCEPT !.from = a + s, !.to = b + s]
    OBVIOUS
  <2>3. g \in Filled /\ g.mode = "range" /\ g.from = a + s /\ g.to = b + s
    <3>1. PICK c, d \in Int : c = a + s /\ d = b + s
      OBVIOUS
    <3>2. [f EXCEPT !.from = c, !.to = d] \in Filled
      BY DEF Filled
    <3>3. QED
      BY <2>2, <3>1, <3>2 DEF Filled
  <2>4. Shift(f, n) = g
    <3>1. f.to + 1 - f.from = w
      BY <1>2, <1>4
    <3>2. Shift(f, n) = [f EXCEPT !.from = f.from + n * w, !.to = f.to + n * w]
      BY <1>5, <3>1
    <3>3. QED
      BY <1>2, <2>1, <2>2, <3>2
  <2>5. Shift(g, -n) = [g EXCEPT !.from = a, !.to = b]
    <3>1. PICK m \in {-1, 1} : m = -n
      OBVIOUS
    <3>2. a + s + m * w = a /\ b + s + m * w = b /\ g.to + 1 - g.from = w
      BY <1>4, <2>1, <2>3, <3>1
    <3>3. Shift(g, m) = [g EXCEPT !.from = g.from + m * w, !.to = g.to + m * w]
      BY <1>5, <2>3, <3>2
    <3>4. QED
      BY <2>3, <3>1, <3>2, <3>3
  <2>6. [g EXCEPT !.from = a, !.to = b] = f
    BY <1>2, <2>2 DEF Filled
  <2>7. Period(g) = Span(Date(a + s, 0), Date(b + s + 1, 0))
    BY <1>1, <1>3, <2>3
  <2>8. QED
    BY <2>1, <2>4, <2>5, <2>6, <2>7
<1>7. Period(f) = Span(Date(a, 0), Date(b + 1, 0))
  BY <1>1, <1>2, <1>3
<1>8. Period(Shift(f, 1)).from = Date(b + 1, 0)
  <2>1. a + 1 * w = b + 1
    BY <1>4
  <2>2. QED
    BY <1>6, <2>1 DEF Span
<1>9. Period(Shift(f, -1)).to = Date(a, 0)
  <2>1. b + (-1) * w + 1 = a
    BY <1>4
  <2>2. QED
    BY <1>6, <2>1 DEF Span
<1>10. QED
  BY <1>6, <1>7, <1>8, <1>9 DEF Meets, Span

\* Every filter with its fields among those the page offers.
LEMMA FiltersMeet ==
  ASSUME zone \in Zones, MidnightsKept, NEW f \in Filters
  PROVE  Meets(f)
<1>1. f \in Filled
  BY FiltersAreFilled
<1>2. CASE f.mode = "day"
  BY <1>1, <1>2, DayShifts
<1>3. CASE f.mode = "month"
  <2>1. PICK n \in Days : f.month = MonthOf(n)
    BY DEF Filters, Months
  <2>2. PICK k, y, M, s : k = f.month /\ M = MonthsInYear /\ y = k \div M /\ s = M * y
    OBVIOUS
  <2>3. k \in Int /\ y \in Int /\ s <= k /\ k < s + M /\ s - M .. s + 2 * M \subseteq DOMAIN First
    BY <2>1, <2>2, MonthsListed
  <2>4. M \in Nat \ {0} /\ s \in Int
    BY <2>2, <2>3, CalendarAssumption
  <2>5. k - 1 .. k + 2 \subseteq DOMAIN First
    <3>1. k - 1 .. k + 2 \subseteq s - M .. s + 2 * M
      BY <2>3, <2>4
    <3>2. QED
      BY <2>3, <3>1
  <2>6. QED
    BY <1>1, <1>3, <2>2, <2>5, MonthShifts
<1>4. CASE f.mode = "year"
  <2>1. PICK n \in Days : f.year = MonthOf(n) \div MonthsInYear
    BY DEF Filters, Years, Months
  <2>2. PICK M, s : M = MonthsInYear /\ s = M * f.year
    OBVIOUS
  <2>3. s - M .. s + 2 * M \subseteq DOMAIN First
    BY <2>1, <2>2, MonthsListed
  <2>4. QED
    BY <1>1, <1>4, <2>2, <2>3, YearShifts
<1>5. CASE f.mode = "range"
  BY <1>1, <1>5, RangeShifts
<1>6. QED
  BY <1>1, <1>2, <1>3, <1>4, <1>5 DEF Filled, Modes, Reads

\* What PresetsHoldNow asks of a quick period.
Holds(name, f) ==
  LET p == Period(f)
  IN IF name = "last-month" THEN p.to = Month(MonthOf(DayOf(now))).from
     ELSE /\ p.from <= now /\ now < p.to
          /\ name = "week" => f.from % 7 = 0 /\ f.to = f.from + 6

LEMMA PresetsHold ==
  ASSUME ClockInv, MidnightsKept, NEW f \in Filters, NEW name \in Presets
  PROVE  Holds(name, PresetFilter(name, f))
<1>1. zone \in Zones /\ now \in Int
  BY CalendarAssumption DEF ClockInv
<1>2. PICK n : n = DayOf(now)
  OBVIOUS
<1>3. n \in Days /\ n \in Int
  BY <1>2, TodayKnown, CalendarAssumption DEF Today
<1>4. ASSUME NEW m \in Int
      PROVE  m <= n <=> Date(m, 0) <= now
  BY <1>1, <1>2, MidnightStarts
<1>5. ASSUME NEW m \in Int, n < m
      PROVE  now < Date(m, 0)
  <2>1. Date(m, 0) \in Int /\ ~(m <= n)
    BY <1>1, <1>3, <1>5, MidnightStarts
  <2>2. QED
    BY <1>1, <1>4, <2>1
<1>6. PICK k, M, y, s : k = MonthOf(n) /\ M = MonthsInYear /\ y = k \div M /\ s = M * y
  OBVIOUS
<1>7. k \in Int /\ y \in Int /\ s <= k /\ k < s + M /\ s - M .. s + 2 * M \subseteq DOMAIN First
  BY <1>3, <1>6, MonthsListed
<1>8. M \in Nat \ {0} /\ s \in Int
  BY <1>6, <1>7, CalendarAssumption
<1>9. {k - 1, k, k + 1, s, s + 1, s + M} \subseteq DOMAIN First
  BY <1>7, <1>8
<1>10. /\ \A i \in DOMAIN First : First[i] \in Int
       /\ \A i, j \in DOMAIN First : i < j => First[i] < First[j]
  BY MonthsAssumption
<1>11. First[k] <= n /\ n < First[k + 1]
  BY <1>3, <1>6, MonthOfDay DEF InMonth
<1>12. ASSUME NEW g, g.mode = "month", {g.month, g.month + 1} \subseteq DOMAIN First
       PROVE  Period(g).from = Date(First[g.month], 0) /\ Period(g).to = Date(First[g.month + 1], 0)
  BY <1>1, <1>12, MonthPeriod DEF Span
<1>13. CASE name = "today"
  <2>1. PICK g : g = PresetFilter(name, f)
    OBVIOUS
  <2>2. g.mode = "day" /\ g.day = n
    BY <1>2, <1>13, <2>1 DEF PresetFilter, Filters
  <2>3. Period(g).from = Date(n, 0) /\ Period(g).to = Date(n + 1, 0)
    BY <1>1, <1>3, <2>2, DayPeriod DEF Span
  <2>4. n + 1 \in Int /\ n < n + 1 /\ n <= n
    BY <1>3
  <2>5. Date(n, 0) <= now /\ now < Date(n + 1, 0)
    BY <1>3, <1>4, <1>5, <2>4
  <2>6. QED
    BY <1>13, <2>1, <2>3, <2>5 DEF Holds
<1>14. CASE name = "month"
  <2>1. PICK g : g = PresetFilter(name, f)
    OBVIOUS
  <2>2. g.mode = "month" /\ g.month = k
    BY <1>2, <1>6, <1>14, <2>1 DEF PresetFilter, Filters
  <2>3. Period(g).from = Date(First[k], 0) /\ Period(g).to = Date(First[k + 1], 0)
    BY <1>9, <1>12, <2>2
  <2>4. Date(First[k], 0) <= now /\ now < Date(First[k + 1], 0)
    BY <1>4, <1>5, <1>9, <1>10, <1>11
  <2>5. QED
    BY <1>14, <2>1, <2>3, <2>4 DEF Holds
<1>15. CASE name = "last-month"
  <2>1. PICK g : g = PresetFilter(name, f)
    OBVIOUS
  <2>2. LastMonth = k - 1
    <3>1. FirstOf(DayOf(now)) = First[k]
      BY <1>2, <1>6 DEF FirstOf
    <3>2. {k, k + 1, k + -1} \subseteq DOMAIN First /\ -1 \in Int /\ k + -1 = k - 1
      BY <1>7, <1>9
    <3>3. AddMonths(Date(First[k], 0), -1) = Date(First[k - 1], 0)
      BY <1>1, <3>2, MonthsCount
    <3>4. PICK a : a = First[k - 1]
      OBVIOUS
    <3>5. a \in Int /\ InMonth(a, k - 1)
      <4>1. k - 1 + 1 = k /\ k - 1 < k
        BY <1>7
      <4>2. QED
        BY <1>9, <1>10, <3>4, <4>1 DEF InMonth
    <3>6. DayOf(Date(a, 0)) = a /\ MonthOf(a) = k - 1
      BY <1>1, <3>5, MidnightStarts, OneMonth
    <3>7. QED
      BY <3>1, <3>3, <3>4, <3>6 DEF LastMonth
  <2>3. g.mode = "month" /\ g.month = k - 1 /\ k - 1 + 1 = k
    <3>1. g = [f EXCEPT !.mode = "month", !.month = LastMonth]
      BY <1>15, <2>1 DEF PresetFilter
    <3>2. g.mode = "month" /\ g.month = LastMonth
      BY <3>1 DEF Filters
    <3>3. QED
      BY <1>7, <2>2, <3>2
  <2>4. Period(g).to = Date(First[k], 0)
    BY <1>9, <1>12, <2>3
  <2>5. Month(k).from = Date(First[k], 0)
    <3>1. PICK h : h = [mode |-> "month", month |-> k]
      OBVIOUS
    <3>2. QED
      BY <1>9, <1>12, <3>1 DEF Month
  <2>6. QED
    BY <1>2, <1>6, <1>15, <2>1, <2>4, <2>5 DEF Holds
<1>16. CASE name = "year"
  <2>1. PICK g : g = PresetFilter(name, f)
    OBVIOUS
  <2>2. g.mode = "year" /\ g.year = y
    BY <1>2, <1>6, <1>16, <2>1 DEF PresetFilter, Filters
  <2>3. Period(g).from = Date(First[s], 0) /\ Period(g).to = Date(First[s + M], 0)
    BY <1>1, <1>6, <1>9, <2>2, YearPeriod DEF Span
  <2>4. First[s] <= n /\ n < First[s + M]
    BY <1>3, <1>7, <1>8, <1>9, <1>10, <1>11
  <2>5. Date(First[s], 0) <= now /\ now < Date(First[s + M], 0)
    BY <1>4, <1>5, <1>9, <1>10, <2>4
  <2>6. QED
    BY <1>16, <2>1, <2>3, <2>5 DEF Holds
<1>17. CASE name = "week"
  <2>1. PICK g : g = PresetFilter(name, f)
    OBVIOUS
  <2>2. PICK w \in Int : w = n - (n % 7)
    BY <1>3
  <2>3. w % 7 = 0 /\ w <= n /\ n < w + 7 /\ n + -(n % 7) = w
    BY <1>3, <2>2
  <2>4. ASSUME NEW t \in Int, NEW d \in Int
        PROVE  AddDays(t, d) \in Int /\ DayOf(AddDays(t, d)) = DayOf(t) + d
    <3>1. DayOf(t) + d \in Int /\ HourOf(t) \in 0 .. Hours - 1
      BY <1>1, DaysAreNumbers
    <3>2. QED
      BY <1>1, <3>1, HoursStay DEF AddDays
  <2>5. Monday \in Int /\ DayOf(Monday) = w
    <3>1. -(n % 7) \in Int
      BY <1>3
    <3>2. QED
      BY <1>1, <1>2, <2>3, <2>4, <3>1 DEF Monday
  <2>6. DayOf(AddDays(Monday, 6)) = w + 6
    BY <2>4, <2>5
  <2>7. g.mode = "range" /\ g.from = w /\ g.to = w + 6
    BY <1>17, <2>1, <2>5, <2>6 DEF PresetFilter, Filters
  <2>8. Period(g).from = Date(w, 0) /\ Period(g).to = Date(w + 7, 0)
    <3>1. g.from \in Int /\ g.to \in Int /\ ~(g.to < g.from) /\ g.to + 1 = w + 7
      BY <2>7
    <3>2. Period(g) = Span(Date(g.from, 0), Date(g.to + 1, 0))
      BY <1>1, <2>7, <3>1, RangePeriod
    <3>3. QED
      BY <2>7, <3>1, <3>2 DEF Span
  <2>9. Date(w, 0) <= now /\ now < Date(w + 7, 0)
    <3>1. w + 7 \in Int
      OBVIOUS
    <3>2. QED
      BY <1>4, <1>5, <2>3, <3>1
  <2>10. QED
    BY <1>17, <2>1, <2>3, <2>7, <2>8, <2>9 DEF Holds
<1>18. QED
  BY <1>13, <1>14, <1>15, <1>16, <1>17 DEF Presets

(***************************************************************************)
(* The theorems where midnights are kept.                                  *)
(***************************************************************************)
\* What the page, its dialog and its notice keep.
PageInv ==
  /\ sig \in Signals /\ url \in Queries
  /\ shown # None => shown.from < shown.to
  /\ dialog \in Days \cup {None}
  /\ pending # None => DayOf(pending.start) \in Days
  /\ notice # None => notice.day \in Days
  /\ screen \in {"history", "timers"}
  /\ sought # None => /\ screen = "history" /\ sought \in Int
                      /\ url.mode = "day" /\ url.day = DayOf(sought)

LEMMA AnswerShows ==
  ASSUME ClockInv, MidnightsKept, NEW f, NEW s, Answer(f, s)
  PROVE  sig' \in Signals /\ url' \in Queries /\ (shown' # None => shown'.from < shown'.to)
<1>1. f \in Filters /\ sig' \in Signals /\ url' = HistoryQuery(f) /\ shown' = Period(f)
  BY DEF Answer
<1>2. Period(f) # None => Period(f).from < Period(f).to
  BY <1>1, PeriodGoesOn DEF ClockInv
<1>3. QED
  BY <1>1, <1>2, QueryKnown

LEMMA RenderShows ==
  ASSUME ClockInv, MidnightsKept, NEW q \in Queries, Render(q)
  PROVE  sig' \in Signals /\ url' \in Queries /\ (shown' # None => shown'.from < shown'.to)
<1>1. Filter(q) \in Filters
  BY FilterKnown
<1>2. Filters \subseteq Signals
  BY DEF Filters, Signals
<1>3. Period(Filter(q)) # None => Period(Filter(q)).from < Period(Filter(q)).to
  BY <1>1, PeriodGoesOn DEF ClockInv
<1>4. QED
  BY <1>1, <1>2, <1>3 DEF Render

\* An entry on its way begins on a day the filter may name.
LEMMA PostLogDay ==
  ASSUME LogInv, MidnightsKept, dialog \in Days \cup {None}, NEW x \in Lengths,
         NEW date \in {dialog, None, Bad} \cup Days, NEW at \in Starts \cup {None, Bad}, PostLog(x, date, at)
  PROVE  DayOf(pending'.start) \in Days
<1>1. PICK d, start : d = ParseDuration(x) /\ start = LogStart(date, at, d)
  OBVIOUS
<1>2. dialog # None /\ d > 0 /\ start # None /\ pending'.start = start
  BY <1>1 DEF PostLog
<1>3. PICK day : day = IF date = None THEN Today ELSE date
  OBVIOUS
<1>4. d \in 0 .. Hours
  BY <1>1, <1>2, LengthIsMeant DEF MaxLogged, Hours
<1>5. start = CASE day = Bad \/ at = Bad -> None
                [] at = None -> IF day = Today THEN now - d ELSE None
                [] OTHER -> Date(day, at)
  BY <1>1, <1>3 DEF LogStart
<1>6. day # Bad /\ at # Bad
  <2>1. CASE day = Bad \/ at = Bad
    <3>1. Today \in Int
      BY TodayKnown, CalendarAssumption DEF LogInv
    <3>2. start = None
      BY <1>5, <2>1, <3>1, LogAssumption
    <3>3. QED
      BY <1>2, <3>2
  <2>2. QED
    BY <2>1
<1>7. CASE at = None
  <2>1. start = IF day = Today THEN now - d ELSE None
    BY <1>5, <1>6, <1>7
  <2>2. QED
    BY <1>2, <1>4, <2>1, TodayKnown DEF LogInv
<1>8. CASE at # None
  <2>1. start = Date(day, at)
    BY <1>5, <1>6, <1>8
  <2>2. day \in Days
    BY <1>2, <1>3, <1>6, TodayKnown DEF LogInv
  <2>3. at \in 0 .. Hours - 1
    BY <1>6, <1>8, LogAssumption
  <2>4. DayOf(Date(day, at)) = day
    BY <2>2, <2>3, HoursStay, CalendarAssumption DEF LogInv, ClockInv
  <2>5. QED
    BY <1>2, <2>1, <2>2, <2>4
<1>9. QED
  BY <1>7, <1>8

LEMMA PageInvInit ==
  ASSUME LogInit, MidnightsKept
  PROVE  PageInv
<1>1. ClockInv
  BY DEF LogInit, Init, ClockInv
<1>2. BlankQuery \in Queries
  BY DEF BlankQuery, Queries
<1>3. Filter(BlankQuery) \in Filters
  BY <1>1, <1>2, FilterKnown
<1>4. Filters \subseteq Signals
  BY DEF Filters, Signals
<1>5. Period(Filter(BlankQuery)) # None => Period(Filter(BlankQuery)).from < Period(Filter(BlankQuery)).to
  BY <1>1, <1>3, PeriodGoesOn DEF ClockInv
<1>6. QED
  BY <1>2, <1>3, <1>4, <1>5 DEF LogInit, Init, PageInv

\* Steps that leave the page as it is.
LEMMA PageStays ==
  ASSUME PageInv, zone' = zone, url' = url, sig' = sig, shown' = shown, screen' = screen, sought' = sought,
         dialog' \in Days \cup {None}, pending' # None => DayOf(pending'.start) \in Days,
         notice' # None => notice'.day \in Days
  PROVE  PageInv'
<1>1. (pending # None => DayOf(pending.start) \in Days)'
  BY DEF DayOf, Local, Offset
<1>2. (sought # None => /\ screen = "history" /\ sought \in Int
                        /\ url.mode = "day" /\ url.day = DayOf(sought))'
  BY DEF PageInv, DayOf, Local, Offset
<1>3. (sig \in Signals /\ url \in Queries)'
  <2>1. Signals' = Signals /\ Queries' = Queries
    BY DEF Signals, Queries, Modes, Reads, Months, Years, MonthOf
  <2>2. QED
    BY <2>1 DEF PageInv
<1>4. QED
  BY <1>1, <1>2, <1>3 DEF PageInv

\* Steps of the page that neither look for an entry nor touch the dialog.
LEMMA PageTurns ==
  ASSUME PageInv, zone' = zone, sig' \in Signals, url' \in Queries, shown' # None => shown'.from < shown'.to,
         screen' \in {"history", "timers"}, dialog' \in {dialog, None}, pending' = pending, notice' \in {notice, None},
         \/ sought' = None
         \/ sought' = sought /\ url' = url /\ screen' = screen
  PROVE  PageInv'
<1>1. (pending # None => DayOf(pending.start) \in Days)'
  BY DEF PageInv, DayOf, Local, Offset
<1>2. (sought # None => /\ screen = "history" /\ sought \in Int
                        /\ url.mode = "day" /\ url.day = DayOf(sought))'
  BY DEF PageInv, DayOf, Local, Offset
<1>3. dialog' \in Days \cup {None} /\ (notice' # None => notice'.day \in Days)
  BY DEF PageInv
<1>4. QED
  BY <1>1, <1>2, <1>3 DEF PageInv

LEMMA BrowseKeeps ==
  ASSUME LogInv, PageInv, MidnightsKept, Browse, zone' = zone
  PROVE  PageInv'
<1>1. screen' = screen /\ dialog' = dialog /\ pending' = pending /\ notice' = notice /\ (sought' = None \/ (sought' = sought /\ url' = url))
  BY DEF Browse
<1>2. sig' \in Signals /\ url' \in Queries /\ (shown' # None => shown'.from < shown'.to)
  <2>1. CASE ChangeField
    BY <2>1, AnswerShows DEF ChangeField, Change, LogInv
  <2>2. CASE \E name \in Presets : PressPreset(name)
    BY <2>2, AnswerShows DEF PressPreset, LogInv
  <2>3. CASE \E n \in {-1, 1} : PressShift(n)
    BY <2>3, AnswerShows DEF PressShift, LogInv
  <2>4. CASE Reload
    BY <2>4, RenderShows DEF Reload, LogInv, PageInv
  <2>5. CASE ClockMoves
    BY <2>5 DEF ClockMoves, PageInv
  <2>6. QED
    BY <2>1, <2>2, <2>3, <2>4, <2>5 DEF Browse, Next
<1>3. screen' \in {"history", "timers"}
  BY <1>1 DEF PageInv
<1>4. QED
  BY <1>1, <1>2, <1>3, PageTurns

LEMMA FollowNoticeKeeps ==
  ASSUME LogInv, PageInv, MidnightsKept, FollowNotice
  PROVE  PageInv'
<1>1. PICK q : q = [BlankQuery EXCEPT !.mode = "day", !.day = notice.day]
  OBVIOUS
<1>2. notice # None /\ Render(q) /\ screen' = "history" /\ dialog' = None /\ sought' = notice.start
      /\ zone' = zone /\ pending' = pending /\ notice' = None
  BY <1>1 DEF FollowNotice
<1>3. q = [mode |-> "day", day |-> notice.day, month |-> None, year |-> None, from |-> None, to |-> None]
  BY <1>1 DEF BlankQuery
<1>4. q \in Queries
  BY <1>2, <1>3 DEF Queries, Modes, Reads, PageInv
<1>5. sig' \in Signals /\ url' \in Queries /\ (shown' # None => shown'.from < shown'.to)
  BY <1>2, <1>4, RenderShows DEF LogInv
<1>6. (sought # None => /\ screen = "history" /\ sought \in Int
                        /\ url.mode = "day" /\ url.day = DayOf(sought))'
  <2>1. url' = q /\ notice.start \in Int /\ notice.day = DayOf(notice.start)
    BY <1>2 DEF Render, LogInv
  <2>2. DayOf(sought)' = DayOf(notice.start)
    BY <1>2 DEF DayOf, Local, Offset
  <2>3. QED
    BY <1>2, <1>3, <2>1, <2>2
<1>7. (pending # None => DayOf(pending.start) \in Days)'
  BY <1>2 DEF PageInv, DayOf, Local, Offset
<1>8. QED
  BY <1>2, <1>5, <1>6, <1>7 DEF PageInv

LEMMA PageInvStep ==
  ASSUME LogInv, LogInv', AddressInv, PageInv, MidnightsKept, [LogNext]_allVars
  PROVE  PageInv'
<1>1. ClockInv' /\ zone' = zone
  BY ZoneStays DEF LogInv
<1>2. (pending # None => DayOf(pending.start) \in Days) /\ (notice # None => notice.day \in Days)
      /\ dialog \in Days \cup {None}
  BY DEF PageInv
<1>3. CASE LogNext
  <2>1. CASE Browse
    BY <1>1, <2>1, BrowseKeeps
  <2>2. CASE GetDashboard
    <3>1. url' = BlankQuery /\ sig' = BlankSignals /\ shown' = None /\ screen' = "timers" /\ sought' = None
          /\ dialog' = dialog /\ pending' = pending /\ notice' = notice
      BY <2>2 DEF GetDashboard
    <3>2. BlankQuery \in Queries /\ BlankSignals \in Signals
      BY DEF BlankSignals, BlankQuery, Queries, Signals, Modes, Reads
    <3>3. QED
      BY <1>1, <3>1, <3>2, PageTurns
  <2>3. CASE OpenHistory
    <3>1. Render(BlankQuery) /\ screen' = "history" /\ dialog' = None /\ pending' = pending
          /\ notice' = None /\ sought' = sought /\ Timers
      BY <2>3 DEF OpenHistory
    <3>2. BlankQuery \in Queries
      BY DEF BlankQuery, Queries
    <3>3. sig' \in Signals /\ url' \in Queries /\ (shown' # None => shown'.from < shown'.to)
      BY <3>1, <3>2, RenderShows DEF LogInv
    <3>4. sought' = None
      BY <3>1 DEF Timers, PageInv
    <3>5. QED
      BY <1>1, <3>1, <3>3, <3>4, PageTurns
  <2>4. CASE FollowNotice
    BY <2>4, FollowNoticeKeeps
  <2>5. CASE GetLogDialog \/ GetCloseLogDialog
    <3>1. dialog' \in {Today, None} /\ pending' = pending /\ notice' = notice
      BY <2>5 DEF GetLogDialog, GetCloseLogDialog
    <3>2. dialog' \in Days \cup {None}
      BY <3>1, TodayKnown DEF LogInv
    <3>3. Onward
      BY <2>5 DEF GetLogDialog, GetCloseLogDialog
    <3>4. QED
      BY <1>1, <1>2, <3>1, <3>2, <3>3, PageStays DEF Onward, vars
  <2>6. CASE Log
    <3>1. pending # None /\ pending' = None /\ dialog' \in {dialog, None} /\ Onward
      BY <2>6 DEF Log
    <3>2. notice' # None => notice'.day \in Days
      <4>1. CASE notice' = notice
        BY <1>2, <4>1
      <4>2. CASE notice' # notice
        <5>1. notice' = [start |-> pending.start, day |-> DayOf(pending.start)]
          BY <2>6, <4>2 DEF Log, DayOfNotice
        <5>2. QED
          BY <1>2, <3>1, <5>1
      <4>3. QED
        BY <4>1, <4>2
    <3>3. dialog' \in Days \cup {None}
      BY <1>2, <3>1
    <3>4. QED
      BY <1>1, <3>1, <3>2, <3>3, PageStays DEF Onward, vars
  <2>7. CASE \E in \in LogSignals : PostLog(in.duration, in.date, in.at)
    <3>1. PICK in \in LogSignals : PostLog(in.duration, in.date, in.at)
      BY <2>7
    <3>2. DayOf(pending'.start) \in Days
      BY <1>2, <3>1, PostLogDay DEF LogSignals
    <3>3. Onward /\ dialog' = dialog /\ notice' = notice
      BY <3>1 DEF PostLog
    <3>4. QED
      BY <1>1, <1>2, <3>2, <3>3, PageStays DEF Onward, vars
  <2>8. CASE Timers /\ ClockMoves /\ UNCHANGED logVars
    BY <1>1, <1>2, <2>8, PageStays DEF ClockMoves, logVars
  <2>9. QED
    BY <1>3, <2>1, <2>2, <2>3, <2>4, <2>5, <2>6, <2>7, <2>8 DEF LogNext
<1>4. CASE UNCHANGED allVars
  BY <1>1, <1>2, <1>4, PageStays DEF allVars, vars, logVars
<1>5. QED
  BY <1>3, <1>4

LEMMA MidnightsStay ==
  ASSUME MidnightsKept, zone' = zone
  PROVE  MidnightsKept'
  BY DEF MidnightsKept

\* All of it together.
AllInv == LogInv /\ StartPicked /\ AddressInv /\ PageInv /\ MidnightsKept

LEMMA AllInvHolds == LogSpec /\ MidnightsKept => []AllInv
<1>1. LogInit /\ MidnightsKept => AllInv
  <2>1. LogInit => AddressInv
    BY DEF LogInit, Init, AddressInv
  <2>2. QED
    BY <2>1, LogInvInit, PageInvInit DEF AllInv
<1>2. AllInv /\ [LogNext]_allVars => AllInv'
  <2>1. SUFFICES ASSUME AllInv, [LogNext]_allVars
                 PROVE  AllInv'
    OBVIOUS
  <2>2. LogInv /\ StartPicked /\ AddressInv /\ PageInv /\ MidnightsKept
    BY <2>1 DEF AllInv
  <2>3. LogInv' /\ StartPicked'
    BY <2>1, <2>2, LogInvStep
  <2>4. AddressInv'
    BY <2>1, <2>2, AddressStep
  <2>5. PageInv'
    BY <2>1, <2>2, <2>3, PageInvStep
  <2>6. zone' = zone
    BY <2>1, <2>2, ZoneStays DEF LogInv
  <2>7. MidnightsKept'
    BY <2>2, <2>6, MidnightsStay
  <2>8. QED
    BY <2>3, <2>4, <2>5, <2>7 DEF AllInv
<1>3. QED
  BY <1>1, <1>2, PTL DEF LogSpec

\* Days meet across a change of the clocks, and months and years are made of them.
THEOREM PeriodsMeet == LogSpec /\ MidnightsKept => []PeriodsTile
<1>1. AllInv => PeriodsTile
  BY PeriodsTileKept DEF AllInv, LogInv, ClockInv
<1>2. QED
  BY <1>1, AllInvHolds, PTL

\* The filter stays on days, months and years the page offers, and every period
\* shown goes on for some time.
THEOREM LogTypeCorrect == LogSpec /\ MidnightsKept => []LogTypeOK
<1>1. AllInv => LogTypeOK
  <2>1. SUFFICES ASSUME LogInv, PageInv
                 PROVE  LogTypeOK
    BY DEF AllInv
  <2>2. DOMAIN url = DOMAIN sig
    BY <2>1 DEF PageInv, Queries, Signals
  <2>3. TypeOK
    BY <2>1, <2>2 DEF TypeOK, LogInv, ClockInv, PageInv
  <2>4. QED
    BY <2>1, <2>3 DEF LogTypeOK, LogInv, PageInv
<1>2. QED
  BY <1>1, AllInvHolds, PTL

\* Previous and next go to the period just before and just after, in every mode,
\* and one undoes the other.
THEOREM StepsMeet == LogSpec /\ MidnightsKept => []ShiftsMeet
<1>1. AllInv => ShiftsMeet
  <2>1. SUFFICES ASSUME LogInv, PageInv, MidnightsKept
                 PROVE  ShiftsMeet
    BY DEF AllInv
  <2>2. sig \in Queries
    BY <2>1 DEF PageInv, Signals, Queries
  <2>3. Filter(sig) \in Filters
    BY <2>1, <2>2, FilterKnown DEF LogInv
  <2>4. Meets(Filter(sig))
    BY <2>1, <2>3, FiltersMeet DEF LogInv, ClockInv
  <2>5. QED
    BY <2>4 DEF Meets, ShiftsMeet
<1>2. QED
  BY <1>1, AllInvHolds, PTL

\* The quick periods hold the present; the week is Monday to Sunday, and last
\* month meets this one.
THEOREM PresetsMeetNow == LogSpec /\ MidnightsKept => []PresetsHoldNow
<1>1. AllInv => PresetsHoldNow
  <2>1. SUFFICES ASSUME LogInv, PageInv, MidnightsKept
                 PROVE  PresetsHoldNow
    BY DEF AllInv
  <2>2. sig \in Queries
    BY <2>1 DEF PageInv, Signals, Queries
  <2>3. Filter(sig) \in Filters
    BY <2>1, <2>2, FilterKnown DEF LogInv
  <2>4. \A name \in Presets : Holds(name, PresetFilter(name, Filter(sig)))
    BY <2>1, <2>3, PresetsHold DEF LogInv
  <2>5. QED
    BY <2>4 DEF Holds, PresetsHoldNow
<1>2. QED
  BY <1>1, AllInvHolds, PTL

\* A notice's link leads to a page with the entry on it.
THEOREM LinksShowTheirEntry == LogSpec /\ MidnightsKept => []LinkShowsEntry
<1>1. AllInv => LinkShowsEntry
  <2>1. SUFFICES ASSUME LogInv, PageInv, AddressInv, MidnightsKept, sought # None
                 PROVE  shown.from <= sought /\ sought < shown.to
    BY DEF AllInv, LinkShowsEntry
  <2>2. sought \in Int /\ url.mode = "day" /\ url.day = DayOf(sought)
    BY <2>1 DEF PageInv
  <2>3. url # BlankQuery
    BY <2>2, CalendarAssumption DEF BlankQuery
  <2>4. shown = Period(url)
    BY <2>1, <2>3 DEF AddressInv
  <2>5. PICK n \in Int : n = DayOf(sought)
    BY <2>1, <2>2, DaysAreNumbers DEF LogInv, ClockInv
  <2>6. shown = Span(Date(n, 0), Date(n + 1, 0))
    BY <2>1, <2>2, <2>4, <2>5, DayPeriod DEF LogInv, ClockInv
  <2>7. \A m \in Int : Date(m, 0) \in Int /\ (m <= n <=> Date(m, 0) <= sought)
    BY <2>1, <2>2, <2>5, MidnightStarts DEF LogInv, ClockInv
  <2>8. n <= n /\ n + 1 \in Int /\ ~(n + 1 <= n)
    OBVIOUS
  <2>9. Date(n, 0) <= sought /\ sought < Date(n + 1, 0)
    BY <2>2, <2>7, <2>8
  <2>10. QED
    BY <2>6, <2>9 DEF Span
<1>2. QED
  BY <1>1, AllInvHolds, PTL
=============================================================================
