---------------------------- MODULE RulesProofs ----------------------------
(***************************************************************************)
(* Theorems about the times of bisync's listings (modules Dates, Rules):   *)
(* every day of every year from 1970 on has its number, and one instant is *)
(* one number in whatever zone a listing gives it; and about time spans    *)
(* (module Spans): one of any length is worth the sum of its parts.        *)
(***************************************************************************)
EXTENDS Rules, WellFoundedInduction, TLAPS

\* The days there are in the calendar, from 1970 on.
Date == [year : Nat, month : 1..12, day : 1..31]
InCalendar(d) == d \in Date /\ d.year >= 1970 /\ d.day <= MonthLength(d.year, d.month)

-----------------------------------------------------------------------------
(***************************************************************************)
(* Days.                                                                   *)
(***************************************************************************)
\* DayNumber in two parts: the days of the whole March years before, and those
\* of the March year begun.
DaysOfYears(y) ==
  LET yoe == y - (y \div 400) * 400
  IN  (y \div 400) * 146097 + yoe * 365 + yoe \div 4 - yoe \div 100
DaysOfMonths(m) == (153 * ((m + 9) % 12) + 2) \div 5

LEMMA InTwoParts ==
  ASSUME NEW d \in Date
  PROVE  /\ DayNumber(d) = DaysOfYears(MarchYear(d.year, d.month))
                             + DaysOfMonths(d.month) + d.day - 1 - 719468
         /\ DaysOfYears(MarchYear(d.year, d.month)) \in Int
         /\ DaysOfMonths(d.month) \in Int
         /\ d.year \in Nat /\ d.month \in 1..12 /\ d.day \in 1..31
<1> DEFINE y == MarchYear(d.year, d.month)
<1>1. d.year \in Nat /\ d.month \in 1..12 /\ d.day \in 1..31
  BY DEF Date
<1>2. y \in Int
  BY <1>1 DEF MarchYear
<1>3. y \div 400 \in Int
  BY <1>2
<1>4. (y - (y \div 400) * 400) \div 4 \in Int /\ (y - (y \div 400) * 400) \div 100 \in Int
  BY <1>2, <1>3
<1>5. DaysOfMonths(d.month) \in Int
  BY <1>1 DEF DaysOfMonths
<1> HIDE DEF y
<1>6. DayNumber(d) = DaysOfYears(y) + DaysOfMonths(d.month) + d.day - 1 - 719468
  BY <1>1, <1>2, <1>3, <1>4, <1>5 DEF DayNumber, DaysOfYears, DaysOfMonths, y
<1>7. DaysOfYears(y) \in Int
  BY <1>2, <1>3, <1>4 DEF DaysOfYears
<1> QED BY <1>1, <1>5, <1>6, <1>7 DEF y

\* The months of a March year, each as long as the calendar says; February is
\* its last, and so its length is nowhere in the table.
LEMMA MonthsFollow ==
  /\ \A m \in {1, 3, 5, 7, 8, 10} : DaysOfMonths(m + 1) = DaysOfMonths(m) + 31
  /\ \A m \in {4, 6, 9, 11} : DaysOfMonths(m + 1) = DaysOfMonths(m) + 30
  /\ DaysOfMonths(1) = DaysOfMonths(12) + 31
  /\ DaysOfMonths(2) = 337 /\ DaysOfMonths(3) = 0
BY DEF DaysOfMonths

\* A March year is a day longer where the February it ends with is.
LEMMA YearsFollow ==
  ASSUME NEW y \in Nat
  PROVE  DaysOfYears(y + 1) = DaysOfYears(y) + (IF Leap(y + 1) THEN 366 ELSE 365)
<1> DEFINE e == y \div 400
           r == y % 400
<1>1. e \in Nat /\ r \in 0..399 /\ y = 400 * e + r
  OBVIOUS
<1>2. DaysOfYears(y) = e * 146097 + r * 365 + r \div 4 - r \div 100
  <2>1. y - e * 400 = r
    BY <1>1
  <2> QED BY <2>1 DEF DaysOfYears
<1>3. Leap(y + 1) <=> (r + 1) % 4 = 0 /\ ((r + 1) % 100 = 0 => (r + 1) % 400 = 0)
  <2>1. (y + 1) % 4 = (r + 1) % 4
    BY <1>1
  <2>2. (y + 1) % 100 = (r + 1) % 100
    BY <1>1
  <2>3. (y + 1) % 400 = (r + 1) % 400
    BY <1>1
  <2> QED BY <2>1, <2>2, <2>3 DEF Leap
<1>4. CASE r < 399
  <2>1. (y + 1) \div 400 = e
    BY <1>1, <1>4
  <2>2. DaysOfYears(y + 1) = e * 146097 + (r + 1) * 365 + (r + 1) \div 4 - (r + 1) \div 100
    <3>1. y + 1 - e * 400 = r + 1
      BY <1>1
    <3> QED BY <2>1, <3>1 DEF DaysOfYears
  <2>3. (r + 1) \div 4 = (r \div 4) + (IF (r + 1) % 4 = 0 THEN 1 ELSE 0)
    BY <1>1
  <2>4. (r + 1) \div 100 = (r \div 100) + (IF (r + 1) % 100 = 0 THEN 1 ELSE 0)
    BY <1>1
  <2>5. (r + 1) % 400 # 0
    BY <1>1, <1>4
  <2>6. (r + 1) % 100 = 0 => (r + 1) % 4 = 0
    BY <1>1
  <2>7. r \div 4 \in Int /\ r \div 100 \in Int
    BY <1>1
  <2> HIDE DEF e, r
  <2> QED BY <1>1, <1>2, <1>3, <2>2, <2>3, <2>4, <2>5, <2>6, <2>7
<1>5. CASE r = 399
  <2>1. (y + 1) \div 400 = e + 1 /\ y + 1 - (e + 1) * 400 = 0
    BY <1>1, <1>5
  <2>2. DaysOfYears(y + 1) = (e + 1) * 146097
    BY <1>1, <2>1 DEF DaysOfYears
  <2>3. Leap(y + 1)
    BY <1>3, <1>5
  <2> HIDE DEF e, r
  <2> QED BY <1>1, <1>2, <1>5, <2>2, <2>3
<1> QED BY <1>1, <1>4, <1>5

\* The day after a day of the calendar is one, and has the next number.
LEMMA OneDayOn ==
  ASSUME NEW d, InCalendar(d)
  PROVE  InCalendar(DayAfter(d)) /\ DayNumber(DayAfter(d)) = DayNumber(d) + 1
<1> DEFINE f == DayAfter(d)
<1>1. d \in Date /\ d.year >= 1970 /\ d.day <= MonthLength(d.year, d.month)
  BY DEF InCalendar
<1>2. d.year \in Nat /\ d.month \in 1..12 /\ d.day \in 1..31
  BY <1>1 DEF Date
<1>3. \A y \in Nat, m \in 1..12 : MonthLength(y, m) \in 28..31
  BY DEF MonthLength
<1>7. d.day <= MonthLength(d.year, d.month) /\ MonthLength(d.year, d.month) \in 28..31
  BY <1>1, <1>2, <1>3
<1>4. CASE d.day < MonthLength(d.year, d.month)
  <2>1. f = [d EXCEPT !.day = @ + 1]
    BY <1>4 DEF DayAfter
  <2>2. f \in Date /\ f.year = d.year /\ f.month = d.month /\ f.day = d.day + 1
    BY <1>1, <1>2, <1>3, <1>4, <2>1 DEF Date
  <2>3. InCalendar(f)
    BY <1>1, <1>2, <1>3, <1>4, <2>2 DEF InCalendar
  <2> HIDE DEF f
  <2>4. DayNumber(f) = DayNumber(d) + 1
    BY <1>1, <2>2, InTwoParts
  <2> QED BY <2>3, <2>4 DEF f
<1>5. CASE d.day = MonthLength(d.year, d.month) /\ d.month < 12
  <2>1. f = [d EXCEPT !.month = @ + 1, !.day = 1]
    BY <1>2, <1>3, <1>5 DEF DayAfter
  <2> HIDE DEF f
  <2>2. /\ f \in Date /\ f.year = d.year /\ f.month = d.month + 1 /\ f.day = 1
        /\ f.year \in Nat /\ f.month \in 1..12
    <3>1. d.month + 1 \in 1..12 /\ 1 \in 1..31
      BY <1>2, <1>5
    <3>2. d = [year |-> d.year, month |-> d.month, day |-> d.day]
      BY <1>1 DEF Date
    <3>3. f = [year |-> d.year, month |-> d.month + 1, day |-> 1]
      BY <2>1, <3>2
    <3> QED BY <1>2, <3>1, <3>3 DEF Date
  <2>3. InCalendar(f)
    <3>1. MonthLength(f.year, f.month) \in 28..31
      BY <1>2, <1>3, <1>7, <2>2
    <3> QED BY <1>1, <1>2, <2>2, <3>1 DEF InCalendar
  <2>4. CASE d.month = 2
    <3>1. MarchYear(f.year, f.month) = d.year /\ MarchYear(d.year, d.month) = d.year - 1
      BY <2>2, <2>4 DEF MarchYear
    <3>2. DaysOfYears(d.year) = DaysOfYears(d.year - 1) + (IF Leap(d.year) THEN 366 ELSE 365)
      <4>1. d.year - 1 \in Nat /\ (d.year - 1) + 1 = d.year
        BY <1>1, <1>2
      <4> QED BY <4>1, YearsFollow
    <3>3. d.day = IF Leap(d.year) THEN 29 ELSE 28
      BY <1>5, <2>4 DEF MonthLength
    <3>4. DaysOfMonths(d.month) = 337 /\ DaysOfMonths(f.month) = 0
      BY <2>2, <2>4, MonthsFollow
    <3> QED BY <1>1, <2>2, <2>3, <3>1, <3>2, <3>3, <3>4, InTwoParts DEF f
  <2>5. CASE d.month # 2
    <3>1. MarchYear(f.year, f.month) = MarchYear(d.year, d.month)
      BY <1>2, <2>2, <2>5 DEF MarchYear
    <3>2. DaysOfMonths(f.month) = DaysOfMonths(d.month) + d.day
      <4>1. d.month \in {4, 6, 9, 11} \/ d.month \in {1, 3, 5, 7, 8, 10}
        BY <1>2, <1>5, <2>5
      <4>2. d.month \in {4, 6, 9, 11} => d.day = 30
        BY <1>5, <2>5 DEF MonthLength
      <4>3. d.month \in {1, 3, 5, 7, 8, 10} => d.day = 31
        BY <1>5, <2>5 DEF MonthLength
      <4> QED BY <2>2, <4>1, <4>2, <4>3, MonthsFollow
    <3> QED BY <1>1, <2>2, <2>3, <3>1, <3>2, InTwoParts DEF f
  <2> QED BY <2>4, <2>5
<1>6. CASE d.day = MonthLength(d.year, d.month) /\ d.month = 12
  <2>1. f = [year |-> d.year + 1, month |-> 1, day |-> 1]
    BY <1>2, <1>3, <1>6 DEF DayAfter
  <2>2. f \in Date /\ f.year = d.year + 1 /\ f.month = 1 /\ f.day = 1
    BY <1>2, <2>1 DEF Date
  <2>3. InCalendar(f)
    <3>1. MonthLength(f.year, f.month) \in 28..31
      BY <1>2, <1>3, <1>7, <2>2
    <3> QED BY <1>1, <1>2, <2>2, <3>1 DEF InCalendar
  <2> HIDE DEF f
  <2>4. MarchYear(f.year, f.month) = MarchYear(d.year, d.month)
    BY <1>2, <1>6, <2>2 DEF MarchYear
  <2>5. d.day = 31
    BY <1>6 DEF MonthLength
  <2>6. DaysOfMonths(f.month) = DaysOfMonths(d.month) + 31
    BY <1>6, <2>2, MonthsFollow
  <2> QED BY <1>1, <2>2, <2>3, <2>4, <2>5, <2>6, InTwoParts DEF f
<1> QED BY <1>2, <1>4, <1>5, <1>6, <1>7

\* The calendar goes on day by day.
Counted == InCalendar(date) /\ days \in Nat /\ DaysCounted

LEMMA CountedInit == Init => Counted
<1> SUFFICES ASSUME Init PROVE Counted
  OBVIOUS
<1>1. date = [year |-> 1970, month |-> 1, day |-> 1] /\ days = 0
  BY DEF Init
<1>2. date.year = 1970 /\ date.month = 1 /\ date.day = 1 /\ date \in Date
  BY <1>1 DEF Date
<1>3. InCalendar(date)
  BY <1>2 DEF InCalendar, MonthLength
<1>4. DayNumber(date) = 0
  BY <1>2 DEF DayNumber, MarchYear
<1> QED BY <1>1, <1>3, <1>4 DEF Counted, DaysCounted

LEMMA CountedNext == Counted /\ [Next]_vars => Counted'
<1> SUFFICES ASSUME Counted, [Next]_vars PROVE Counted'
  OBVIOUS
<1>1. CASE NextDay
  BY <1>1, OneDayOn DEF NextDay, Counted, DaysCounted
<1>2. CASE UNCHANGED <<date, days>>
  BY <1>2 DEF Counted, DaysCounted
<1> QED BY <1>1, <1>2 DEF Next, vars, Longer, OneMore

\* No listing time is ever off by a day: counting on from 1970, day by day and
\* for as many years as one likes, every date has the number parse_time_ns
\* computes for it (listing.rs:191-232).
THEOREM EveryDayHasItsNumber == Spec => []DaysCounted
<1>1. Counted => DaysCounted
  BY DEF Counted
<1> QED BY <1>1, CountedInit, CountedNext, PTL DEF Spec

-----------------------------------------------------------------------------
(***************************************************************************)
(* Zones.                                                                  *)
(***************************************************************************)
LEMMA OffsetIs == \A q \in Int : Offset(ZoneAt(q)) = 15 * q
<1> SUFFICES ASSUME NEW q \in Int PROVE Offset(ZoneAt(q)) = 15 * q
  OBVIOUS
<1> DEFINE n == IF q < 0 THEN -q ELSE q
<1>1. n \in Nat /\ (n \div 4) * 60 + 15 * (n % 4) = 15 * n
  OBVIOUS
<1>2. /\ ZoneAt(q).sign = IF q < 0 THEN -1 ELSE 1
      /\ ZoneAt(q).hours = n \div 4 /\ ZoneAt(q).minutes = 15 * (n % 4)
  BY DEF ZoneAt
<1>3. Offset(ZoneAt(q)) = (IF q < 0 THEN -1 ELSE 1) * ((n \div 4) * 60 + 15 * (n % 4))
  BY <1>2 DEF Offset
<1>4. Offset(ZoneAt(q)) = (IF q < 0 THEN -1 ELSE 1) * (15 * n)
  BY <1>1, <1>3
<1> QED BY <1>4

LEMMA NumberType == \A d : InCalendar(d) => DayNumber(d) \in Int
<1> SUFFICES ASSUME NEW d, InCalendar(d) PROVE DayNumber(d) \in Int
  OBVIOUS
<1> QED BY InTwoParts DEF InCalendar

\* On any date and in any zone a listing can be written in, also where the date
\* there is the day before or after, one instant is one time (listing.rs:203-232).
THEOREM EveryZoneAgrees == Spec => []ZonesAgree
<1>1. Counted => ZonesAgree
  <2> SUFFICES ASSUME Counted, NEW q \in Zones, NEW t \in {0, 1439}
               PROVE  LET there == t + 15 * q
                      IN  /\ there >= 1440 =>
                               Minutes(DayAfter(date), (there - 1440) \div 60,
                                       there % 60, ZoneAt(q))
                                 = Minutes(date, t \div 60, t % 60, UTC)
                          /\ there < 0 =>
                               Minutes(date, (there + 1440) \div 60,
                                       (there + 1440) % 60, ZoneAt(q))
                                 = Minutes(DayAfter(date), t \div 60, t % 60, UTC)
                          /\ there \in 0..1439 =>
                               Minutes(date, there \div 60, there % 60, ZoneAt(q))
                                 = Minutes(date, t \div 60, t % 60, UTC)
    BY DEF ZonesAgree
  <2> DEFINE there == t + 15 * q
  <2>1. q \in Int /\ -52 <= q /\ q <= 56 /\ t \in Nat /\ there \in Int
    BY RulesAssumption
  <2>2. /\ DayNumber(date) \in Int /\ DayNumber(DayAfter(date)) \in Int
        /\ DayNumber(DayAfter(date)) = DayNumber(date) + 1
    BY OneDayOn, NumberType DEF Counted
  <2>3. Offset(ZoneAt(q)) = 15 * q /\ Offset(UTC) = 0
    <3>1. Offset(ZoneAt(q)) = 15 * q /\ Offset(ZoneAt(0)) = 15 * 0
      BY <2>1, OffsetIs
    <3> QED BY <3>1 DEF UTC
  <2>4. /\ t \div 60 \in Int /\ t % 60 \in Int /\ (t \div 60) * 60 + (t % 60) = t
    BY <2>1
  <2>5. /\ Minutes(date, t \div 60, t % 60, UTC) = DayNumber(date) * 1440 + t
        /\ Minutes(DayAfter(date), t \div 60, t % 60, UTC)
             = DayNumber(date) * 1440 + 1440 + t
    BY <2>2, <2>3, <2>4 DEF Minutes
  <2>6. CASE there >= 1440
    <3>1. /\ (there - 1440) \div 60 \in Int /\ there % 60 \in Int
          /\ ((there - 1440) \div 60) * 60 + (there % 60) = there - 1440
      BY <2>1, <2>6
    <3>2. Minutes(DayAfter(date), (there - 1440) \div 60, there % 60, ZoneAt(q))
            = DayNumber(date) * 1440 + t
      BY <2>1, <2>2, <2>3, <3>1 DEF Minutes
    <3> QED BY <2>1, <2>5, <2>6, <3>2
  <2>7. CASE there < 0
    <3>1. /\ (there + 1440) \div 60 \in Int /\ (there + 1440) % 60 \in Int
          /\ ((there + 1440) \div 60) * 60 + ((there + 1440) % 60) = there + 1440
      BY <2>1, <2>7
    <3>2. Minutes(date, (there + 1440) \div 60, (there + 1440) % 60, ZoneAt(q))
            = DayNumber(date) * 1440 + 1440 + t
      BY <2>1, <2>2, <2>3, <3>1 DEF Minutes
    <3> QED BY <2>1, <2>5, <2>7, <3>2
  <2>8. CASE there \in 0..1439
    <3>1. /\ there \div 60 \in Int /\ there % 60 \in Int
          /\ (there \div 60) * 60 + (there % 60) = there
      BY <2>1, <2>8
    <3>2. Minutes(date, there \div 60, there % 60, ZoneAt(q)) = DayNumber(date) * 1440 + t
      BY <2>1, <2>2, <2>3, <3>1 DEF Minutes
    <3> QED BY <2>1, <2>5, <2>8, <3>2
  <2> QED BY <2>1, <2>6, <2>7, <2>8
<1> QED BY <1>1, CountedInit, CountedNext, PTL DEF Spec

-----------------------------------------------------------------------------
(***************************************************************************)
(* Induction and recursion.  The induction theorems of the library take a  *)
(* predicate; these take a set instead, the numbers a predicate holds of.  *)
(***************************************************************************)
\* The naturals are well-ordered.
LEMMA LeastOf ==
  ASSUME NEW T, T \subseteq Nat, T # {}
  PROVE  \E n \in T : \A k \in T : n <= k
<1> DEFINE R == OpToRel(<, Nat)
<1>1. IsWellFoundedOn(R, Nat)
  BY NatLessThanWellFounded
<1>2. \A x, y \in Nat : x < y => <<x, y>> \in R
  BY DEF OpToRel
<1> HIDE DEF R
<1>3. PICK x \in T : \A y \in T : ~(<<y, x>> \in R)
  BY <1>1, WFMin
<1>4. ASSUME NEW k \in T PROVE x <= k
  <2>1. x \in Nat /\ k \in Nat
    OBVIOUS
  <2>2. ~(k < x)
    BY <1>2, <1>3, <2>1
  <2> QED BY <2>1, <2>2
<1> QED BY <1>4

\* Induction over the naturals, as a fact about a set of them.
LEMMA AllOf ==
  ASSUME NEW T, 0 \in T, \A k \in Nat : k \in T => k + 1 \in T
  PROVE  Nat \subseteq T
<1> SUFFICES ASSUME Nat \ T # {} PROVE FALSE
  OBVIOUS
<1>1. PICK n \in Nat \ T : \A k \in Nat \ T : n <= k
  BY LeastOf
<1>2. n # 0 /\ n - 1 \in Nat /\ (n - 1) + 1 = n /\ ~(n <= n - 1)
  OBVIOUS
<1> QED BY <1>1, <1>2

\* What a recursive definition defines, exists: step makes of a function the next
\* one, whose value at d depends on the function only where the rank is less.
IsRecursion(step, rank, N, D, V) ==
  /\ V # {} /\ N \in Nat /\ rank \in [D -> 0..N] /\ step \in [[D -> V] -> [D -> V]]
  /\ \A f, g \in [D -> V], d \in D :
       (\A e \in D : rank[e] < rank[d] => f[e] = g[e]) => step[f][d] = step[g][d]

LEMMA RecursionDefines ==
  ASSUME NEW D, NEW V, NEW N, NEW rank, NEW step, IsRecursion(step, rank, N, D, V)
  PROVE  \E f \in [D -> V] : step[f] = f
<1> USE DEF IsRecursion
<1>v. PICK v0 \in V : TRUE
  OBVIOUS
<1> DEFINE Good(f, k) == \A d \in D : rank[d] < k => step[f][d] = f[d]
           T == {k \in Nat : \E f \in [D -> V] : Good(f, k)}
<1>1. 0 \in T
  <2>1. [d \in D |-> v0] \in [D -> V]
    OBVIOUS
  <2>2. Good([d \in D |-> v0], 0)
    OBVIOUS
  <2> QED BY <2>1, <2>2
<1>2. ASSUME NEW k \in Nat, k \in T PROVE k + 1 \in T
  <2>1. PICK f \in [D -> V] : Good(f, k)
    BY <1>2
  <2>2. step[f] \in [D -> V]
    OBVIOUS
  <2>3. ASSUME NEW d \in D, rank[d] < k + 1 PROVE step[step[f]][d] = step[f][d]
    <3>1. ASSUME NEW e \in D, rank[e] < rank[d] PROVE step[f][e] = f[e]
      <4>1. rank[e] \in Nat /\ rank[d] \in Nat
        OBVIOUS
      <4>2. rank[e] < k
        BY <2>3, <3>1, <4>1
      <4> QED BY <2>1, <4>2
    <3> QED BY <2>2, <3>1
  <2>4. Good(step[f], k + 1)
    BY <2>3
  <2> QED BY <2>2, <2>4
<1>3. N + 1 \in T
  <2> HIDE DEF T
  <2>1. Nat \subseteq T
    BY <1>1, <1>2, AllOf
  <2> QED BY <2>1
<1>4. PICK f \in [D -> V] : Good(f, N + 1)
  BY <1>3
<1>5. \A d \in D : step[f][d] = f[d]
  <2> SUFFICES ASSUME NEW d \in D PROVE step[f][d] = f[d]
    OBVIOUS
  <2>1. rank[d] < N + 1
    OBVIOUS
  <2> QED BY <1>4, <2>1
<1>6. step[f] = f
  BY <1>5
<1> QED BY <1>6

-----------------------------------------------------------------------------
(***************************************************************************)
(* Spans.                                                                  *)
(***************************************************************************)
\* What a span is made of.
Tokens ==
  {Number(n) : n \in Numbers} \union {Named(u) : u \in Units \union {"parsec"}} \union {Space}

\* Of a token, only a number has a number, and a blank is neither that nor a word.
LEMMA TokenFacts ==
  ASSUME NEW t \in Tokens
  PROVE  /\ t[1] = "number" => t[2] \in Nat
         /\ t = Space <=> (t[1] # "number" /\ t[1] # "word")
<1>1. CASE \E n \in Numbers : t = <<"number", n>>
  BY <1>1, RulesAssumption DEF Space
<1>2. CASE \E u \in Units \union {"parsec"} : t = <<"word", u>>
  BY <1>2 DEF Space
<1>3. CASE t = Space
  BY <1>3 DEF Space
<1> QED BY <1>1, <1>2, <1>3 DEF Tokens, Number, Named

\* What the units are.
LEMMA UnitFacts ==
  /\ Units = {"s", "min", "h"}
  /\ \A u \in Units : Seconds[u] \in Nat
  /\ Seconds["s"] = 1
BY DEF Units, Seconds

\* A number in its unit wraps at the word, and only there.
LEMMA PartFacts ==
  ASSUME NEW n \in Nat, NEW u \in Units
  PROVE  /\ n * Seconds[u] \in Nat
         /\ Part(n, u) \in Nat
         /\ n * Seconds[u] < Word => Part(n, u) = n * Seconds[u]
<1>1. n * Seconds[u] \in Nat
  BY UnitFacts
<1>2. \A k \in Nat : k % Word \in Nat /\ (k < Word => k % Word = k)
  BY RulesAssumption
<1>3. u = "s" => n * Seconds[u] = n
  BY UnitFacts
<1> QED BY <1>1, <1>2, <1>3 DEF Part

\* What Parse makes of the rest of a span, from its ith token.
Rest(s, f, i) ==
  IF i > Len(s) THEN 0
  ELSE IF ~NumberAt(s, i) THEN IF s[i] = Space THEN f[i + 1] ELSE Invalid
  ELSE LET after == IF WordAt(s, i + 1) THEN i + 2 ELSE i + 1
           unit == IF WordAt(s, i + 1) THEN s[i + 1][2] ELSE "s"
       IN  IF unit \notin Units \/ f[after] = Invalid THEN Invalid
           ELSE Part(s[i][2], unit) + f[after]
IsRest(s, f) ==
  f \in [1..(Len(s) + 1) -> Int] /\ f = [i \in 1..(Len(s) + 1) |-> Rest(s, f, i)]

\* The tokens of a span, and that none follows its last.
LEMMA SpanFacts ==
  ASSUME NEW s \in Seq(Tokens)
  PROVE  /\ Len(s) \in Nat /\ DOMAIN s = 1..Len(s)
         /\ \A i \in 1..Len(s) : /\ s[i] \in Tokens
                                 /\ NumberAt(s, i) => s[i][2] \in Nat
                                 /\ s[i] = Space <=> (~NumberAt(s, i) /\ ~WordAt(s, i))
                                 /\ ~(NumberAt(s, i) /\ WordAt(s, i))
         /\ ~NumberAt(s, Len(s) + 1) /\ ~WordAt(s, Len(s) + 1)
<1>1. Len(s) \in Nat /\ DOMAIN s = 1..Len(s) /\ \A i \in 1..Len(s) : s[i] \in Tokens
  OBVIOUS
<1>2. ASSUME NEW i \in 1..Len(s)
      PROVE  /\ NumberAt(s, i) => s[i][2] \in Nat
             /\ s[i] = Space <=> (~NumberAt(s, i) /\ ~WordAt(s, i))
             /\ ~(NumberAt(s, i) /\ WordAt(s, i))
  <2>1. i <= Len(s) /\ s[i] \in Tokens
    BY <1>1
  <2> QED BY <2>1, TokenFacts DEF NumberAt, WordAt
<1>3. ~NumberAt(s, Len(s) + 1) /\ ~WordAt(s, Len(s) + 1)
  BY <1>1 DEF NumberAt, WordAt
<1> QED BY <1>1, <1>2, <1>3

\* What is left of a span comes to a number, where what comes after does.
LEMMA RestType ==
  ASSUME NEW s \in Seq(Tokens), NEW f \in [1..(Len(s) + 1) -> Int], NEW i \in 1..(Len(s) + 1)
  PROVE  Rest(s, f, i) \in Int
<1>1. Invalid \in Int
  BY DEF Invalid
<1>2. CASE i > Len(s)
  BY <1>2 DEF Rest
<1>3. CASE i \in 1..Len(s) /\ ~NumberAt(s, i)
  <2>1. Len(s) \in Nat /\ ~(i > Len(s)) /\ i + 1 \in 1..(Len(s) + 1)
    BY <1>3, SpanFacts
  <2>2. f[i + 1] \in Int
    BY <2>1
  <2> QED BY <1>1, <1>3, <2>1, <2>2 DEF Rest
<1>4. CASE i \in 1..Len(s) /\ NumberAt(s, i)
  <2> DEFINE after == IF WordAt(s, i + 1) THEN i + 2 ELSE i + 1
             unit == IF WordAt(s, i + 1) THEN s[i + 1][2] ELSE "s"
  <2>1. Len(s) \in Nat /\ ~(i > Len(s)) /\ s[i][2] \in Nat
    BY <1>4, SpanFacts
  <2>2. after \in 1..(Len(s) + 1)
    BY <2>1 DEF WordAt
  <2>3. f[after] \in Int
    BY <2>2
  <2>4. unit \in Units => Part(s[i][2], unit) \in Nat
    BY <2>1, PartFacts
  <2>5. Rest(s, f, i) = IF unit \notin Units \/ f[after] = Invalid THEN Invalid
                        ELSE Part(s[i][2], unit) + f[after]
    BY <1>4, <2>1 DEF Rest
  <2> HIDE DEF after, unit
  <2> QED BY <1>1, <2>3, <2>4, <2>5
<1>5. i > Len(s) \/ i \in 1..Len(s)
  BY SpanFacts
<1> QED BY <1>2, <1>3, <1>4, <1>5

\* It depends on what comes after only.
LEMMA RestLooksAhead ==
  ASSUME NEW s \in Seq(Tokens), NEW f, NEW g, NEW i \in 1..(Len(s) + 1),
         \A j \in 1..(Len(s) + 1) : j > i => f[j] = g[j]
  PROVE  Rest(s, f, i) = Rest(s, g, i)
<1>1. Len(s) \in Nat
  BY SpanFacts
<1>2. CASE i > Len(s)
  BY <1>2 DEF Rest
<1>3. CASE i \in 1..Len(s)
  <2>1. i + 1 \in 1..(Len(s) + 1) /\ i + 1 > i
    BY <1>1, <1>3
  <2>2. WordAt(s, i + 1) => i + 2 \in 1..(Len(s) + 1) /\ i + 2 > i
    BY <1>1, <1>3 DEF WordAt
  <2>3. f[i + 1] = g[i + 1] /\ (WordAt(s, i + 1) => f[i + 2] = g[i + 2])
    BY <2>1, <2>2
  <2> QED BY <2>3 DEF Rest
<1> QED BY <1>1, <1>2, <1>3

\* So the recursion in Parse is one, and Parse is what it comes to.
LEMMA ParseIs ==
  ASSUME NEW s \in Seq(Tokens)
  PROVE  \E f : /\ IsRest(s, f)
                /\ Parse(s) = (IF \A i \in DOMAIN s : s[i] = Space THEN Invalid
                               ELSE IF f[1] < Word THEN f[1] ELSE Overflow)
<1> DEFINE D == 1..(Len(s) + 1)
           rank == [i \in D |-> Len(s) + 1 - i]
           step == [f \in [D -> Int] |-> [i \in D |-> Rest(s, f, i)]]
           From[i \in D] == Rest(s, From, i)
<1>1. Len(s) \in Nat
  BY SpanFacts
<1>2. step \in [[D -> Int] -> [D -> Int]]
  BY RestType
<1>3. rank \in [D -> 0..Len(s)]
  BY <1>1
<1>4. ASSUME NEW f \in [D -> Int], NEW g \in [D -> Int], NEW d \in D,
             \A e \in D : rank[e] < rank[d] => f[e] = g[e]
      PROVE  step[f][d] = step[g][d]
  <2>1. \A e \in D : e > d => rank[e] < rank[d]
    BY <1>1
  <2>2. \A e \in D : e > d => f[e] = g[e]
    BY <1>4, <2>1
  <2>3. Rest(s, f, d) = Rest(s, g, d)
    BY <2>2, RestLooksAhead
  <2> QED BY <2>3
<1>5. \E f \in [D -> Int] : step[f] = f
  <2> HIDE DEF D, rank, step, From
  <2>1. Int # {}
    OBVIOUS
  <2>2. \A f, g \in [D -> Int], d \in D :
          (\A e \in D : rank[e] < rank[d] => f[e] = g[e]) => step[f][d] = step[g][d]
    BY <1>4
  <2>3. IsRecursion(step, rank, Len(s), D, Int)
    BY <1>1, <1>2, <1>3, <2>1, <2>2 DEF IsRecursion
  <2> QED BY <2>3, RecursionDefines
<1>6. PICK f \in [D -> Int] : f = [i \in D |-> Rest(s, f, i)]
  BY <1>5
<1>7. From = [i \in D |-> Rest(s, From, i)]
  <2>1. From = CHOOSE F : F = [i \in D |-> Rest(s, F, i)]
    OBVIOUS
  <2> HIDE DEF From
  <2> QED BY <1>6, <2>1
<1>8. ASSUME NEW F, F = [i \in D |-> Rest(s, F, i)]
      PROVE  F = f
  <2> DEFINE T == {k \in Nat : \A i \in D : rank[i] < k => F[i] = f[i]}
  <2>1. 0 \in T
    BY <1>3
  <2>2. ASSUME NEW k \in Nat, k \in T PROVE k + 1 \in T
    <3>1. ASSUME NEW i \in D, rank[i] < k + 1 PROVE F[i] = f[i]
      <4>1. \A e \in D : e > i => rank[e] < k
        BY <1>1, <3>1
      <4>2. \A e \in D : e > i => F[e] = f[e]
        BY <2>2, <4>1
      <4>3. Rest(s, F, i) = Rest(s, f, i)
        BY <4>2, RestLooksAhead
      <4> QED BY <1>6, <1>8, <4>3
    <3> QED BY <3>1
  <2>3. Len(s) + 1 \in T
    <3> HIDE DEF T
    <3> QED BY <1>1, <2>1, <2>2, AllOf
  <2>4. \A i \in D : F[i] = f[i]
    <3>1. \A i \in D : rank[i] < Len(s) + 1
      BY <1>1
    <3> QED BY <2>3, <3>1
  <2> QED BY <1>6, <1>8, <2>4
<1>9. Parse(s) = IF \A i \in DOMAIN s : s[i] = Space THEN Invalid
                 ELSE IF From[1] < Word THEN From[1] ELSE Overflow
  BY DEF Parse, Rest
<1>10. From = f
  <2> HIDE DEF From
  <2> QED BY <1>7, <1>8
<1>11. IsRest(s, f)
  BY <1>6 DEF IsRest
<1> HIDE DEF From, D
<1> QED BY <1>9, <1>10, <1>11

\* What Total makes of the first i tokens.
Term(s, i) == IF i \in Terms(s) THEN s[i][2] * Seconds[UnitOf(s, i)] ELSE 0
Upto(s, f, i) == IF i = 0 THEN 0 ELSE f[i - 1] + Term(s, i)
Bad(s, i) == WordAt(s, i) /\ ~(s[i][2] \in Units /\ i > 1 /\ NumberAt(s, i - 1))

\* A span is well-formed when it is not blank and no word in it is bad.
LEMMA WellFormedIs ==
  ASSUME NEW s \in Seq(Tokens)
  PROVE  WellFormed(s) <=> /\ ~\A i \in DOMAIN s : s[i] = Space
                           /\ \A i \in 1..Len(s) : ~Bad(s, i)
<1>1. DOMAIN s = 1..Len(s) /\ Len(s) \in Nat
  BY SpanFacts
<1>2. ASSUME WellFormed(s)
      PROVE  ~(\A i \in DOMAIN s : s[i] = Space) /\ \A i \in 1..Len(s) : ~Bad(s, i)
  <2>1. PICK i \in DOMAIN s : NumberAt(s, i)
    BY <1>2 DEF WellFormed, Terms
  <2>2. s[i] # Space
    BY <1>1, <2>1, SpanFacts
  <2> QED BY <1>1, <1>2, <2>2 DEF WellFormed, Bad
<1>3. ASSUME NEW j \in DOMAIN s, s[j] # Space, \A i \in 1..Len(s) : ~Bad(s, i)
      PROVE  WellFormed(s)
  <2>1. NumberAt(s, j) \/ WordAt(s, j)
    BY <1>1, <1>3, SpanFacts
  <2>2. WordAt(s, j) => j - 1 \in DOMAIN s /\ NumberAt(s, j - 1)
    BY <1>1, <1>3 DEF Bad
  <2>3. Terms(s) # {}
    BY <2>1, <2>2 DEF Terms
  <2> QED BY <1>1, <1>3, <2>3 DEF WellFormed, Bad
<1> QED BY <1>2, <1>3

\* In one, each number has a unit to be counted in.
LEMMA TermType ==
  ASSUME NEW s \in Seq(Tokens), WellFormed(s), NEW i \in 1..Len(s)
  PROVE  Term(s, i) \in Nat /\ (NumberAt(s, i) => UnitOf(s, i) \in Units)
<1>1. Len(s) \in Nat /\ DOMAIN s = 1..Len(s) /\ (NumberAt(s, i) => s[i][2] \in Nat)
  BY SpanFacts
<1>2. UnitOf(s, i) \in Units
  <2>1. CASE WordAt(s, i + 1)
    <3>1. i + 1 \in DOMAIN s
      BY <1>1, <2>1, SpanFacts DEF WordAt
    <3>2. s[i + 1][2] \in Units
      BY <2>1, <3>1 DEF WellFormed
    <3> QED BY <2>1, <3>2 DEF UnitOf
  <2>2. CASE ~WordAt(s, i + 1)
    BY <2>2, UnitFacts DEF UnitOf
  <2> QED BY <2>1, <2>2
<1>3. NumberAt(s, i) => s[i][2] * Seconds[UnitOf(s, i)] \in Nat
  BY <1>1, <1>2, PartFacts
<1> QED BY <1>1, <1>2, <1>3 DEF Term, Terms

\* The recursion in Total is one too, and Total is what it comes to.
LEMMA TotalIs ==
  ASSUME NEW s \in Seq(Tokens), WellFormed(s)
  PROVE  \E f \in [0..Len(s) -> Nat] :
           /\ f[0] = 0 /\ \A i \in 1..Len(s) : f[i] = f[i - 1] + Term(s, i)
           /\ Total(s) = f[Len(s)]
<1> DEFINE D == 0..Len(s)
           rank == [i \in D |-> i]
           step == [f \in [D -> Nat] |-> [i \in D |-> Upto(s, f, i)]]
           Sum[i \in D] == Upto(s, Sum, i)
<1>1. Len(s) \in Nat
  BY SpanFacts
<1>2. step \in [[D -> Nat] -> [D -> Nat]]
  <2>1. ASSUME NEW f \in [D -> Nat], NEW i \in D PROVE Upto(s, f, i) \in Nat
    <3>1. i = 0 \/ (i \in 1..Len(s) /\ i - 1 \in D)
      BY <1>1
    <3>2. i \in 1..Len(s) => f[i - 1] \in Nat /\ Term(s, i) \in Nat
      BY <3>1, TermType
    <3> HIDE DEF D
    <3> QED BY <3>1, <3>2 DEF Upto
  <2> QED BY <2>1
<1>3. rank \in [D -> 0..Len(s)]
  BY <1>1
<1>4. ASSUME NEW f, NEW g, NEW d \in D, \A e \in D : e < d => f[e] = g[e]
      PROVE  Upto(s, f, d) = Upto(s, g, d)
  <2>1. d # 0 => d - 1 \in D /\ d - 1 < d
    BY <1>1
  <2> QED BY <1>4, <2>1 DEF Upto
<1>5. \E f \in [D -> Nat] : step[f] = f
  <2>1. \A d, e \in D : rank[e] < rank[d] <=> e < d
    OBVIOUS
  <2>2. \A f, g \in [D -> Nat], d \in D :
          (\A e \in D : rank[e] < rank[d] => f[e] = g[e]) => step[f][d] = step[g][d]
    <3> SUFFICES ASSUME NEW f \in [D -> Nat], NEW g \in [D -> Nat], NEW d \in D,
                        \A e \in D : rank[e] < rank[d] => f[e] = g[e]
                 PROVE  step[f][d] = step[g][d]
      OBVIOUS
    <3>1. Upto(s, f, d) = Upto(s, g, d)
      <4> HIDE DEF D, rank
      <4> QED BY <1>4, <2>1
    <3> QED BY <3>1
  <2> HIDE DEF D, rank, step, Sum
  <2>3. Nat # {}
    OBVIOUS
  <2>4. IsRecursion(step, rank, Len(s), D, Nat)
    BY <1>1, <1>2, <1>3, <2>2, <2>3 DEF IsRecursion
  <2> QED BY <2>4, RecursionDefines
<1>6. PICK f \in [D -> Nat] : f = [i \in D |-> Upto(s, f, i)]
  BY <1>5
<1>7. Sum = [i \in D |-> Upto(s, Sum, i)]
  <2>1. Sum = CHOOSE F : F = [i \in D |-> Upto(s, F, i)]
    OBVIOUS
  <2> HIDE DEF Sum
  <2> QED BY <1>6, <2>1
<1> HIDE DEF Sum
<1>8. Sum = f
  <2> DEFINE T == {k \in Nat : \A i \in D : i < k => Sum[i] = f[i]}
  <2>1. 0 \in T
    OBVIOUS
  <2>2. ASSUME NEW k \in Nat, k \in T PROVE k + 1 \in T
    <3>1. ASSUME NEW i \in D, i < k + 1 PROVE Sum[i] = f[i]
      <4>1. \A e \in D : e < i => Sum[e] = f[e]
        BY <2>2, <3>1
      <4>2. Upto(s, Sum, i) = Upto(s, f, i)
        BY <1>4, <4>1
      <4> QED BY <1>6, <1>7, <4>2
    <3> QED BY <3>1
  <2>3. Len(s) + 1 \in T
    <3> HIDE DEF T
    <3> QED BY <1>1, <2>1, <2>2, AllOf
  <2>4. \A i \in D : Sum[i] = f[i]
    <3>1. \A i \in D : i < Len(s) + 1
      BY <1>1
    <3> QED BY <2>3, <3>1
  <2> QED BY <1>6, <1>7, <2>4
<1>9. Total(s) = Sum[Len(s)]
  <2> USE DEF Sum
  <2> QED BY DEF Total, Upto, Term
<1>10. f[0] = 0 /\ \A i \in 1..Len(s) : f[i] = f[i - 1] + Term(s, i)
  <2>1. 0 \in D /\ \A i \in 1..Len(s) : i \in D /\ i # 0
    BY <1>1
  <2> HIDE DEF D
  <2> QED BY <1>6, <2>1 DEF Upto
<1> QED BY <1>6, <1>8, <1>9, <1>10

\* Where a unit was not just taken with its number.
Starts(s, i) == ~(i > 1 /\ NumberAt(s, i - 1) /\ WordAt(s, i))

\* One token on: what Rest does where it stands.
LEMMA RestSteps ==
  ASSUME NEW s \in Seq(Tokens), NEW f, IsRest(s, f), NEW i \in 1..Len(s)
  PROVE  /\ f[Len(s) + 1] = 0
         /\ s[i] = Space => f[i] = f[i + 1] /\ Starts(s, i + 1)
         /\ WordAt(s, i) => f[i] = Invalid
         /\ NumberAt(s, i) /\ ~WordAt(s, i + 1) =>
              /\ f[i] = IF f[i + 1] = Invalid THEN Invalid ELSE Part(s[i][2], "s") + f[i + 1]
              /\ Starts(s, i + 1)
         /\ NumberAt(s, i) /\ WordAt(s, i + 1) =>
              /\ f[i] = IF s[i + 1][2] \notin Units \/ f[i + 2] = Invalid THEN Invalid
                        ELSE Part(s[i][2], s[i + 1][2]) + f[i + 2]
              /\ Starts(s, i + 2) /\ i + 2 \in 1..(Len(s) + 1)
<1>1. /\ Len(s) \in Nat /\ i \in 1..(Len(s) + 1) /\ Len(s) + 1 \in 1..(Len(s) + 1)
      /\ ~(i > Len(s)) /\ Len(s) + 1 > Len(s)
  BY SpanFacts
<1>2. f[Len(s) + 1] = Rest(s, f, Len(s) + 1) /\ f[i] = Rest(s, f, i)
  <2>1. \A j \in 1..(Len(s) + 1) : f[j] = Rest(s, f, j)
    BY DEF IsRest
  <2> QED BY <1>1, <2>1
<1>3. f[Len(s) + 1] = 0
  BY <1>1, <1>2 DEF Rest
<1>4. s[i] = Space <=> (~NumberAt(s, i) /\ ~WordAt(s, i))
  BY SpanFacts
<1>5. ~(NumberAt(s, i) /\ WordAt(s, i))
  BY SpanFacts
<1>6. s[i] = Space => f[i] = f[i + 1]
  BY <1>1, <1>2, <1>4 DEF Rest
<1>7. WordAt(s, i) => f[i] = Invalid
  BY <1>1, <1>2, <1>4, <1>5 DEF Rest
<1>8. (i + 1) - 1 = i /\ (i + 2) - 1 = i + 1 /\ i + 1 > 1
  OBVIOUS
<1>9. ~NumberAt(s, i) \/ ~WordAt(s, i + 1) => Starts(s, i + 1)
  BY <1>8 DEF Starts
<1>10. CASE NumberAt(s, i) /\ ~WordAt(s, i + 1)
  <2>1. "s" \in Units
    BY UnitFacts
  <2>2. f[i] = IF f[i + 1] = Invalid THEN Invalid ELSE Part(s[i][2], "s") + f[i + 1]
    BY <1>1, <1>2, <1>10, <2>1 DEF Rest
  <2> QED BY <1>3, <1>4, <1>5, <1>9, <1>10, <2>2
<1>11. CASE NumberAt(s, i) /\ WordAt(s, i + 1)
  <2>1. i + 1 \in 1..Len(s)
    BY <1>1, <1>11 DEF WordAt
  <2>2. ~NumberAt(s, i + 1)
    BY <1>11, <2>1, SpanFacts
  <2>3. Starts(s, i + 2)
    BY <1>8, <2>2 DEF Starts
  <2>4. f[i] = IF s[i + 1][2] \notin Units \/ f[i + 2] = Invalid THEN Invalid
               ELSE Part(s[i][2], s[i + 1][2]) + f[i + 2]
    BY <1>1, <1>2, <1>11 DEF Rest
  <2>5. i + 2 \in 1..(Len(s) + 1)
    BY <1>1, <2>1
  <2> QED BY <1>3, <1>4, <1>5, <1>11, <2>3, <2>4, <2>5
<1>12. CASE ~NumberAt(s, i)
  BY <1>3, <1>4, <1>6, <1>7, <1>9, <1>12
<1> QED BY <1>10, <1>11, <1>12

\* Induction from the end of a span back to its start.
LEMMA Backward ==
  ASSUME NEW n \in Nat, NEW T, n + 1 \in T,
         \A i \in 1..n : (\A j \in (i + 1)..(n + 1) : j \in T) => i \in T
  PROVE  1 \in T
<1> DEFINE Z == {k \in Nat : \A i \in 1..(n + 1) : i + k > n => i \in T}
<1>1. 0 \in Z
  OBVIOUS
<1>2. ASSUME NEW k \in Nat, k \in Z PROVE k + 1 \in Z
  <2>1. ASSUME NEW i \in 1..(n + 1), i + (k + 1) > n PROVE i \in T
    <3>1. CASE i = n + 1
      BY <3>1
    <3>2. CASE i \in 1..n
      <4>1. ASSUME NEW j \in (i + 1)..(n + 1) PROVE j \in T
        <5>1. j \in 1..(n + 1) /\ j + k > n
          BY <2>1, <3>2
        <5> QED BY <1>2, <5>1
      <4> QED BY <3>2, <4>1
    <3> QED BY <3>1, <3>2
  <2> QED BY <2>1
<1>3. n \in Z
  <2> HIDE DEF Z
  <2> QED BY <1>1, <1>2, AllOf
<1>4. 1 \in 1..(n + 1) /\ 1 + n > n
  OBVIOUS
<1> QED BY <1>3, <1>4

\* What is left of a span is refused just when something in it is bad.
LEMMA RefusedIfBad ==
  ASSUME NEW s \in Seq(Tokens), NEW f, IsRest(s, f)
  PROVE  f[1] = Invalid <=> \E i \in 1..Len(s) : Bad(s, i)
<1> DEFINE n == Len(s)
           OK(i) == /\ f[i] \in Nat \union {Invalid}
                    /\ f[i] = Invalid <=> \E j \in i..n : Bad(s, j)
           T == {i \in 1..(n + 1) : Starts(s, i) => OK(i)}
<1>1. n \in Nat /\ Invalid \notin Nat /\ Invalid = -1
  BY SpanFacts DEF Invalid
<1>2. n + 1 \in T
  <2>1. f[n + 1] = Rest(s, f, n + 1)
    BY <1>1 DEF IsRest
  <2>2. f[n + 1] = 0
    BY <1>1, <2>1 DEF Rest
  <2> QED BY <1>1, <2>2
<1>3. ASSUME NEW i \in 1..n, \A j \in (i + 1)..(n + 1) : j \in T
      PROVE  i \in T
  <2> SUFFICES ASSUME Starts(s, i) PROVE OK(i)
    BY <1>1
  <2>1. /\ NumberAt(s, i) => s[i][2] \in Nat
        /\ s[i] = Space <=> (~NumberAt(s, i) /\ ~WordAt(s, i))
        /\ ~(NumberAt(s, i) /\ WordAt(s, i))
    BY SpanFacts
  <2>2. /\ i + 1 \in (i + 1)..(n + 1)
        /\ (\E j \in i..n : Bad(s, j)) <=> Bad(s, i) \/ \E j \in (i + 1)..n : Bad(s, j)
    BY <1>1
  <2>3. Starts(s, i + 1) => OK(i + 1)
    BY <1>3, <2>2
  <2>4. CASE s[i] = Space
    <3>1. f[i] = f[i + 1] /\ Starts(s, i + 1)
      BY <2>4, RestSteps
    <3>2. ~Bad(s, i)
      BY <2>1, <2>4 DEF Bad
    <3> QED BY <2>2, <2>3, <3>1, <3>2
  <2>5. CASE WordAt(s, i)
    <3>1. f[i] = Invalid
      BY <2>5, RestSteps
    <3>2. Bad(s, i)
      BY <2>5 DEF Bad, Starts
    <3> QED BY <2>2, <3>1, <3>2
  <2>6. CASE NumberAt(s, i) /\ ~WordAt(s, i + 1)
    <3>1. f[i] = (IF f[i + 1] = Invalid THEN Invalid ELSE Part(s[i][2], "s") + f[i + 1])
      BY <2>6, RestSteps
    <3>2. Starts(s, i + 1)
      BY <2>6, RestSteps
    <3>3. ~Bad(s, i)
      BY <2>1, <2>6 DEF Bad
    <3>4. Part(s[i][2], "s") \in Nat
      BY <2>1, <2>6, PartFacts, UnitFacts
    <3>5. OK(i + 1)
      BY <2>3, <3>2
    <3>6. f[i] \in Nat \union {Invalid} /\ (f[i] = Invalid <=> f[i + 1] = Invalid)
      BY <1>1, <3>1, <3>4, <3>5
    <3> QED BY <2>2, <3>3, <3>5, <3>6
  <2>7. CASE NumberAt(s, i) /\ WordAt(s, i + 1)
    <3> DEFINE u == s[i + 1][2]
    <3>1. f[i] = (IF u \notin Units \/ f[i + 2] = Invalid THEN Invalid
                  ELSE Part(s[i][2], u) + f[i + 2])
      BY <2>7, RestSteps
    <3>2. Starts(s, i + 2) /\ i + 2 \in 1..(n + 1)
      BY <2>7, RestSteps
    <3>3. i + 2 \in (i + 1)..(n + 1)
      BY <1>1, <3>2
    <3>4. OK(i + 2)
      BY <1>3, <3>2, <3>3
    <3>5. ~Bad(s, i) /\ (Bad(s, i + 1) <=> u \notin Units)
      <4>1. (i + 1) - 1 = i /\ i + 1 > 1
        OBVIOUS
      <4> QED BY <2>1, <2>7, <4>1 DEF Bad
    <3>6. (\E j \in (i + 1)..n : Bad(s, j)) <=>
            Bad(s, i + 1) \/ \E j \in (i + 2)..n : Bad(s, j)
      BY <1>1, <3>2
    <3>7. u \in Units => Part(s[i][2], u) \in Nat
      BY <2>1, <2>7, PartFacts
    <3> HIDE DEF u
    <3>8. f[i] \in Nat \union {Invalid} /\ (f[i] = Invalid <=> u \notin Units \/ f[i + 2] = Invalid)
      BY <1>1, <3>1, <3>4, <3>7
    <3> QED BY <2>2, <3>4, <3>5, <3>6, <3>8
  <2> QED BY <2>1, <2>4, <2>5, <2>6, <2>7
<1>4. 1 \in T
  <2> HIDE DEF T
  <2> QED BY <1>1, <1>2, <1>3, Backward
<1>5. Starts(s, 1)
  BY DEF Starts
<1> QED BY <1>4, <1>5

\* Where nothing is, it comes to what Total counts of it.
LEMMA WorthItsSum ==
  ASSUME NEW s \in Seq(Tokens), WellFormed(s), Total(s) < Word, NEW f, IsRest(s, f)
  PROVE  f[1] = Total(s)
<1> DEFINE n == Len(s)
<1>1. n \in Nat /\ Invalid \notin Nat /\ Word \in Nat
  BY SpanFacts, RulesAssumption DEF Invalid
<1>2. PICK g \in [0..n -> Nat] : /\ g[0] = 0
                                 /\ \A i \in 1..n : g[i] = g[i - 1] + Term(s, i)
                                 /\ Total(s) = g[n]
  BY TotalIs
<1> DEFINE T == {i \in 1..(n + 1) : Starts(s, i) => f[i] \in Nat /\ f[i] + g[i - 1] = g[n]}
<1>3. n + 1 \in T
  <2>1. f[n + 1] = Rest(s, f, n + 1)
    BY <1>1 DEF IsRest
  <2>2. f[n + 1] = 0 /\ (n + 1) - 1 = n /\ g[n] \in Nat
    BY <1>1, <2>1 DEF Rest
  <2> QED BY <1>1, <2>2
<1>4. ASSUME NEW i \in 1..n, \A j \in (i + 1)..(n + 1) : j \in T
      PROVE  i \in T
  <2> SUFFICES ASSUME Starts(s, i) PROVE f[i] \in Nat /\ f[i] + g[i - 1] = g[n]
    BY <1>1
  <2>1. /\ NumberAt(s, i) => s[i][2] \in Nat
        /\ s[i] = Space <=> (~NumberAt(s, i) /\ ~WordAt(s, i))
        /\ ~(NumberAt(s, i) /\ WordAt(s, i))
        /\ DOMAIN s = 1..n
    BY SpanFacts
  <2>2. g[i] = g[i - 1] + Term(s, i) /\ g[i] \in Nat /\ g[i - 1] \in Nat /\ g[n] \in Nat
    <3>1. i \in 0..n /\ i - 1 \in 0..n /\ n \in 0..n
      BY <1>1
    <3> QED BY <1>2, <3>1
  <2>3. Starts(s, i + 1) => f[i + 1] \in Nat /\ f[i + 1] + g[i] = g[n]
    <3>1. i + 1 \in T /\ (i + 1) - 1 = i
      BY <1>1, <1>4
    <3> QED BY <3>1
  <2>4. ~NumberAt(s, i) => Term(s, i) = 0
    BY DEF Term, Terms
  <2>5. NumberAt(s, i) => Term(s, i) = s[i][2] * Seconds[UnitOf(s, i)] /\ UnitOf(s, i) \in Units
    BY <2>1, TermType DEF Term, Terms
  <2>6. g[n] < Word
    BY <1>2
  <2>7. CASE s[i] = Space
    BY <2>1, <2>2, <2>3, <2>4, <2>7, RestSteps
  <2>8. ~WordAt(s, i)
    <3>1. ~Bad(s, i)
      BY WellFormedIs
    <3> QED BY <3>1 DEF Bad, Starts
  <2>9. CASE NumberAt(s, i) /\ ~WordAt(s, i + 1)
    <3>1. f[i] = (IF f[i + 1] = Invalid THEN Invalid ELSE Part(s[i][2], "s") + f[i + 1])
      BY <2>9, RestSteps
    <3>2. Starts(s, i + 1)
      BY <2>9, RestSteps
    <3>3. UnitOf(s, i) = "s"
      BY <2>9 DEF UnitOf
    <3>4. Term(s, i) < Word /\ Term(s, i) = s[i][2] * Seconds["s"] /\ Term(s, i) \in Nat
      <4>1. Term(s, i) \in Nat
        BY TermType
      <4> QED BY <1>1, <2>2, <2>3, <2>5, <2>6, <2>9, <3>2, <3>3, <4>1
    <3>5. Part(s[i][2], "s") = Term(s, i)
      BY <2>1, <2>9, <3>4, PartFacts, UnitFacts
    <3> HIDE DEF T
    <3>6. f[i + 1] \in Nat /\ f[i + 1] + g[i] = g[n] /\ f[i + 1] # Invalid
      BY <1>1, <2>3, <3>2
    <3>7. f[i] = Term(s, i) + f[i + 1]
      BY <3>1, <3>5, <3>6
    <3> QED BY <2>2, <3>4, <3>6, <3>7
  <2>10. CASE NumberAt(s, i) /\ WordAt(s, i + 1)
    <3> DEFINE u == s[i + 1][2]
    <3>1. f[i] = (IF u \notin Units \/ f[i + 2] = Invalid THEN Invalid
                  ELSE Part(s[i][2], u) + f[i + 2])
      BY <2>10, RestSteps
    <3>2. Starts(s, i + 2) /\ i + 2 \in 1..(n + 1)
      BY <2>10, RestSteps
    <3>3. i + 2 \in (i + 1)..(n + 1) /\ (i + 2) - 1 = i + 1 /\ i + 1 \in 1..n /\ (i + 1) - 1 = i
      BY <1>1, <3>2
    <3>4. f[i + 2] \in Nat /\ f[i + 2] + g[i + 1] = g[n]
      <4>1. i + 2 \in T
        BY <1>4, <3>3
      <4> QED BY <3>2, <3>3, <4>1
    <3>5. UnitOf(s, i) = u
      BY <2>10 DEF UnitOf
    <3>6. g[i + 1] = g[i]
      <4>1. Term(s, i + 1) = 0
        BY <2>10, <3>3, SpanFacts DEF Term, Terms
      <4>2. g[i + 1] = g[i] + Term(s, i + 1)
        BY <1>2, <3>3
      <4> QED BY <2>2, <4>1, <4>2
    <3>7. Term(s, i) < Word /\ Term(s, i) = s[i][2] * Seconds[u] /\ Term(s, i) \in Nat /\ u \in Units
      <4>1. Term(s, i) \in Nat
        BY TermType
      <4>2. Term(s, i) = s[i][2] * Seconds[u] /\ u \in Units
        BY <2>5, <2>10, <3>5
      <4> HIDE DEF u, T
      <4>3. Term(s, i) < Word
        BY <1>1, <2>2, <2>6, <3>4, <3>6, <4>1
      <4> QED BY <4>1, <4>2, <4>3
    <3>8. Part(s[i][2], u) = Term(s, i)
      BY <2>1, <2>10, <3>7, PartFacts
    <3> HIDE DEF u, T
    <3>9. f[i + 2] # Invalid
      BY <1>1, <3>4
    <3>10. f[i] = Term(s, i) + f[i + 2]
      BY <3>1, <3>7, <3>8, <3>9
    <3>11. f[i + 2] + g[i] = g[n]
      BY <3>4, <3>6
    <3>12. Term(s, i) \in Nat /\ f[i + 2] \in Nat
      BY <3>4, <3>7
    <3> QED BY <2>2, <3>10, <3>11, <3>12
  <2> QED BY <2>1, <2>7, <2>8, <2>9, <2>10
<1>5. 1 \in T
  <2> HIDE DEF T
  <2> QED BY <1>1, <1>3, <1>4, Backward
<1>6. Starts(s, 1) /\ 1 - 1 = 0
  BY DEF Starts
<1>7. f[1] \in Nat /\ f[1] + g[0] = g[n]
  BY <1>5, <1>6
<1> QED BY <1>2, <1>7

\* So Parse is right about each span, of any length.
LEMMA EverySpan ==
  ASSUME NEW s \in Seq(Tokens)
  PROVE  IF WellFormed(s) THEN Total(s) < Word => Parse(s) = Total(s) ELSE Parse(s) = Invalid
<1>1. PICK f : /\ IsRest(s, f)
               /\ Parse(s) = (IF \A i \in DOMAIN s : s[i] = Space THEN Invalid
                              ELSE IF f[1] < Word THEN f[1] ELSE Overflow)
  BY ParseIs
<1>2. CASE WellFormed(s)
  BY <1>1, <1>2, WellFormedIs, WorthItsSum
<1>3. CASE ~WellFormed(s) /\ ~\A i \in DOMAIN s : s[i] = Space
  <2>1. f[1] = Invalid
    BY <1>1, <1>3, WellFormedIs, RefusedIfBad
  <2>2. Invalid < Word
    BY RulesAssumption DEF Invalid
  <2> QED BY <1>1, <1>3, <2>1, <2>2
<1>4. CASE ~WellFormed(s) /\ \A i \in DOMAIN s : s[i] = Space
  BY <1>1, <1>4
<1> QED BY <1>2, <1>3, <1>4

\* For spans of any length and numbers of any size (timespan.rs:12-48).
THEOREM EverySpanIsItsSum == Spec => []SpansMean
<1> DEFINE Inv == span \in Seq(Tokens)
<1>1. Init => Inv
  BY DEF Init
<1>2. Inv /\ [Next]_vars => Inv'
  <2> SUFFICES ASSUME Inv, [Next]_vars PROVE Inv'
    OBVIOUS
  <2>1. CASE OneMore
    BY <2>1 DEF OneMore, Tokens
  <2>2. CASE UNCHANGED span
    BY <2>2
  <2> QED BY <2>1, <2>2 DEF Next, vars, NextDay, Longer
<1>3. Inv => SpansMean
  BY EverySpan DEF SpansMean
<1> QED BY <1>1, <1>2, <1>3, PTL DEF Spec
=============================================================================
