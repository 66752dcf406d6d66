-------------------------------- MODULE Rules --------------------------------
(***************************************************************************)
(* The pure functions that decide whether a file has changed, whether it   *)
(* is synced, and when, against what they stand for.  A behaviour goes     *)
(* through the inputs of one of them: the days of the calendar one after   *)
(* the other, patterns and spans as they grow.                             *)
(***************************************************************************)
EXTENDS Dates, Spans, Filter

CONSTANTS LastYear,  \* bound: where the calendar ends
          Zones,     \* bound: how far from UTC, in quarters of an hour
          Letters, MaxGlob,  \* bound: patterns, and the names in paths
          Numbers, MaxSpan             \* bound: spans

ASSUME RulesAssumption ==
  /\ Zones \subseteq -52..56 /\ Numbers \subseteq Nat /\ Word \in Nat \ {0}
  /\ \A l \in Letters : l \notin {Slash, "?", "*"}

VARIABLES topic, date, days, glob, span
vars == <<topic, date, days, glob, span>>

\* The Gregorian calendar.
Leap(y) == y % 4 = 0 /\ (y % 100 = 0 => y % 400 = 0)
MonthLength(y, m) ==
  IF m = 2 THEN IF Leap(y) THEN 29 ELSE 28 ELSE IF m \in {4, 6, 9, 11} THEN 30 ELSE 31

DayAfter(d) ==
  IF d.day < MonthLength(d.year, d.month) THEN [d EXCEPT !.day = @ + 1]
  ELSE IF d.month < 12 THEN [d EXCEPT !.month = @ + 1, !.day = 1]
  ELSE [year |-> d.year + 1, month |-> 1, day |-> 1]

Init ==
  /\ topic \in {"dates", "patterns", "spans"}
  /\ date = [year |-> 1970, month |-> 1, day |-> 1] /\ days = 0
  /\ glob = <<>> /\ span = <<>>

NextDay ==
  /\ topic = "dates" /\ DayAfter(date).year <= LastYear
  /\ date' = DayAfter(date) /\ days' = days + 1
  /\ UNCHANGED <<topic, glob, span>>

Longer ==
  /\ topic = "patterns" /\ Len(glob) < MaxGlob
  /\ \E s \in Letters \union {Slash, "?", "*"} : glob' = Append(glob, s)
  /\ UNCHANGED <<topic, date, days, span>>

OneMore ==
  /\ topic = "spans" /\ Len(span) < MaxSpan
  /\ \E t \in {Number(n) : n \in Numbers} \union {Named(u) : u \in Units \union {"parsec"}}
              \union {Space} :
       /\ span # <<>> /\ t # Space => span[Len(span)][1] # t[1]
       /\ span' = Append(span, t)
  /\ UNCHANGED <<topic, date, days, glob>>

Next == NextDay \/ Longer \/ OneMore

Spec == Init /\ [][Next]_vars

-----------------------------------------------------------------------------
(***************************************************************************)
(* Properties.                                                             *)
(***************************************************************************)
\* Each day has the number of the day before and one, over leap years and the
\* century that is none, so no listing time is off by a day (listing.rs:191-232).
DaysCounted == DayNumber(date) = days

\* One instant written in two zones is one time, also where the date of one is
\* the day before: a listing written before a change of zone stays comparable.
ZoneAt(q) ==
  [sign |-> IF q < 0 THEN -1 ELSE 1,
   hours |-> (IF q < 0 THEN -q ELSE q) \div 4,
   minutes |-> 15 * ((IF q < 0 THEN -q ELSE q) % 4)]
UTC == ZoneAt(0)
ZonesAgree ==
  \A q \in Zones, t \in {0, 1439} :
    LET there == t + 15 * q
    IN  /\ there >= 1440 =>
             Minutes(DayAfter(date), (there - 1440) \div 60, there % 60, ZoneAt(q))
               = Minutes(date, t \div 60, t % 60, UTC)
        /\ there < 0 =>
             Minutes(date, (there + 1440) \div 60, (there + 1440) % 60, ZoneAt(q))
               = Minutes(DayAfter(date), t \div 60, t % 60, UTC)
        /\ there \in 0..1439 =>
             Minutes(date, there \div 60, there % 60, ZoneAt(q))
               = Minutes(date, t \div 60, t % 60, UTC)

\* The paths of a tree three levels deep.
Segments == {<<l>> : l \in Letters} \union {<<l, m>> : l, m \in Letters}
InSome(paths) == {p \o <<Slash>> \o s : p \in paths, s \in Segments}
Trees == Segments \union InSome(Segments) \union InSome(InSome(Segments))

\* Patterns rclone takes, without empty names in them.
Proper(g) ==
  /\ Body(g) # <<>> /\ Body(g)[1] # Slash
  /\ \A i \in 1..(Len(g) - 1) : g[i] = Slash => g[i + 1] # Slash
  /\ ~TooManyStars(Completed(g))

\* What the head of the module says patterns mean (filter.rs:6-14): the names at
\* the end of a path are those of the pattern, a mark or a star standing for no
\* slash and two stars for anything.  A plain pattern takes only what is that name;
\* one that ends in a slash takes all that is beneath such a directory, however
\* deep, and one with two stars in it also all beneath a directory that is such a
\* name when it is written with a slash.
Doubled(g, i) == i > 1 /\ g[i - 1] = "*"
Fits(g, t) ==
  LET F[to \in (0..Len(g)) \X (0..Len(t))] ==
        LET i == to[1]
            j == to[2]
        IN  IF i = 0 THEN j = 0
            ELSE IF g[i] = "*"
            THEN \/ F[<<IF Doubled(g, i) THEN i - 2 ELSE i - 1, j>>]
                 \/ j > 0 /\ (Doubled(g, i) \/ t[j] # Slash) /\ F[<<i, j - 1>>]
            ELSE /\ j > 0 /\ (g[i] = t[j] \/ (g[i] = "?" /\ t[j] # Slash))
                 /\ F[<<i - 1, j - 1>>]
  IN  F[<<Len(g), Len(t)>>]
EndsIn(g, path) ==
  IF Anchored(g) THEN Fits(Tail(g), path)
  ELSE Fits(g, path)
       \/ \E i \in DOMAIN path :
            path[i] = Slash /\ Fits(g, SubSeq(path, i + 1, Len(path)))
Excluded(g, path) ==
  IF IsDirRule(g)
  THEN \E dir \in Above(path) : EndsIn(SubSeq(g, 1, Len(g) - 1), dir)
  ELSE \/ EndsIn(g, path)
       \/ ForDirs(g) /\ \E dir \in Above(path) : EndsIn(g, dir \o <<Slash>>)

PatternsMean ==
  Proper(glob) => \A path \in Trees : IncludesFile(glob, path) <=> ~Excluded(glob, path)

\* rclone walks a tree from its root and never descends into a directory the
\* filter excludes, whatever the file rules say of what is in it.  A single path
\* is judged alike, so an event never pushes what a pull would skip, not even
\* where only a directory higher up is excluded ("**a/*", filter.rs:59-74).
Level1 == {dir \in Segments : IncludesDir(glob, dir)}
Level2 == {dir \in InSome(Level1) : IncludesDir(glob, dir)}
Walked ==
  {path \in Segments \union InSome(Level1) \union InSome(Level2) :
     ~Matches(Completed(glob), path)}
WalkAgrees ==
  Proper(glob) => {path \in Trees : IncludesFile(glob, path)} = Walked

\* A span whose sum a machine word can hold is the sum of its numbers in their
\* units, and is refused if a unit has no number or is not one
\* (timespan.rs:12-48).  A larger one may wrap, see the README.
UnitOf(s, i) == IF WordAt(s, i + 1) THEN s[i + 1][2] ELSE "s"
Terms(s) == {i \in DOMAIN s : NumberAt(s, i)}
Total(s) ==
  LET Sum[i \in 0..Len(s)] ==
        IF i = 0 THEN 0
        ELSE Sum[i - 1] + (IF i \in Terms(s) THEN s[i][2] * Seconds[UnitOf(s, i)] ELSE 0)
  IN  Sum[Len(s)]
WellFormed(s) ==
  /\ Terms(s) # {}
  /\ \A i \in DOMAIN s : WordAt(s, i) => s[i][2] \in Units /\ i > 1 /\ NumberAt(s, i - 1)
SpansMean ==
  IF WellFormed(span)
  THEN Total(span) < Word => Parse(span) = Total(span)
  ELSE Parse(span) = Invalid
=============================================================================
