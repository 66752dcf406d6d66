---------------------------- MODULE PatternProofs ----------------------------
(***************************************************************************)
(* Theorems about exclude patterns (modules Filter, Rules): a pattern of   *)
(* any length takes what the head of filter.rs says it means, and judging  *)
(* a path by itself is judging it as rclone's walk does.                   *)
(***************************************************************************)
EXTENDS RulesProofs, SequenceTheorems

-----------------------------------------------------------------------------
(***************************************************************************)
(* Patterns.                                                               *)
(***************************************************************************)
\* What paths and patterns are made of.
Plain == Letters \union {Slash}
Symbols == Letters \union {Slash, "?", "*"}

\* A part of a sequence.
LEMMA PartOf ==
  ASSUME NEW S, NEW t \in Seq(S), NEW a \in 1..(Len(t) + 1), NEW b \in (a - 1)..Len(t)
  PROVE  /\ SubSeq(t, a, b) \in Seq(S) /\ Len(SubSeq(t, a, b)) = b - a + 1
         /\ \A j \in 1..(b - a + 1) : SubSeq(t, a, b)[j] = t[a + j - 1] /\ a + j - 1 \in 1..Len(t)
<1>1. Len(t) \in Nat /\ a \in Int /\ b \in Int
  OBVIOUS
<1>2. \A j \in a..b : t[j] \in S
  BY <1>1
<1>3. SubSeq(t, a, b) \in Seq(S)
  BY <1>1, <1>2, SubSeqProperties
<1>4. Len(SubSeq(t, a, b)) = b - a + 1
  BY <1>1, <1>2, SubSeqProperties
<1>5. \A j \in 1..(b - a + 1) : SubSeq(t, a, b)[j] = t[a + j - 1]
  BY <1>1, <1>2, SubSeqProperties
<1>6. \A j \in 1..(b - a + 1) : a + j - 1 \in 1..Len(t)
  BY <1>1
<1> QED BY <1>3, <1>4, <1>5, <1>6

\* The symbols of patterns and of texts, and how far a step in a pattern goes.
LEMMA PatternFacts ==
  ASSUME NEW g \in Seq(Symbols), NEW t \in Seq(Plain)
  PROVE  /\ Len(g) \in Nat /\ DOMAIN g = 1..Len(g)
         /\ Len(t) \in Nat /\ DOMAIN t = 1..Len(t)
         /\ \A j \in 1..Len(t) : t[j] \in Plain /\ t[j] # "?" /\ t[j] # "*"
         /\ \A i \in 1..Len(g) : After(g, i) = i + 1 \/ (After(g, i) = i + 2 /\ i + 1 <= Len(g))
<1>1. Len(g) \in Nat /\ DOMAIN g = 1..Len(g) /\ Len(t) \in Nat /\ DOMAIN t = 1..Len(t)
  OBVIOUS
<1>2. \A j \in 1..Len(t) : t[j] \in Plain
  OBVIOUS
<1>3. \A l \in Plain : l # "?" /\ l # "*"
  BY RulesAssumption DEF Plain, Slash
<1>4. ASSUME NEW i \in 1..Len(g)
      PROVE  After(g, i) = i + 1 \/ (After(g, i) = i + 2 /\ i + 1 <= Len(g))
  <2>1. CASE StarsAt(g, i, 2)
    <3>1. i + 1 \in i..(i + 2 - 1)
      BY <1>1
    <3>2. i + 1 \in DOMAIN g
      BY <2>1, <3>1 DEF StarsAt
    <3> QED BY <1>1, <2>1, <3>2 DEF After
  <2>2. CASE ~StarsAt(g, i, 2)
    BY <2>2 DEF After
  <2> QED BY <2>1, <2>2
<1> QED BY <1>1, <1>2, <1>3, <1>4

\* What MatchesFrom says of one item and one symbol.
Cell(g, t, F, i, j) ==
  IF i > Len(g) THEN j > Len(t)
  ELSE \/ g[i] = "*" /\ F[<<After(g, i), j>>]
       \/ /\ j <= Len(t) /\ Takes(g, i, t[j])
          /\ F[<<IF g[i] = "*" THEN i ELSE i + 1, j + 1>>]
LEMMA CellType ==
  ASSUME NEW g, NEW t, NEW F, NEW i \in Int, NEW j \in Int, Len(g) \in Int, Len(t) \in Int
  PROVE  Cell(g, t, F, i, j) \in BOOLEAN
<1>1. CASE i > Len(g)
  <2>1. Cell(g, t, F, i, j) = (j > Len(t))
    BY <1>1 DEF Cell
  <2>2. (j > Len(t)) \in BOOLEAN
    OBVIOUS
  <2> QED BY <2>1, <2>2
<1>2. CASE ~(i > Len(g))
  BY <1>2 DEF Cell
<1> QED BY <1>1, <1>2
IsMatch(g, t, F) ==
  \A i \in 1..(Len(g) + 1), j \in 1..(Len(t) + 1) : F[<<i, j>>] <=> Cell(g, t, F, i, j)

\* So the recursion in MatchesFrom is one, and MatchesFrom is what it comes to.
LEMMA MatchTable ==
  ASSUME NEW g \in Seq(Symbols), NEW t \in Seq(Plain)
  PROVE  \E F : /\ IsMatch(g, t, F)
                /\ \A start \in 1..(Len(t) + 1) : MatchesFrom(g, t, start) <=> F[<<1, start>>]
<1> DEFINE n == Len(g)
           m == Len(t)
           D == (1..(n + 1)) \X (1..(m + 1))
           rank == [at \in D |-> (n + 1 - at[1]) + (m + 1 - at[2])]
           step == [F \in [D -> BOOLEAN] |-> [at \in D |-> Cell(g, t, F, at[1], at[2])]]
           M[at \in D] == Cell(g, t, M, at[1], at[2])
<1>1. n \in Nat /\ m \in Nat
  BY PatternFacts
<1>2. step \in [[D -> BOOLEAN] -> [D -> BOOLEAN]]
  <2>1. ASSUME NEW F \in [D -> BOOLEAN], NEW at \in D
        PROVE  Cell(g, t, F, at[1], at[2]) \in BOOLEAN
    <3>1. at[1] \in Int /\ at[2] \in Int /\ n \in Int /\ m \in Int
      BY <1>1
    <3> HIDE DEF D, step, rank, M
    <3> QED BY <3>1, CellType
  <2> QED BY <2>1
<1>3. rank \in [D -> 0..(n + m)]
  <2>1. ASSUME NEW at \in D PROVE (n + 1 - at[1]) + (m + 1 - at[2]) \in 0..(n + m)
    <3>1. at[1] \in 1..(n + 1) /\ at[2] \in 1..(m + 1)
      OBVIOUS
    <3> QED BY <1>1, <3>1
  <2> QED BY <2>1
<1>4. ASSUME NEW F, NEW G, NEW d \in D, \A e \in D : rank[e] < rank[d] => F[e] = G[e]
      PROVE  Cell(g, t, F, d[1], d[2]) <=> Cell(g, t, G, d[1], d[2])
  <2> DEFINE i == d[1]
             j == d[2]
  <2>1. i \in 1..(n + 1) /\ j \in 1..(m + 1) /\ rank[d] = (n + 1 - i) + (m + 1 - j)
    OBVIOUS
  <2> HIDE DEF i, j
  <2>2. ASSUME NEW k \in 1..(n + 1), NEW l \in 1..(m + 1), k + l > i + j
        PROVE  F[<<k, l>>] = G[<<k, l>>]
    <3>1. <<k, l>> \in D /\ rank[<<k, l>>] = (n + 1 - k) + (m + 1 - l)
      OBVIOUS
    <3>2. rank[<<k, l>>] < rank[d]
      <4> HIDE DEF rank, D, n, m
      <4> QED BY <1>1, <2>1, <2>2, <3>1
    <3> QED BY <1>4, <3>1, <3>2
  <2> HIDE DEF D, rank
  <2>3. i <= n => F[<<After(g, i), j>>] = G[<<After(g, i), j>>]
    <3> SUFFICES ASSUME i <= n PROVE F[<<After(g, i), j>>] = G[<<After(g, i), j>>]
      OBVIOUS
    <3>1. After(g, i) \in 1..(n + 1) /\ After(g, i) + j > i + j
      <4>1. After(g, i) = i + 1 \/ (After(g, i) = i + 2 /\ i + 1 <= n)
        BY <1>1, <2>1, PatternFacts
      <4> QED BY <1>1, <2>1, <4>1
    <3> QED BY <2>1, <2>2, <3>1
  <2>4. i <= n /\ j <= m => /\ F[<<i, j + 1>>] = G[<<i, j + 1>>]
                            /\ F[<<i + 1, j + 1>>] = G[<<i + 1, j + 1>>]
    <3> SUFFICES ASSUME i <= n, j <= m
                 PROVE  /\ F[<<i, j + 1>>] = G[<<i, j + 1>>]
                        /\ F[<<i + 1, j + 1>>] = G[<<i + 1, j + 1>>]
      OBVIOUS
    <3>1. /\ i + 1 \in 1..(n + 1) /\ j + 1 \in 1..(m + 1)
          /\ i + (j + 1) > i + j /\ (i + 1) + (j + 1) > i + j
      BY <1>1, <2>1
    <3> QED BY <2>1, <2>2, <3>1
  <2>5. Cell(g, t, F, i, j) <=> Cell(g, t, G, i, j)
    <3>1. i > n \/ i <= n
      BY <1>1, <2>1
    <3> QED BY <2>3, <2>4, <3>1 DEF Cell
  <2> QED BY <2>5 DEF i, j
<1>5. \E F \in [D -> BOOLEAN] : step[F] = F
  <2>1. \A F, G \in [D -> BOOLEAN], d \in D :
          (\A e \in D : rank[e] < rank[d] => F[e] = G[e]) => step[F][d] = step[G][d]
    <3> SUFFICES ASSUME NEW F \in [D -> BOOLEAN], NEW G \in [D -> BOOLEAN], NEW d \in D,
                        \A e \in D : rank[e] < rank[d] => F[e] = G[e]
                 PROVE  step[F][d] = step[G][d]
      OBVIOUS
    <3>1. Cell(g, t, F, d[1], d[2]) <=> Cell(g, t, G, d[1], d[2])
      <4> HIDE DEF D, rank
      <4> QED BY <1>4
    <3>2. step[F][d] = Cell(g, t, F, d[1], d[2]) /\ step[G][d] = Cell(g, t, G, d[1], d[2])
      BY DEF step
    <3>3. Cell(g, t, F, d[1], d[2]) = Cell(g, t, G, d[1], d[2])
      <4>1. d[1] \in Int /\ d[2] \in Int /\ n \in Int /\ m \in Int
        BY <1>1
      <4> HIDE DEF D, rank, step, M
      <4>2. Cell(g, t, F, d[1], d[2]) \in BOOLEAN /\ Cell(g, t, G, d[1], d[2]) \in BOOLEAN
        BY <4>1, CellType
      <4> QED BY <3>1, <4>2
    <3> QED BY <3>2, <3>3
  <2> HIDE DEF D, rank, step, M
  <2>2. n + m \in Nat
    BY <1>1
  <2>4. BOOLEAN # {}
    <3>1. TRUE \in BOOLEAN
      OBVIOUS
    <3> QED BY <3>1, Zenon
  <2>3. IsRecursion(step, rank, n + m, D, BOOLEAN)
    BY <1>2, <1>3, <2>1, <2>2, <2>4 DEF IsRecursion
  <2> QED BY <2>3, RecursionDefines
<1>6. \E F : F = [at \in D |-> Cell(g, t, F, at[1], at[2])]
  BY <1>5
<1>7. M = [at \in D |-> Cell(g, t, M, at[1], at[2])]
  <2>1. M = CHOOSE F : F = [at \in D |-> Cell(g, t, F, at[1], at[2])]
    OBVIOUS
  <2> HIDE DEF M
  <2> QED BY <1>6, <2>1
<1>8. \A start : MatchesFrom(g, t, start) = M[<<1, start>>]
  BY DEF MatchesFrom, Cell
<1> HIDE DEF M
<1>9. IsMatch(g, t, M)
  BY <1>7 DEF IsMatch
<1> QED BY <1>8, <1>9

\* What Fits says of one symbol of each.
FitCell(g, t, F, i, j) ==
  IF i = 0 THEN j = 0
  ELSE IF g[i] = "*"
  THEN \/ F[<<IF Doubled(g, i) THEN i - 2 ELSE i - 1, j>>]
       \/ j > 0 /\ (Doubled(g, i) \/ t[j] # Slash) /\ F[<<i, j - 1>>]
  ELSE /\ j > 0 /\ (g[i] = t[j] \/ (g[i] = "?" /\ t[j] # Slash))
       /\ F[<<i - 1, j - 1>>]
IsFit(g, t, F) ==
  \A i \in 0..Len(g), j \in 0..Len(t) : F[<<i, j>>] <=> FitCell(g, t, F, i, j)

\* A cell of the table of Fits is a truth value.
LEMMA FitCellType ==
  ASSUME NEW g, NEW t, NEW F, NEW i, NEW j
  PROVE  FitCell(g, t, F, i, j) \in BOOLEAN
<1>1. CASE i = 0
  BY <1>1 DEF FitCell
<1>2. CASE i # 0 /\ g[i] = "*"
  BY <1>2 DEF FitCell
<1>3. CASE i # 0 /\ g[i] # "*"
  BY <1>3 DEF FitCell
<1> QED BY <1>1, <1>2, <1>3

\* It depends on shorter beginnings only, and on the symbols up to there.
LEMMA FitCellLooksBack ==
  ASSUME NEW g, NEW t, NEW h, NEW u, NEW F, NEW G, NEW i \in Nat, NEW j \in Nat,
         i > 0 => g[i] = h[i], i > 1 => g[i - 1] = h[i - 1], j > 0 => t[j] = u[j],
         \A k, l \in Nat : k <= i /\ l <= j /\ k + l < i + j => F[<<k, l>>] = G[<<k, l>>]
  PROVE  FitCell(g, t, F, i, j) <=> FitCell(h, u, G, i, j)
<1>1. i > 0 => i - 1 \in Nat /\ i - 1 <= i /\ (i - 1) + j < i + j
  OBVIOUS
<1>2. j > 0 => j - 1 \in Nat /\ j - 1 <= j /\ i + (j - 1) < i + j
  OBVIOUS
<1>3. i > 0 /\ j > 0 => (i - 1) + (j - 1) < i + j
  OBVIOUS
<1>4. i <= i /\ j <= j
  OBVIOUS
<1>5. i > 0 => F[<<i - 1, j>>] = G[<<i - 1, j>>]
  BY <1>1, <1>4
<1>6. j > 0 => F[<<i, j - 1>>] = G[<<i, j - 1>>]
  BY <1>2, <1>4
<1>7. i > 0 /\ j > 0 => F[<<i - 1, j - 1>>] = G[<<i - 1, j - 1>>]
  BY <1>1, <1>2, <1>3
<1>8. i = 0 \/ i > 0
  OBVIOUS
<1>9. (Doubled(g, i) <=> Doubled(h, i)) /\ (Doubled(g, i) => F[<<i - 2, j>>] = G[<<i - 2, j>>])
  <2>1. i > 1 => i - 2 \in Nat /\ i - 2 <= i /\ (i - 2) + j < i + j
    OBVIOUS
  <2> QED BY <1>4, <2>1 DEF Doubled
<1> QED BY <1>5, <1>6, <1>7, <1>8, <1>9 DEF FitCell

\* So the recursion in Fits is one, and Fits is what it comes to.
LEMMA FitsTable ==
  ASSUME NEW g \in Seq(Symbols), NEW t \in Seq(Plain)
  PROVE  \E F : IsFit(g, t, F) /\ (Fits(g, t) <=> F[<<Len(g), Len(t)>>])
<1> DEFINE n == Len(g)
           m == Len(t)
           D == (0..n) \X (0..m)
           rank == [to \in D |-> to[1] + to[2]]
           step == [F \in [D -> BOOLEAN] |-> [to \in D |-> FitCell(g, t, F, to[1], to[2])]]
           S[to \in D] == FitCell(g, t, S, to[1], to[2])
<1>1. n \in Nat /\ m \in Nat
  BY PatternFacts
<1>2. step \in [[D -> BOOLEAN] -> [D -> BOOLEAN]]
  BY FitCellType
<1>3. rank \in [D -> 0..(n + m)]
  <2>1. ASSUME NEW to \in D PROVE to[1] + to[2] \in 0..(n + m)
    <3>1. to[1] \in 0..n /\ to[2] \in 0..m
      OBVIOUS
    <3> QED BY <1>1, <3>1
  <2> QED BY <2>1
<1>4. ASSUME NEW F, NEW G, NEW d \in D, \A e \in D : rank[e] < rank[d] => F[e] = G[e]
      PROVE  FitCell(g, t, F, d[1], d[2]) = FitCell(g, t, G, d[1], d[2])
  <2> DEFINE i == d[1]
             j == d[2]
  <2>1. i \in 0..n /\ j \in 0..m /\ rank[d] = i + j /\ i \in Nat /\ j \in Nat
    BY <1>1
  <2> HIDE DEF i, j
  <2>2. ASSUME NEW k \in Nat, NEW l \in Nat, k <= i, l <= j, k + l < i + j
        PROVE  F[<<k, l>>] = G[<<k, l>>]
    <3>1. k \in 0..n /\ l \in 0..m
      BY <1>1, <2>1, <2>2
    <3>2. <<k, l>> \in D /\ rank[<<k, l>>] = k + l
      BY <3>1
    <3> HIDE DEF D, rank
    <3> QED BY <1>4, <2>1, <2>2, <3>2
  <2>3. FitCell(g, t, F, i, j) <=> FitCell(g, t, G, i, j)
    BY <2>1, <2>2, FitCellLooksBack
  <2> QED BY <2>3, FitCellType DEF i, j
<1>5. \E F \in [D -> BOOLEAN] : step[F] = F
  <2>1. \A F, G \in [D -> BOOLEAN], d \in D :
          (\A e \in D : rank[e] < rank[d] => F[e] = G[e]) => step[F][d] = step[G][d]
    <3> SUFFICES ASSUME NEW F \in [D -> BOOLEAN], NEW G \in [D -> BOOLEAN], NEW d \in D,
                        \A e \in D : rank[e] < rank[d] => F[e] = G[e]
                 PROVE  step[F][d] = step[G][d]
      OBVIOUS
    <3>1. FitCell(g, t, F, d[1], d[2]) = FitCell(g, t, G, d[1], d[2])
      <4> HIDE DEF D, rank
      <4> QED BY <1>4
    <3> QED BY <3>1
  <2> HIDE DEF D, rank, step, S
  <2>2. n + m \in Nat
    BY <1>1
  <2>3. BOOLEAN # {}
    <3>1. TRUE \in BOOLEAN
      OBVIOUS
    <3> QED BY <3>1, Zenon
  <2>4. IsRecursion(step, rank, n + m, D, BOOLEAN)
    BY <1>2, <1>3, <2>1, <2>2, <2>3 DEF IsRecursion
  <2> QED BY <2>4, RecursionDefines
<1>6. \E F : F = [to \in D |-> FitCell(g, t, F, to[1], to[2])]
  BY <1>5
<1>7. S = [to \in D |-> FitCell(g, t, S, to[1], to[2])]
  <2>1. S = CHOOSE F : F = [to \in D |-> FitCell(g, t, F, to[1], to[2])]
    OBVIOUS
  <2> HIDE DEF S
  <2> QED BY <1>6, <2>1
<1>8. Fits(g, t) = S[<<n, m>>]
  BY DEF Fits, FitCell
<1> HIDE DEF S
<1>9. IsFit(g, t, S)
  BY <1>7 DEF IsFit
<1> QED BY <1>8, <1>9

\* The beginnings of a pattern and of a text fit as the table has it.
LEMMA FitsBeginnings ==
  ASSUME NEW g \in Seq(Symbols), NEW t \in Seq(Plain), NEW F, IsFit(g, t, F),
         NEW a \in 0..Len(g), NEW c \in 0..Len(t)
  PROVE  Fits(SubSeq(g, 1, a), SubSeq(t, 1, c)) <=> F[<<a, c>>]
<1> DEFINE h == SubSeq(g, 1, a)
           u == SubSeq(t, 1, c)
<1>1. Len(g) \in Nat /\ Len(t) \in Nat /\ a \in Nat /\ c \in Nat
  BY PatternFacts
<1>2. h \in Seq(Symbols) /\ Len(h) = a /\ \A i \in 1..a : h[i] = g[i]
  <2>1. \A i \in 1..a : g[i] \in Symbols
    BY <1>1
  <2> QED BY <1>1, <2>1, SubSeqProperties
<1>3. u \in Seq(Plain) /\ Len(u) = c /\ \A j \in 1..c : u[j] = t[j]
  <2>1. \A j \in 1..c : t[j] \in Plain
    BY <1>1
  <2> QED BY <1>1, <2>1, SubSeqProperties
<1> HIDE DEF h, u
<1>4. PICK G : IsFit(h, u, G) /\ (Fits(h, u) <=> G[<<a, c>>])
  BY <1>2, <1>3, FitsTable
<1> DEFINE T == {k \in Nat : \A i \in 0..a, j \in 0..c :
                                i + j < k => (F[<<i, j>>] <=> G[<<i, j>>])}
<1>5. 0 \in T
  OBVIOUS
<1>6. ASSUME NEW k \in Nat, k \in T PROVE k + 1 \in T
  <2>1. ASSUME NEW i \in 0..a, NEW j \in 0..c, i + j < k + 1
        PROVE  F[<<i, j>>] <=> G[<<i, j>>]
    <3>1. /\ F[<<i, j>>] <=> FitCell(g, t, F, i, j)
          /\ G[<<i, j>>] <=> FitCell(h, u, G, i, j)
      <4>1. i \in 0..Len(g) /\ j \in 0..Len(t) /\ i \in 0..Len(h) /\ j \in 0..Len(u)
        BY <1>1, <1>2, <1>3
      <4> QED BY <1>4, <4>1 DEF IsFit
    <3>2. /\ i > 0 => g[i] = h[i] /\ (F[<<i - 1, j>>] <=> G[<<i - 1, j>>])
          /\ i > 1 => g[i - 1] = h[i - 1] /\ (F[<<i - 2, j>>] <=> G[<<i - 2, j>>])
          /\ j > 0 => t[j] = u[j] /\ (F[<<i, j - 1>>] <=> G[<<i, j - 1>>])
          /\ i > 0 /\ j > 0 => (F[<<i - 1, j - 1>>] <=> G[<<i - 1, j - 1>>])
      <4>1. i > 0 => i \in 1..a /\ i - 1 \in 0..a /\ (i - 1) + j < k
        BY <1>1, <2>1
      <4>2. j > 0 => j \in 1..c /\ j - 1 \in 0..c /\ i + (j - 1) < k
        BY <1>1, <2>1
      <4>3. i > 0 /\ j > 0 => (i - 1) + (j - 1) < k
        BY <1>1, <2>1
      <4>4. i > 1 => i - 1 \in 1..a /\ i - 2 \in 0..a /\ (i - 2) + j < k
        BY <1>1, <2>1
      <4> QED BY <1>2, <1>3, <1>6, <4>1, <4>2, <4>3, <4>4
    <3>7. /\ Doubled(g, i) <=> Doubled(h, i)
          /\ Doubled(g, i) => (F[<<i - 2, j>>] <=> G[<<i - 2, j>>])
      BY <3>2 DEF Doubled
    <3>3. (i = 0 \/ i > 0) /\ (j = 0 \/ j > 0)
      BY <1>1
    <3> HIDE DEF T
    <3>4. CASE i = 0
      BY <3>1, <3>4 DEF FitCell
    <3>5. CASE i > 0 /\ j = 0
      BY <3>1, <3>2, <3>5, <3>7 DEF FitCell
    <3>6. CASE i > 0 /\ j > 0
      BY <3>1, <3>2, <3>6, <3>7 DEF FitCell
    <3> QED BY <3>3, <3>4, <3>5, <3>6
  <2> QED BY <2>1
<1>7. a + c + 1 \in T
  <2> HIDE DEF T
  <2> QED BY <1>1, <1>5, <1>6, AllOf
<1>8. F[<<a, c>>] <=> G[<<a, c>>]
  <2>1. a \in 0..a /\ c \in 0..c /\ a + c < a + c + 1
    BY <1>1
  <2> QED BY <1>7, <2>1
<1> QED BY <1>4, <1>8 DEF h, u

\* Whether the first i items of a pattern fit a text from its sth symbol to its kth.
Reach(g, t, s, i, k) == Fits(SubSeq(g, 1, i), SubSeq(t, s, k))

\* A step of Fits, read as one of the matcher.
LEMMA ReachSteps ==
  ASSUME NEW g \in Seq(Symbols), NEW t \in Seq(Plain), NEW s \in 1..(Len(t) + 1),
         NEW i \in 0..Len(g), NEW k \in (s - 1)..Len(t)
  PROVE  /\ i = 0 => (Reach(g, t, s, i, k) <=> k = s - 1)
         /\ i > 0 /\ g[i] = "*" /\ ~Doubled(g, i) =>
              (Reach(g, t, s, i, k) <=>
                 \/ Reach(g, t, s, i - 1, k)
                 \/ k > s - 1 /\ t[k] # Slash /\ Reach(g, t, s, i, k - 1))
         /\ g[i] = "*" /\ Doubled(g, i) =>
              (Reach(g, t, s, i, k) <=>
                 \/ Reach(g, t, s, i - 2, k)
                 \/ k > s - 1 /\ Reach(g, t, s, i, k - 1))
         /\ i > 0 /\ g[i] # "*" =>
              (Reach(g, t, s, i, k) <=>
                 /\ k > s - 1 /\ Takes(g, i, t[k])
                 /\ Reach(g, t, s, i - 1, k - 1))
<1> DEFINE m == Len(t)
           u == SubSeq(t, s, m)
           l == k - s + 1
<1>1. Len(g) \in Nat /\ m \in Nat /\ s \in Nat /\ l \in Nat /\ i \in Nat /\ k \in Nat
  BY PatternFacts
<1>2. u \in Seq(Plain) /\ Len(u) = m - s + 1 /\ \A j \in 1..(m - s + 1) : u[j] = t[s + j - 1]
  <2>1. s \in 1..(m + 1) /\ m \in (s - 1)..m
    BY <1>1
  <2> QED BY <2>1, PartOf
<1>3. ASSUME NEW c \in 0..(m - s + 1)
      PROVE  SubSeq(u, 1, c) = SubSeq(t, s, s + c - 1)
  <2> DEFINE v == SubSeq(u, 1, c)
             w == SubSeq(t, s, s + c - 1)
  <2>1. v \in Seq(Plain) /\ Len(v) = c /\ \A j \in 1..c : v[j] = u[j]
    <3>1. 1 \in 1..(Len(u) + 1) /\ c \in (1 - 1)..Len(u) /\ c - 1 + 1 = c
      BY <1>1, <1>2
    <3>2. \A j \in 1..c : 1 + j - 1 = j
      BY <1>1
    <3> QED BY <1>2, <3>1, <3>2, PartOf
  <2>2. w \in Seq(Plain) /\ Len(w) = c /\ \A j \in 1..c : w[j] = t[s + j - 1]
    <3>1. s \in 1..(Len(t) + 1) /\ s + c - 1 \in (s - 1)..Len(t) /\ s + c - 1 - s + 1 = c
      BY <1>1
    <3> QED BY <3>1, PartOf
  <2>3. \A j \in 1..c : v[j] = w[j]
    <3>1. \A j \in 1..c : j \in 1..(m - s + 1)
      BY <1>1
    <3> HIDE DEF v, w
    <3> QED BY <1>2, <2>1, <2>2, <3>1
  <2> HIDE DEF v, w
  <2>4. v = w
    BY <2>1, <2>2, <2>3, SeqEqual
  <2> QED BY <2>4 DEF v, w
<1> HIDE DEF u
<1>4. PICK F : IsFit(g, u, F)
  BY <1>2, FitsTable
<1>5. ASSUME NEW a \in 0..Len(g), NEW c \in 0..(m - s + 1)
      PROVE  Reach(g, t, s, a, s + c - 1) <=> F[<<a, c>>]
  <2>1. Fits(SubSeq(g, 1, a), SubSeq(u, 1, c)) <=> F[<<a, c>>]
    BY <1>2, <1>4, FitsBeginnings
  <2> QED BY <1>3, <2>1 DEF Reach
<1>6. l \in 0..(m - s + 1) /\ s + l - 1 = k /\ (k > s - 1 <=> l > 0) /\ (k = s - 1 <=> l = 0)
  BY <1>1
<1>7. /\ Reach(g, t, s, i, k) <=> F[<<i, l>>]
      /\ i > 0 => (Reach(g, t, s, i - 1, k) <=> F[<<i - 1, l>>])
      /\ i > 1 => (Reach(g, t, s, i - 2, k) <=> F[<<i - 2, l>>])
      /\ l > 0 => (Reach(g, t, s, i, k - 1) <=> F[<<i, l - 1>>])
      /\ i > 0 /\ l > 0 => (Reach(g, t, s, i - 1, k - 1) <=> F[<<i - 1, l - 1>>])
      /\ l > 0 => u[l] = t[k] /\ t[k] \in Plain
  <2>1. (i > 0 => i - 1 \in 0..Len(g)) /\ (i > 1 => i - 2 \in 0..Len(g))
    BY <1>1
  <2>2. l > 0 => l - 1 \in 0..(m - s + 1) /\ s + (l - 1) - 1 = k - 1 /\ l \in 1..(m - s + 1) /\ k \in 1..m
    BY <1>1, <1>6
  <2> HIDE DEF l
  <2> QED BY <1>2, <1>5, <1>6, <2>1, <2>2, PatternFacts
<1>8. F[<<i, l>>] <=> FitCell(g, u, F, i, l)
  BY <1>2, <1>4, <1>6 DEF IsFit
<1>9. l > 0 /\ i > 0 /\ g[i] # "*" =>
        (Takes(g, i, t[k]) <=> (g[i] = t[k] \/ (g[i] = "?" /\ t[k] # Slash)))
  <2>1. \A x \in Plain : x # "?"
    BY RulesAssumption DEF Plain, Slash
  <2> QED BY <1>7, <2>1 DEF Takes
<1> HIDE DEF l
<1>10. i = 0 => (FitCell(g, u, F, i, l) <=> l = 0)
  BY DEF FitCell
<1>11. i > 0 /\ g[i] = "*" /\ ~Doubled(g, i) =>
         (FitCell(g, u, F, i, l) <=>
            F[<<i - 1, l>>] \/ (l > 0 /\ u[l] # Slash /\ F[<<i, l - 1>>]))
  BY DEF FitCell
<1>16. i > 1 /\ g[i] = "*" /\ Doubled(g, i) =>
         (FitCell(g, u, F, i, l) <=> F[<<i - 2, l>>] \/ (l > 0 /\ F[<<i, l - 1>>]))
  BY DEF FitCell
<1>12. i > 0 /\ g[i] # "*" =>
         (FitCell(g, u, F, i, l) <=>
            /\ l > 0 /\ (g[i] = u[l] \/ (g[i] = "?" /\ u[l] # Slash))
            /\ F[<<i - 1, l - 1>>])
  BY DEF FitCell
<1>13. i = 0 => (Reach(g, t, s, i, k) <=> k = s - 1)
  BY <1>6, <1>7, <1>8, <1>10
<1>14. i > 0 /\ g[i] = "*" /\ ~Doubled(g, i) =>
         (Reach(g, t, s, i, k) <=>
            \/ Reach(g, t, s, i - 1, k)
            \/ k > s - 1 /\ t[k] # Slash /\ Reach(g, t, s, i, k - 1))
  BY <1>6, <1>7, <1>8, <1>11
<1>15. i > 0 /\ g[i] # "*" =>
         (Reach(g, t, s, i, k) <=>
            /\ k > s - 1 /\ Takes(g, i, t[k])
            /\ Reach(g, t, s, i - 1, k - 1))
  BY <1>6, <1>7, <1>8, <1>9, <1>12
<1>17. g[i] = "*" /\ Doubled(g, i) =>
         (Reach(g, t, s, i, k) <=>
            \/ Reach(g, t, s, i - 2, k)
            \/ k > s - 1 /\ Reach(g, t, s, i, k - 1))
  <2>1. Doubled(g, i) => i > 1
    BY DEF Doubled
  <2> QED BY <1>6, <1>7, <1>8, <1>16, <2>1
<1> QED BY <1>13, <1>14, <1>15, <1>17

\* A star, single or double, between two places of a pattern: the places P of a
\* text that fit up to before it, Q those that fit up to behind it, and from where
\* the matcher goes on, X at the star and Y behind it.  It may take what is Free.
AtStar(m, s, P, Q, X, Y, Free) ==
  \A k \in (s - 1)..m :
    /\ k \in X <=> k \in Y \/ (k < m /\ k + 1 \in Free /\ k + 1 \in X)
    /\ k \in Q <=> k \in P \/ (k > s - 1 /\ k \in Free /\ k - 1 \in Q)
LEMMA StarMeets ==
  ASSUME NEW m \in Nat, NEW s \in 1..(m + 1), NEW P, NEW Q, NEW X, NEW Y, NEW Free,
         AtStar(m, s, P, Q, X, Y, Free)
  PROVE  (\E k \in (s - 1)..m : k \in P /\ k \in X)
           <=> (\E k \in (s - 1)..m : k \in Q /\ k \in Y)
<1> DEFINE K == (s - 1)..m
           Before == \E k \in K : k \in P /\ k \in X
           Behind == \E k \in K : k \in Q /\ k \in Y
           T == {d \in Nat : \A k \in K : k - (s - 1) < d => (k \in Q /\ k \in X => Before)}
           U == {d \in Nat : \A k \in K : m - k < d => (k \in Q /\ k \in X => Behind)}
<1>1. m \in Nat /\ s \in Nat
  OBVIOUS
<1>9. \A k \in K :
        /\ k \in X <=> k \in Y \/ (k < m /\ k + 1 \in Free /\ k + 1 \in X)
        /\ k \in Q <=> k \in P \/ (k > s - 1 /\ k \in Free /\ k - 1 \in Q)
  BY DEF AtStar
<1>2. 0 \in T /\ 0 \in U
  BY <1>1
<1>3. ASSUME NEW d \in Nat, d \in T PROVE d + 1 \in T
  <2>1. ASSUME NEW k \in K, k - (s - 1) < d + 1, k \in Q, k \in X
        PROVE  Before
    <3>1. CASE k \in P
      BY <2>1, <3>1
    <3>2. CASE k > s - 1 /\ k \in Free /\ k - 1 \in Q
      <4>1. k - 1 \in K /\ (k - 1) - (s - 1) < d /\ (k - 1) + 1 = k /\ k - 1 < m
        BY <1>1, <2>1, <3>2
      <4>2. k - 1 \in X
        BY <1>9, <2>1, <3>2, <4>1
      <4> HIDE DEF Before
      <4> QED BY <1>3, <3>2, <4>1, <4>2
    <3> QED BY <1>9, <2>1, <3>1, <3>2
  <2> HIDE DEF Before
  <2> QED BY <2>1
<1>4. ASSUME NEW d \in Nat, d \in U PROVE d + 1 \in U
  <2>1. ASSUME NEW k \in K, m - k < d + 1, k \in Q, k \in X
        PROVE  Behind
    <3>1. CASE k \in Y
      BY <2>1, <3>1
    <3>2. CASE k < m /\ k + 1 \in Free /\ k + 1 \in X
      <4>1. k + 1 \in K /\ m - (k + 1) < d /\ (k + 1) - 1 = k /\ k + 1 > s - 1
        BY <1>1, <2>1, <3>2
      <4>2. k + 1 \in Q
        BY <1>9, <2>1, <3>2, <4>1
      <4> HIDE DEF Behind
      <4> QED BY <1>4, <3>2, <4>1, <4>2
    <3> QED BY <1>9, <2>1, <3>1, <3>2
  <2> HIDE DEF Behind
  <2> QED BY <2>1
<1>5. Nat \subseteq T /\ Nat \subseteq U
  <2> HIDE DEF T, U
  <2> QED BY <1>2, <1>3, <1>4, AllOf
<1>6. ASSUME NEW k \in K, k \in Q, k \in X
      PROVE  Before /\ Behind
  <2>1. k - (s - 1) + 1 \in T /\ m - k + 1 \in U
    <3>1. k - (s - 1) + 1 \in Nat /\ m - k + 1 \in Nat
      BY <1>1
    <3> HIDE DEF T, U
    <3> QED BY <1>5, <3>1
  <2>2. k - (s - 1) < k - (s - 1) + 1 /\ m - k < m - k + 1
    BY <1>1
  <2> HIDE DEF Before, Behind
  <2> QED BY <1>6, <2>1, <2>2
<1>7. (Before \/ Behind) => \E k \in K : k \in Q /\ k \in X
  <2> HIDE DEF K
  <2> QED BY <1>9
<1>8. Before <=> Behind
  <2> HIDE DEF Before, Behind
  <2> QED BY <1>6, <1>7
<1> QED BY <1>8

\* Before a symbol that is no star, and behind it, the table of the matcher meets
\* what fits up to there at the same places.
LEMMA MeetPlain ==
  ASSUME NEW g \in Seq(Symbols), NEW t \in Seq(Plain), NEW M, IsMatch(g, t, M),
         NEW s \in 1..(Len(t) + 1), NEW i \in 1..Len(g), g[i] # "*"
  PROVE  (\E k \in (s - 1)..Len(t) : Reach(g, t, s, i - 1, k) /\ M[<<i, k + 1>>])
           <=> (\E k \in (s - 1)..Len(t) : Reach(g, t, s, i, k) /\ M[<<i + 1, k + 1>>])
<1> DEFINE m == Len(t)
           K == (s - 1)..m
<1>1. Len(g) \in Nat /\ m \in Nat /\ s \in Nat /\ i \in Nat /\ i \in 0..Len(g) /\ i - 1 \in 0..Len(g) /\ i > 0
  BY PatternFacts
<1>2. ASSUME NEW j \in 1..(m + 1)
      PROVE  M[<<i, j>>] <=> Cell(g, t, M, i, j)
  <2>1. i \in 1..(Len(g) + 1)
    BY <1>1
  <2> QED BY <2>1 DEF IsMatch
<1>3. ~(i > Len(g))
  BY <1>1
<1>4. ASSUME NEW k \in K, k < m
      PROVE  Reach(g, t, s, i - 1, k) /\ M[<<i, k + 1>>]
               <=> Reach(g, t, s, i, k + 1) /\ M[<<i + 1, k + 1 + 1>>]
  <2>1. k + 1 \in 1..(m + 1) /\ k + 1 <= m /\ k + 1 \in K /\ k + 1 > s - 1 /\ (k + 1) - 1 = k
    BY <1>1, <1>4
  <2>2. M[<<i, k + 1>>] <=> Takes(g, i, t[k + 1]) /\ M[<<i + 1, k + 1 + 1>>]
    BY <1>2, <1>3, <2>1 DEF Cell
  <2>3. Reach(g, t, s, i, k + 1) <=> Takes(g, i, t[k + 1]) /\ Reach(g, t, s, i - 1, k)
    <3>1. k + 1 \in (s - 1)..Len(t) /\ i > 0 /\ i \in 0..Len(g)
      BY <1>1, <2>1
    <3>2. Reach(g, t, s, i, k + 1) <=>
            /\ k + 1 > s - 1 /\ Takes(g, i, t[k + 1])
            /\ Reach(g, t, s, i - 1, (k + 1) - 1)
      BY <3>1, ReachSteps
    <3> QED BY <2>1, <3>2
  <2> QED BY <2>2, <2>3
<1>5. ~M[<<i, m + 1>>]
  <2>1. m + 1 \in 1..(m + 1) /\ ~(m + 1 <= m)
    BY <1>1
  <2> QED BY <1>2, <1>3, <2>1 DEF Cell
<1>6. ASSUME NEW k \in K, Reach(g, t, s, i - 1, k), M[<<i, k + 1>>]
      PROVE  \E l \in K : Reach(g, t, s, i, l) /\ M[<<i + 1, l + 1>>]
  <2>1. k # m
    BY <1>5, <1>6
  <2>2. k < m /\ k + 1 \in K
    BY <1>1, <2>1
  <2> QED BY <1>4, <1>6, <2>2
<1>7. ASSUME NEW l \in K, Reach(g, t, s, i, l), M[<<i + 1, l + 1>>]
      PROVE  \E k \in K : Reach(g, t, s, i - 1, k) /\ M[<<i, k + 1>>]
  <2>1. l > s - 1
    BY <1>1, <1>7, ReachSteps
  <2>2. l - 1 \in K /\ l - 1 < m /\ (l - 1) + 1 = l
    BY <1>1, <2>1
  <2> QED BY <1>4, <1>7, <2>2
<1> QED BY <1>6, <1>7

\* Before a star and behind it, be it one or two.
LEMMA MeetStar ==
  ASSUME NEW g \in Seq(Symbols), NEW t \in Seq(Plain), NEW M, IsMatch(g, t, M),
         NEW s \in 1..(Len(t) + 1), NEW i \in 1..Len(g), g[i] = "*", ~Doubled(g, i),
         NEW e, e = After(g, i)
  PROVE  (\E k \in (s - 1)..Len(t) : Reach(g, t, s, i - 1, k) /\ M[<<i, k + 1>>])
           <=> (\E k \in (s - 1)..Len(t) : Reach(g, t, s, e - 1, k) /\ M[<<e, k + 1>>])
<1> DEFINE m == Len(t)
           K == (s - 1)..m
           P == {k \in K : Reach(g, t, s, i - 1, k)}
           Q == {k \in K : Reach(g, t, s, e - 1, k)}
           X == {k \in K : M[<<i, k + 1>>]}
           Y == {k \in K : M[<<e, k + 1>>]}
           Free == {k \in Nat : StarsAt(g, i, 2) \/ t[k] # Slash}
<1>1. /\ Len(g) \in Nat /\ DOMAIN g = 1..Len(g) /\ m \in Nat /\ s \in Nat /\ i \in Nat
      /\ e = i + 1 \/ (e = i + 2 /\ i + 1 <= Len(g))
  BY PatternFacts
<1>2. StarsAt(g, i, 2) => e = i + 2 /\ e - 1 = i + 1 /\ g[i + 1] = "*" /\ Doubled(g, i + 1)
                          /\ i + 1 \in 0..Len(g) /\ (i + 1) - 2 = i - 1
  <2> SUFFICES ASSUME StarsAt(g, i, 2)
               PROVE  e = i + 2 /\ e - 1 = i + 1 /\ g[i + 1] = "*" /\ Doubled(g, i + 1)
                      /\ i + 1 \in 0..Len(g) /\ (i + 1) - 2 = i - 1
    OBVIOUS
  <2>1. e = i + 2
    BY <1>1 DEF After
  <2>2. g[i + 1] = "*"
    <3>1. i + 1 \in i..(i + 2 - 1)
      BY <1>1
    <3> QED BY <3>1 DEF StarsAt
  <2>3. i + 1 > 1 /\ (i + 1) - 1 = i
    BY <1>1
  <2> QED BY <1>1, <2>1, <2>2, <2>3 DEF Doubled
<1>3. ~StarsAt(g, i, 2) => e = i + 1 /\ e - 1 = i
  BY <1>1 DEF After
<1>4. ASSUME NEW k \in K
      PROVE  M[<<i, k + 1>>] <=>
               \/ M[<<e, k + 1>>]
               \/ k < m /\ k + 1 \in Free /\ M[<<i, (k + 1) + 1>>]
  <2>1. i \in 1..(Len(g) + 1) /\ k + 1 \in 1..(m + 1) /\ (k + 1 <= m <=> k < m) /\ ~(i > Len(g))
        /\ k + 1 \in Nat
    BY <1>1
  <2>2. M[<<i, k + 1>>] <=> Cell(g, t, M, i, k + 1)
    BY <2>1 DEF IsMatch
  <2>3. Takes(g, i, t[k + 1]) <=> k + 1 \in Free
    BY <2>1 DEF Takes
  <2> HIDE DEF Free
  <2> QED BY <2>1, <2>2, <2>3 DEF Cell
<1>5. ASSUME NEW k \in K
      PROVE  Reach(g, t, s, e - 1, k) <=>
               \/ Reach(g, t, s, i - 1, k)
               \/ k > s - 1 /\ k \in Free /\ Reach(g, t, s, e - 1, k - 1)
  <2>1. k \in Nat /\ i \in 0..Len(g) /\ i > 0
    BY <1>1
  <2>2. CASE StarsAt(g, i, 2)
    <3>1. Reach(g, t, s, i + 1, k) <=>
            \/ Reach(g, t, s, (i + 1) - 2, k)
            \/ k > s - 1 /\ Reach(g, t, s, i + 1, k - 1)
      BY <1>2, <2>2, ReachSteps
    <3> QED BY <1>2, <2>1, <2>2, <3>1
  <2>3. CASE ~StarsAt(g, i, 2)
    <3>1. Reach(g, t, s, i, k) <=>
            \/ Reach(g, t, s, i - 1, k)
            \/ k > s - 1 /\ t[k] # Slash /\ Reach(g, t, s, i, k - 1)
      BY <2>1, ReachSteps
    <3> QED BY <1>3, <2>1, <2>3, <3>1
  <2> QED BY <2>2, <2>3
<1>6. ASSUME NEW k \in K
      PROVE  /\ k \in X <=> k \in Y \/ (k < m /\ k + 1 \in Free /\ k + 1 \in X)
             /\ k \in Q <=> k \in P \/ (k > s - 1 /\ k \in Free /\ k - 1 \in Q)
  <2>1. (k < m => k + 1 \in K) /\ (k > s - 1 => k - 1 \in K)
    BY <1>1
  <2> HIDE DEF K, Free
  <2> QED BY <1>4, <1>5, <2>1
<1>7. (\E k \in K : k \in P /\ k \in X) <=> (\E k \in K : k \in Q /\ k \in Y)
  <2> HIDE DEF P, Q, X, Y, Free
  <2>1. m \in Nat /\ s \in 1..(m + 1)
    BY <1>1
  <2>2. AtStar(m, s, P, Q, X, Y, Free)
    BY <1>6 DEF AtStar
  <2> HIDE DEF m
  <2>3. (\E k \in (s - 1)..m : k \in P /\ k \in X) <=> (\E k \in (s - 1)..m : k \in Q /\ k \in Y)
    BY <2>1, <2>2, StarMeets
  <2> QED BY <2>3
<1>8. (\E k \in K : Reach(g, t, s, i - 1, k) /\ M[<<i, k + 1>>])
        <=> (\E k \in K : Reach(g, t, s, e - 1, k) /\ M[<<e, k + 1>>])
  <2> HIDE DEF K
  <2> QED BY <1>7
<1> QED BY <1>8

\* So from the start up to any place that is not between two stars.
LEMMA Meets ==
  ASSUME NEW g \in Seq(Symbols), ~TooManyStars(g), NEW t \in Seq(Plain),
         NEW M, IsMatch(g, t, M), NEW s \in 1..(Len(t) + 1),
         NEW b \in 0..Len(g), b > 0 => ~StarsAt(g, b, 2)
  PROVE  M[<<1, s>>] <=>
           \E k \in (s - 1)..Len(t) : Reach(g, t, s, b, k) /\ M[<<b + 1, k + 1>>]
<1> DEFINE K == (s - 1)..Len(t)
           Meet(d) == \E k \in K : Reach(g, t, s, d, k) /\ M[<<d + 1, k + 1>>]
           Between(d) == d > 0 /\ StarsAt(g, d, 2)
           T == {d \in Nat : \A c \in 0..Len(g) :
                               c <= d /\ ~Between(c) => (M[<<1, s>>] <=> Meet(c))}
<1>1. /\ Len(g) \in Nat /\ DOMAIN g = 1..Len(g) /\ Len(t) \in Nat /\ s \in Nat /\ b \in Nat
  BY PatternFacts
<1>2. Meet(0) <=> M[<<1, s>>]
  <2>1. s - 1 \in K /\ (s - 1) + 1 = s /\ 0 + 1 = 1 /\ 0 \in 0..Len(g) /\ 0 \in Nat
    BY <1>1
  <2>2. \A k \in K : Reach(g, t, s, 0, k) <=> k = s - 1
    BY <2>1, ReachSteps
  <2> QED BY <2>1, <2>2
<1>3. 0 \in T
  <2>1. \A c \in 0..Len(g) : c <= 0 => c = 0
    BY <1>1
  <2> HIDE DEF Meet
  <2> QED BY <1>2, <2>1
<1>4. ASSUME NEW d \in Nat, d \in T PROVE d + 1 \in T
  <2>1. ASSUME NEW c \in 0..Len(g), c = d + 1, ~Between(c)
        PROVE  M[<<1, s>>] <=> Meet(c)
    <3>1. c \in 1..Len(g) /\ c - 1 \in 0..Len(g) /\ c - 1 <= d /\ (c - 1) + 1 = c
          /\ c > 0 /\ ~StarsAt(g, c, 2) /\ c \in Nat
      BY <1>1, <2>1
    <3>2. ASSUME g[c] # "*" \/ ~Doubled(g, c)
          PROVE  ~Between(c - 1) /\ (Meet(c - 1) <=> Meet(c))
      <4>1. ~Between(c - 1)
        <5> SUFFICES ASSUME c - 1 > 0, StarsAt(g, c - 1, 2) PROVE FALSE
          OBVIOUS
        <5>1. c - 1 \in (c - 1)..(c - 1 + 2 - 1) /\ c \in (c - 1)..(c - 1 + 2 - 1) /\ c > 1
          BY <3>1
        <5>2. g[c - 1] = "*" /\ g[c] = "*"
          BY <5>1 DEF StarsAt
        <5> QED BY <3>2, <5>1, <5>2 DEF Doubled
      <4>2. CASE g[c] # "*"
        <5>1. (\E k \in K : Reach(g, t, s, c - 1, k) /\ M[<<c, k + 1>>])
                <=> (\E k \in K : Reach(g, t, s, c, k) /\ M[<<c + 1, k + 1>>])
          BY <3>1, <4>2, MeetPlain
        <5> QED BY <3>1, <4>1, <5>1
      <4>3. CASE g[c] = "*"
        <5>1. After(g, c) = c + 1 /\ (c + 1) - 1 = c
          BY <3>1 DEF After
        <5>2. (\E k \in K : Reach(g, t, s, c - 1, k) /\ M[<<c, k + 1>>])
                <=> (\E k \in K : Reach(g, t, s, (c + 1) - 1, k) /\ M[<<c + 1, k + 1>>])
          BY <3>1, <3>2, <4>3, <5>1, MeetStar
        <5> QED BY <3>1, <4>1, <5>1, <5>2
      <4> QED BY <4>2, <4>3
    <3>3. ASSUME g[c] = "*", Doubled(g, c)
          PROVE  /\ c - 2 \in 0..Len(g) /\ c - 2 <= d /\ ~Between(c - 2)
                 /\ Meet(c - 2) <=> Meet(c)
      <4> DEFINE i == c - 1
      <4>1. c > 1 /\ g[c - 1] = "*"
        BY <3>3 DEF Doubled
      <4>2. /\ i \in 1..Len(g) /\ i + 1 = c /\ i - 1 = c - 2 /\ i \in Nat
            /\ i - 1 \in 0..Len(g) /\ i - 1 <= d /\ (i - 1) + 1 = i /\ i + 2 = c + 1
            /\ (c + 1) - 1 = c /\ g[i] = "*"
        BY <3>1, <4>1
      <4> HIDE DEF i
      <4>3. StarsAt(g, i, 2)
        <5>1. \A j \in i..(i + 2 - 1) : j = i \/ j = c
          BY <4>2
        <5> QED BY <1>1, <3>1, <3>3, <4>2, <5>1 DEF StarsAt
      <4>4. ~Doubled(g, i) /\ ~Between(i - 1)
        <5>1. ASSUME i > 1, g[i - 1] = "*" PROVE FALSE
          <6>1. \A j \in (i - 1)..(i - 1 + 3 - 1) : j = i - 1 \/ j = i \/ j = c
            BY <4>2
          <6>2. i - 1 \in DOMAIN g /\ i \in DOMAIN g /\ c \in DOMAIN g
            BY <1>1, <3>1, <4>2, <5>1
          <6>3. StarsAt(g, i - 1, 3)
            BY <3>3, <4>2, <5>1, <6>1, <6>2 DEF StarsAt
          <6> QED BY <6>2, <6>3 DEF TooManyStars
        <5>2. ASSUME i - 1 > 0, StarsAt(g, i - 1, 2) PROVE i > 1 /\ g[i - 1] = "*"
          <6>1. i - 1 \in (i - 1)..(i - 1 + 2 - 1) /\ i > 1
            BY <4>2, <5>2
          <6> QED BY <5>2, <6>1 DEF StarsAt
        <5> QED BY <5>1, <5>2 DEF Doubled
      <4>5. After(g, i) = c + 1
        BY <4>2, <4>3 DEF After
      <4>6. (\E k \in K : Reach(g, t, s, i - 1, k) /\ M[<<i, k + 1>>])
              <=> (\E k \in K : Reach(g, t, s, (c + 1) - 1, k) /\ M[<<c + 1, k + 1>>])
        <5>1. i \in 1..Len(g) /\ g[i] = "*" /\ ~Doubled(g, i) /\ c + 1 = After(g, i)
          BY <4>2, <4>4, <4>5
        <5> HIDE DEF K
        <5>2. (\E k \in (s - 1)..Len(t) : Reach(g, t, s, i - 1, k) /\ M[<<i, k + 1>>])
                <=> (\E k \in (s - 1)..Len(t) :
                       Reach(g, t, s, (c + 1) - 1, k) /\ M[<<c + 1, k + 1>>])
          BY <5>1, MeetStar
        <5> QED BY <5>2 DEF K
      <4>7. Meet(i - 1) <=> Meet(c)
        BY <4>2, <4>6
      <4> HIDE DEF Meet, Between
      <4> QED BY <4>2, <4>4, <4>7
    <3> HIDE DEF Meet, Between
    <3> QED BY <1>4, <3>1, <3>2, <3>3
  <2>2. \A c \in 0..Len(g) : c <= d + 1 => c <= d \/ c = d + 1
    BY <1>1
  <2> HIDE DEF Meet, Between
  <2>3. ASSUME NEW c \in 0..Len(g), c <= d + 1, ~Between(c)
        PROVE  M[<<1, s>>] <=> Meet(c)
    BY <1>4, <2>1, <2>2, <2>3
  <2>4. d + 1 \in Nat
    OBVIOUS
  <2> QED BY <2>3, <2>4
<1>5. b \in T
  <2> HIDE DEF T
  <2> QED BY <1>1, <1>3, <1>4, AllOf
<1>6. b <= b /\ ~Between(b)
  BY <1>1
<1> HIDE DEF Meet, Between
<1>7. M[<<1, s>>] <=> Meet(b)
  BY <1>5, <1>6
<1> QED BY <1>7 DEF Meet

\* A pattern takes from anywhere in a text what fits it to the end.
LEMMA PlainMatches ==
  ASSUME NEW g \in Seq(Symbols), ~TooManyStars(g), NEW t \in Seq(Plain),
         NEW s \in 1..(Len(t) + 1)
  PROVE  MatchesFrom(g, t, s) <=> Fits(g, SubSeq(t, s, Len(t)))
<1> DEFINE n == Len(g)
           m == Len(t)
<1>1. n \in Nat /\ m \in Nat /\ s \in Nat /\ m \in (s - 1)..m /\ n \in 0..n
  BY PatternFacts
<1>2. PICK M : IsMatch(g, t, M) /\ (MatchesFrom(g, t, s) <=> M[<<1, s>>])
  BY MatchTable
<1>3. ASSUME NEW k \in (s - 1)..m
      PROVE  M[<<n + 1, k + 1>>] <=> k = m
  <2>1. n + 1 \in 1..(n + 1) /\ k + 1 \in 1..(m + 1) /\ n + 1 > n /\ (k + 1 > m <=> k = m)
    BY <1>1
  <2> QED BY <1>2, <2>1 DEF IsMatch, Cell
<1>4. Reach(g, t, s, n, m) <=> Fits(g, SubSeq(t, s, m))
  BY SubSeqFull DEF Reach
<1>6. ~StarsAt(g, n, 2)
  <2>1. n + 1 \in n..(n + 2 - 1) /\ n + 1 \notin DOMAIN g
    BY <1>1
  <2> QED BY <2>1 DEF StarsAt
<1>5. M[<<1, s>>] <=> \E k \in (s - 1)..m : Reach(g, t, s, n, k) /\ M[<<n + 1, k + 1>>]
  BY <1>1, <1>2, <1>6, Meets
<1> QED BY <1>1, <1>2, <1>3, <1>4, <1>5

\* One that ends in "/**" takes what is beneath what fits the rest of it.
LEMMA BeneathMatches ==
  ASSUME NEW g \in Seq(Symbols), NEW h \in Seq(Symbols), NEW t \in Seq(Plain),
         NEW s \in 1..(Len(t) + 1), ~TooManyStars(g),
         Len(g) = Len(h) + 3, \A i \in 1..Len(h) : g[i] = h[i],
         g[Len(h) + 1] = Slash, g[Len(h) + 2] = "*", g[Len(h) + 3] = "*"
  PROVE  MatchesFrom(g, t, s) <=>
           \E k \in s..Len(t) : t[k] = Slash /\ Fits(h, SubSeq(t, s, k - 1))
<1> DEFINE l == Len(h)
           m == Len(t)
<1>1. l \in Nat /\ m \in Nat /\ s \in Nat /\ DOMAIN g = 1..(l + 3) /\ DOMAIN h = 1..l
  BY PatternFacts
<1>2. PICK M : IsMatch(g, t, M) /\ (MatchesFrom(g, t, s) <=> M[<<1, s>>])
  BY MatchTable
<1>3. Slash # "*" /\ Slash # "?"
  BY DEF Slash
<1>4. StarsAt(g, l + 2, 2) /\ After(g, l + 2) = l + 4
  <2>1. \A j \in (l + 2)..(l + 2 + 2 - 1) : j \in DOMAIN g /\ g[j] = "*"
    <3>1. \A j \in (l + 2)..(l + 2 + 2 - 1) : j = l + 2 \/ j = l + 3
      BY <1>1
    <3>2. l + 2 \in 1..(l + 3) /\ l + 3 \in 1..(l + 3)
      BY <1>1
    <3> QED BY <1>1, <3>1, <3>2
  <2>2. StarsAt(g, l + 2, 2)
    BY <2>1 DEF StarsAt
  <2> QED BY <1>1, <2>2 DEF After
<1>5. ~StarsAt(g, l + 1, 2)
  <2>1. l + 1 \in (l + 1)..(l + 1 + 2 - 1)
    BY <1>1
  <2> QED BY <1>3, <2>1 DEF StarsAt
<1>6. ASSUME NEW j \in 1..(m + 1)
      PROVE  M[<<l + 2, j>>]
  <2> DEFINE T == {d \in Nat : \A i \in 1..(m + 1) : m + 1 - i < d => M[<<l + 2, i>>]}
  <2>1. 0 \in T
    BY <1>1
  <2>2. ASSUME NEW d \in Nat, d \in T PROVE d + 1 \in T
    <3>1. ASSUME NEW i \in 1..(m + 1), m + 1 - i < d + 1 PROVE M[<<l + 2, i>>]
      <4>1. M[<<l + 2, i>>] <=> Cell(g, t, M, l + 2, i)
        <5>1. l + 2 \in 1..(Len(g) + 1)
          BY <1>1
        <5> QED BY <1>2, <5>1 DEF IsMatch
      <4>2. ~(l + 2 > Len(g))
        BY <1>1
      <4>3. CASE i = m + 1
        <5>1. M[<<l + 4, i>>] <=> Cell(g, t, M, l + 4, i)
          <6>1. l + 4 \in 1..(Len(g) + 1)
            BY <1>1
          <6> QED BY <1>2, <6>1 DEF IsMatch
        <5>2. l + 4 > Len(g) /\ i > m
          BY <1>1, <4>3
        <5>3. M[<<l + 4, i>>]
          BY <5>1, <5>2 DEF Cell
        <5> QED BY <1>4, <4>1, <4>2, <5>3 DEF Cell
      <4>4. CASE i \in 1..m
        <5>1. i + 1 \in 1..(m + 1) /\ m + 1 - (i + 1) < d /\ i <= m
          BY <1>1, <3>1, <4>4
        <5>2. M[<<l + 2, i + 1>>]
          BY <2>2, <5>1
        <5>3. Takes(g, l + 2, t[i])
          BY <1>4 DEF Takes
        <5> QED BY <4>1, <4>2, <5>1, <5>2, <5>3 DEF Cell
      <4> QED BY <1>1, <4>3, <4>4
    <3> QED BY <3>1
  <2>3. m + 1 \in T
    <3> HIDE DEF T
    <3> QED BY <1>1, <2>1, <2>2, AllOf
  <2>4. m + 1 - j < m + 1
    BY <1>1
  <2> QED BY <2>3, <2>4
<1>7. M[<<1, s>>] <=> \E k \in (s - 1)..m : Reach(g, t, s, l + 1, k)
  <2>1. l + 1 \in 0..Len(g) /\ (l + 1) + 1 = l + 2
    BY <1>1
  <2>2. M[<<1, s>>] <=>
          \E k \in (s - 1)..m : Reach(g, t, s, l + 1, k) /\ M[<<l + 2, k + 1>>]
    <3> DEFINE b == l + 1
    <3>1. b \in 0..Len(g) /\ b + 1 = l + 2 /\ ~StarsAt(g, b, 2)
      BY <1>5, <2>1
    <3> HIDE DEF b
    <3>2. M[<<1, s>>] <=> \E k \in (s - 1)..m : Reach(g, t, s, b, k) /\ M[<<b + 1, k + 1>>]
      BY <1>2, <3>1, Meets
    <3> QED BY <3>1, <3>2 DEF b
  <2>3. \A k \in (s - 1)..m : k + 1 \in 1..(m + 1)
    BY <1>1
  <2> QED BY <1>6, <2>2, <2>3
<1>8. ASSUME NEW k \in (s - 1)..m
      PROVE  Reach(g, t, s, l + 1, k) <=>
               k \in s..m /\ t[k] = Slash /\ Fits(h, SubSeq(t, s, k - 1))
  <2>1. l + 1 \in 0..Len(g) /\ l + 1 > 0 /\ (l + 1) - 1 = l /\ (k > s - 1 <=> k \in s..m)
    BY <1>1
  <2>2. Reach(g, t, s, l + 1, k) <=>
          /\ k > s - 1 /\ Takes(g, l + 1, t[k])
          /\ Reach(g, t, s, (l + 1) - 1, k - 1)
    BY <1>3, <2>1, ReachSteps
  <2>3. Takes(g, l + 1, t[k]) <=> t[k] = Slash
    BY <1>3 DEF Takes
  <2>4. SubSeq(g, 1, l) = h
    <3>1. 1 \in 1..(Len(g) + 1) /\ l \in (1 - 1)..Len(g) /\ l - 1 + 1 = l
          /\ \A j \in 1..l : 1 + j - 1 = j
      BY <1>1
    <3>2. /\ SubSeq(g, 1, l) \in Seq(Symbols) /\ Len(SubSeq(g, 1, l)) = l
          /\ \A j \in 1..l : SubSeq(g, 1, l)[j] = g[j]
      BY <3>1, PartOf
    <3> QED BY <1>1, <3>2, SeqEqual
  <2> QED BY <2>1, <2>2, <2>3, <2>4 DEF Reach
<1>9. \A k \in s..m : k \in (s - 1)..m
  BY <1>1
<1> QED BY <1>2, <1>7, <1>8, <1>9

\* A part of a beginning is one of the whole.
LEMMA PartOfBeginning ==
  ASSUME NEW S, NEW t \in Seq(S), NEW c \in 0..Len(t),
         NEW a \in 1..(c + 1), NEW b \in (a - 1)..c
  PROVE  SubSeq(SubSeq(t, 1, c), a, b) = SubSeq(t, a, b)
<1> DEFINE u == SubSeq(t, 1, c)
           v == SubSeq(u, a, b)
           w == SubSeq(t, a, b)
<1>1. Len(t) \in Nat /\ c \in Nat /\ a \in Nat /\ b \in Int
  OBVIOUS
<1>2. u \in Seq(S) /\ Len(u) = c /\ \A j \in 1..c : u[j] = t[j]
  <2>1. 1 \in 1..(Len(t) + 1) /\ c \in (1 - 1)..Len(t) /\ c - 1 + 1 = c
    BY <1>1
  <2>2. \A j \in 1..c : 1 + j - 1 = j
    BY <1>1
  <2> QED BY <2>1, <2>2, PartOf
<1> HIDE DEF u
<1>3. /\ v \in Seq(S) /\ Len(v) = b - a + 1
      /\ \A j \in 1..(b - a + 1) : v[j] = u[a + j - 1] /\ a + j - 1 \in 1..c
  BY <1>2, PartOf
<1>4. /\ w \in Seq(S) /\ Len(w) = b - a + 1
      /\ \A j \in 1..(b - a + 1) : w[j] = t[a + j - 1]
  <2>1. a \in 1..(Len(t) + 1) /\ b \in (a - 1)..Len(t)
    BY <1>1
  <2> QED BY <2>1, PartOf
<1> HIDE DEF v, w
<1>5. \A j \in 1..Len(v) : v[j] = w[j]
  BY <1>2, <1>3, <1>4
<1>6. v = w
  BY <1>3, <1>4, <1>5, SeqEqual
<1> QED BY <1>6 DEF u, v, w

\* What is above a path, by the place of its slash.
LEMMA AbovePlaces ==
  ASSUME NEW t \in Seq(Plain), NEW dir
  PROVE  dir \in Above(t) <=> \E k \in 1..Len(t) : t[k] = Slash /\ dir = SubSeq(t, 1, k - 1)
BY PatternFacts DEF Above

\* A beginning of a text.
LEMMA BeginningFacts ==
  ASSUME NEW t \in Seq(Plain), NEW k \in 0..Len(t)
  PROVE  /\ SubSeq(t, 1, k) \in Seq(Plain) /\ Len(SubSeq(t, 1, k)) = k
         /\ \A j \in 1..k : SubSeq(t, 1, k)[j] = t[j]
<1>1. Len(t) \in Nat
  OBVIOUS
<1>2. 1 \in 1..(Len(t) + 1) /\ k \in (1 - 1)..Len(t) /\ k - 1 + 1 = k
  BY <1>1
<1>3. \A j \in 1..k : 1 + j - 1 = j
  BY <1>1
<1> QED BY <1>2, <1>3, PartOf

\* What is above a directory above a path is above the path.
LEMMA AboveIsClosed ==
  ASSUME NEW t \in Seq(Plain), NEW dir \in Above(t)
  PROVE  dir \o <<Slash>> \in Seq(Plain) /\ Above(dir \o <<Slash>>) \subseteq Above(t)
<1>1. PICK k \in 1..Len(t) : t[k] = Slash /\ dir = SubSeq(t, 1, k - 1)
  BY AbovePlaces
<1>2. Len(t) \in Nat /\ k - 1 \in 0..Len(t) /\ k \in 0..Len(t)
  OBVIOUS
<1> DEFINE u == SubSeq(t, 1, k)
           d == dir \o <<Slash>>
<1>3. u \in Seq(Plain) /\ Len(u) = k /\ \A j \in 1..k : u[j] = t[j]
  BY <1>2, BeginningFacts
<1>4. dir \in Seq(Plain) /\ Len(dir) = k - 1 /\ \A j \in 1..(k - 1) : dir[j] = t[j]
  BY <1>1, <1>2, BeginningFacts
<1>5. /\ d \in Seq(Plain) /\ Len(d) = k
      /\ \A j \in 1..k : d[j] = IF j <= k - 1 THEN dir[j] ELSE Slash
  <2>1. <<Slash>> \in Seq(Plain) /\ Len(<<Slash>>) = 1 /\ <<Slash>>[1] = Slash
    BY DEF Plain
  <2>2. /\ d \in Seq(Plain) /\ Len(d) = (k - 1) + 1
        /\ \A j \in 1..((k - 1) + 1) :
             d[j] = IF j <= k - 1 THEN dir[j] ELSE <<Slash>>[j - (k - 1)]
    BY <1>4, <2>1, ConcatProperties
  <2>3. \A j \in 1..k : ~(j <= k - 1) => j - (k - 1) = 1
    BY <1>2
  <2>4. (k - 1) + 1 = k
    BY <1>2
  <2> HIDE DEF d
  <2> QED BY <2>1, <2>2, <2>3, <2>4
<1> HIDE DEF d
<1>6. d = u
  <2>1. \A j \in 1..k : d[j] = u[j]
    <3> SUFFICES ASSUME NEW j \in 1..k PROVE d[j] = u[j]
      OBVIOUS
    <3>1. j \in 1..(k - 1) \/ j = k
      BY <1>2
    <3> HIDE DEF u
    <3> QED BY <1>1, <1>2, <1>3, <1>4, <1>5, <3>1
  <2> HIDE DEF u
  <2> QED BY <1>3, <1>5, <2>1, SeqEqual
<1>7. ASSUME NEW x \in Above(u) PROVE x \in Above(t)
  <2>1. PICK l \in 1..k : u[l] = Slash /\ x = SubSeq(u, 1, l - 1)
    BY <1>3, AbovePlaces
  <2>2. /\ l \in 1..Len(t) /\ t[l] = Slash
        /\ 1 \in 1..(k + 1) /\ l - 1 \in (1 - 1)..k
    BY <1>2, <1>3, <2>1
  <2>3. x = SubSeq(t, 1, l - 1)
    BY <1>2, <2>1, <2>2, PartOfBeginning
  <2> QED BY <2>2, <2>3, AbovePlaces
<1> QED BY <1>5, <1>6, <1>7 DEF d

\* A pattern without the slash that anchors it.
LEMMA TailFacts ==
  ASSUME NEW g \in Seq(Symbols), g # <<>>
  PROVE  /\ Tail(g) \in Seq(Symbols) /\ Len(Tail(g)) = Len(g) - 1 /\ Len(g) \in Nat \ {0}
         /\ \A i \in 1..(Len(g) - 1) : Tail(g)[i] = g[i + 1]
         /\ ~TooManyStars(g) => ~TooManyStars(Tail(g))
<1>1. /\ Tail(g) \in Seq(Symbols) /\ Len(Tail(g)) = Len(g) - 1 /\ Len(g) \in Nat \ {0}
      /\ \A i \in 1..(Len(g) - 1) : Tail(g)[i] = g[i + 1]
  BY HeadTailProperties, EmptySeq
<1>2. ASSUME NEW i \in 1..Len(Tail(g)), StarsAt(Tail(g), i, 3)
      PROVE  StarsAt(g, i + 1, 3)
  <2>1. DOMAIN Tail(g) = 1..(Len(g) - 1) /\ DOMAIN g = 1..Len(g)
    BY <1>1
  <2>2. \A j \in i..(i + 3 - 1) : j \in 1..(Len(g) - 1) /\ g[j + 1] = "*"
    BY <1>1, <1>2, <2>1 DEF StarsAt
  <2>3. ASSUME NEW j \in (i + 1)..(i + 1 + 3 - 1) PROVE j \in DOMAIN g /\ g[j] = "*"
    <3>1. j - 1 \in i..(i + 3 - 1) /\ (j - 1) + 1 = j
      BY <1>1
    <3>2. j - 1 \in 1..(Len(g) - 1) /\ g[(j - 1) + 1] = "*"
      BY <2>2, <3>1
    <3> QED BY <1>1, <2>1, <3>1, <3>2
  <2> QED BY <2>3 DEF StarsAt
<1>3. \A i \in 1..Len(Tail(g)) : i + 1 \in 1..Len(g)
  BY <1>1
<1>4. DOMAIN g = 1..Len(g) /\ DOMAIN Tail(g) = 1..Len(Tail(g))
  BY <1>1
<1>5. ~TooManyStars(g) => ~TooManyStars(Tail(g))
  BY <1>2, <1>3, <1>4 DEF TooManyStars
<1> QED BY <1>1, <1>5

\* A pattern matches just where its end fits.
LEMMA FilesMean ==
  ASSUME NEW g \in Seq(Symbols), g # <<>>, ~TooManyStars(g), NEW t \in Seq(Plain)
  PROVE  Matches(g, t) <=> EndsIn(g, t)
<1>1. Len(t) \in Nat /\ DOMAIN t = 1..Len(t) /\ SubSeq(t, 1, Len(t)) = t
  BY PatternFacts, SubSeqFull
<1>2. CASE Anchored(g)
  <2>1. Body(g) = Tail(g) /\ 1 \in 1..(Len(t) + 1)
    BY <1>1, <1>2 DEF Body
  <2>2. MatchesFrom(Tail(g), t, 1) <=> Fits(Tail(g), SubSeq(t, 1, Len(t)))
    BY <2>1, TailFacts, PlainMatches
  <2> QED BY <1>1, <1>2, <2>1, <2>2 DEF Matches, EndsIn
<1>3. CASE ~Anchored(g)
  <2>1. \A j \in 1..(Len(t) + 1) : MatchesFrom(g, t, j) <=> Fits(g, SubSeq(t, j, Len(t)))
    BY PlainMatches
  <2>2. Matches(g, t) <=>
          \E j \in 1..(Len(t) + 1) :
            (j = 1 \/ t[j - 1] = Slash) /\ Fits(g, SubSeq(t, j, Len(t)))
    BY <1>3, <2>1 DEF Matches
  <2>3. EndsIn(g, t) <=>
          \/ Fits(g, t)
          \/ \E i \in 1..Len(t) : t[i] = Slash /\ Fits(g, SubSeq(t, i + 1, Len(t)))
    BY <1>1, <1>3 DEF EndsIn
  <2>4. ASSUME NEW j \in 1..(Len(t) + 1), j = 1 \/ t[j - 1] = Slash,
               Fits(g, SubSeq(t, j, Len(t)))
        PROVE  EndsIn(g, t)
    <3>1. j # 1 => j - 1 \in 1..Len(t) /\ (j - 1) + 1 = j
      BY <1>1
    <3> QED BY <1>1, <2>3, <2>4, <3>1
  <2>5. ASSUME EndsIn(g, t) PROVE Matches(g, t)
    <3>1. 1 \in 1..(Len(t) + 1) /\ \A i \in 1..Len(t) : i + 1 \in 1..(Len(t) + 1) /\ (i + 1) - 1 = i
      BY <1>1
    <3> QED BY <1>1, <2>2, <2>3, <2>5, <3>1
  <2> QED BY <2>2, <2>4, <2>5
<1> QED BY <1>2, <1>3

\* One that ends in a slash matches just what is beneath a directory where its
\* end fits.
LEMMA DirsMean ==
  ASSUME NEW g \in Seq(Symbols), Body(g) # <<>>, IsDirRule(g),
         ~TooManyStars(Completed(g)), NEW t \in Seq(Plain)
  PROVE  Matches(Completed(g), t)
           <=> \E dir \in Above(t) : EndsIn(SubSeq(g, 1, Len(g) - 1), dir)
<1> DEFINE n == Len(g)
           m == Len(t)
           h == SubSeq(g, 1, n - 1)
           c == Completed(g)
<1>1. g # <<>> /\ n \in Nat \ {0} /\ g[n] = Slash /\ m \in Nat /\ DOMAIN t = 1..m
  BY PatternFacts, EmptySeq DEF IsDirRule
<1>2. h \in Seq(Symbols) /\ Len(h) = n - 1 /\ \A i \in 1..(n - 1) : h[i] = g[i]
  <2>1. 1 \in 1..(Len(g) + 1) /\ n - 1 \in (1 - 1)..Len(g) /\ (n - 1) - 1 + 1 = n - 1
    BY <1>1
  <2>2. \A i \in 1..(n - 1) : 1 + i - 1 = i
    BY <1>1
  <2> QED BY <2>1, <2>2, PartOf
<1>4. /\ c \in Seq(Symbols) /\ Len(c) = n + 2
      /\ \A i \in 1..n : c[i] = g[i]
      /\ c[n + 1] = "*" /\ c[n + 2] = "*"
  <2>1. c = g \o <<"*", "*">>
    BY DEF Completed
  <2>2. <<"*", "*">> \in Seq(Symbols) /\ Len(<<"*", "*">>) = 2
    BY DEF Symbols
  <2>3. /\ c \in Seq(Symbols) /\ Len(c) = n + 2
        /\ \A i \in 1..(n + 2) : c[i] = IF i <= n THEN g[i] ELSE <<"*", "*">>[i - n]
    BY <2>1, <2>2, ConcatProperties
  <2>4. <<"*", "*">>[1] = "*" /\ <<"*", "*">>[2] = "*"
    OBVIOUS
  <2>5. /\ n + 1 \in 1..(n + 2) /\ n + 2 \in 1..(n + 2) /\ (n + 1) - n = 1 /\ (n + 2) - n = 2
        /\ ~(n + 1 <= n) /\ ~(n + 2 <= n) /\ \A i \in 1..n : i \in 1..(n + 2) /\ i <= n
    BY <1>1
  <2> HIDE DEF c
  <2> QED BY <2>3, <2>4, <2>5
<1>10. ~TooManyStars(c)
  OBVIOUS
<1> HIDE DEF h, c
<1>5. n >= 2
  <2>1. ASSUME n = 1 PROVE FALSE
    <3>1. Anchored(g) /\ Body(g) = Tail(g) /\ Len(Tail(g)) = 0
      BY <1>1, <2>1, TailFacts DEF Anchored, Body
    <3>2. Tail(g) = <<>>
      BY <1>1, <3>1, TailFacts, EmptySeq
    <3> QED BY <3>1, <3>2
  <2>2. n = 1 \/ n >= 2
    <3>1. \A k \in Nat \ {0} : k = 1 \/ k >= 2
      OBVIOUS
    <3> HIDE DEF n
    <3> QED BY <1>1, <3>1
  <2> QED BY <2>1, <2>2
<1>6. c # <<>> /\ h # <<>> /\ (Anchored(c) <=> Anchored(g)) /\ (Anchored(h) <=> Anchored(g))
  <2>1. c # <<>> /\ h # <<>>
    BY <1>2, <1>4, <1>5
  <2>2. c[1] = g[1] /\ h[1] = g[1]
    BY <1>1, <1>2, <1>4, <1>5
  <2> QED BY <1>1, <2>1, <2>2 DEF Anchored
<1>7. \A dir : dir \in Above(t) <=> \E k \in 1..m : t[k] = Slash /\ dir = SubSeq(t, 1, k - 1)
  BY AbovePlaces
<1>8. CASE Anchored(g)
  <2> DEFINE cc == Tail(c)
             hh == Tail(h)
  <2>1. /\ cc \in Seq(Symbols) /\ Len(cc) = n + 1 /\ \A i \in 1..(n + 1) : cc[i] = c[i + 1]
        /\ hh \in Seq(Symbols) /\ Len(hh) = n - 2 /\ \A i \in 1..(n - 2) : hh[i] = h[i + 1]
        /\ ~TooManyStars(cc)
    <3>1. /\ cc \in Seq(Symbols) /\ Len(cc) = Len(c) - 1 /\ ~TooManyStars(cc)
          /\ \A i \in 1..(Len(c) - 1) : cc[i] = c[i + 1]
      BY <1>4, <1>6, <1>10, TailFacts
    <3>2. /\ hh \in Seq(Symbols) /\ Len(hh) = Len(h) - 1
          /\ \A i \in 1..(Len(h) - 1) : hh[i] = h[i + 1]
      BY <1>2, <1>6, TailFacts
    <3>3. Len(c) - 1 = n + 1 /\ Len(h) - 1 = n - 2
      BY <1>1, <1>2, <1>4
    <3> HIDE DEF cc, hh
    <3> QED BY <3>1, <3>2, <3>3
  <2> HIDE DEF cc, hh
  <2>2. /\ Len(cc) = Len(hh) + 3 /\ \A i \in 1..Len(hh) : cc[i] = hh[i]
        /\ cc[Len(hh) + 1] = Slash /\ cc[Len(hh) + 2] = "*" /\ cc[Len(hh) + 3] = "*"
    <3>1. Len(cc) = Len(hh) + 3 /\ Len(hh) + 1 = n - 1 /\ Len(hh) + 2 = n /\ Len(hh) + 3 = n + 1
      BY <1>1, <2>1
    <3>2. cc[n - 1] = c[n] /\ cc[n] = c[n + 1] /\ cc[n + 1] = c[n + 2] /\ c[n] = Slash
      <4>1. n - 1 \in 1..(n + 1) /\ n \in 1..(n + 1) /\ n + 1 \in 1..(n + 1) /\ n \in 1..n
        BY <1>1, <1>5
      <4>2. (n - 1) + 1 = n /\ (n + 1) + 1 = n + 2
        BY <1>1
      <4> QED BY <1>1, <1>4, <2>1, <4>1, <4>2
    <3>3. ASSUME NEW i \in 1..(n - 2) PROVE cc[i] = hh[i]
      <4>1. i \in 1..(n + 1) /\ i + 1 \in 1..n /\ i + 1 \in 1..(n - 1)
        BY <1>1
      <4> QED BY <1>2, <1>4, <2>1, <4>1
    <3> QED BY <1>4, <2>1, <3>1, <3>2, <3>3
  <2>3. 1 \in 1..(m + 1)
    BY <1>1
  <2>4. MatchesFrom(cc, t, 1) <=> \E k \in 1..m : t[k] = Slash /\ Fits(hh, SubSeq(t, 1, k - 1))
    BY <2>1, <2>2, <2>3, BeneathMatches
  <2>5. Matches(c, t) <=> MatchesFrom(cc, t, 1)
    BY <1>6, <1>8 DEF Matches, Body, cc
  <2>6. \A dir : EndsIn(h, dir) <=> Fits(hh, dir)
    BY <1>6, <1>8 DEF EndsIn, hh
  <2> QED BY <1>7, <2>4, <2>5, <2>6 DEF c, h
<1>9. CASE ~Anchored(g)
  <2>1. \A i \in 1..Len(h) : c[i] = h[i]
    <3>1. \A i \in 1..(n - 1) : i \in 1..n
      BY <1>1
    <3> QED BY <1>2, <1>4, <3>1
  <2>2. /\ Len(c) = Len(h) + 3
        /\ c[Len(h) + 1] = Slash /\ c[Len(h) + 2] = "*" /\ c[Len(h) + 3] = "*"
    <3>1. Len(h) + 1 = n /\ Len(h) + 2 = n + 1 /\ Len(h) + 3 = n + 2 /\ n \in 1..n
      BY <1>1, <1>2
    <3> QED BY <1>1, <1>4, <3>1
  <2>3. \A j \in 1..(m + 1) :
          MatchesFrom(c, t, j) <=> \E k \in j..m : t[k] = Slash /\ Fits(h, SubSeq(t, j, k - 1))
    BY <1>2, <1>4, <1>10, <2>1, <2>2, BeneathMatches
  <2>4. Matches(c, t) <=>
          \E j \in 1..(m + 1) :
            /\ j = 1 \/ t[j - 1] = Slash
            /\ \E k \in j..m : t[k] = Slash /\ Fits(h, SubSeq(t, j, k - 1))
    BY <1>6, <1>9, <2>3 DEF Matches
  <2>5. ASSUME NEW k \in 1..m
        PROVE  EndsIn(h, SubSeq(t, 1, k - 1)) <=>
                 \/ Fits(h, SubSeq(t, 1, k - 1))
                 \/ \E i \in 1..(k - 1) : t[i] = Slash /\ Fits(h, SubSeq(t, i + 1, k - 1))
    <3> DEFINE u == SubSeq(t, 1, k - 1)
    <3>1. k - 1 \in 0..m
      BY <1>1
    <3>2. u \in Seq(Plain) /\ Len(u) = k - 1 /\ \A i \in 1..(k - 1) : u[i] = t[i]
      BY <3>1, BeginningFacts
    <3>3. DOMAIN u = 1..(k - 1)
      BY <3>2
    <3>4. \A i \in 1..(k - 1) : SubSeq(u, i + 1, k - 1) = SubSeq(t, i + 1, k - 1)
      <4> SUFFICES ASSUME NEW i \in 1..(k - 1)
                   PROVE  SubSeq(u, i + 1, k - 1) = SubSeq(t, i + 1, k - 1)
        OBVIOUS
      <4>1. i + 1 \in 1..((k - 1) + 1) /\ k - 1 \in ((i + 1) - 1)..(k - 1)
        BY <1>1
      <4> QED BY <3>1, <4>1, PartOfBeginning
    <3> HIDE DEF u
    <3>5. EndsIn(h, u) <=>
            \/ Fits(h, u)
            \/ \E i \in 1..(k - 1) : u[i] = Slash /\ Fits(h, SubSeq(u, i + 1, k - 1))
      BY <1>6, <1>9, <3>2, <3>3 DEF EndsIn
    <3> QED BY <3>2, <3>4, <3>5 DEF u
  <2>6. (\E dir \in Above(t) : EndsIn(h, dir)) <=>
          \E k \in 1..m : t[k] = Slash /\ EndsIn(h, SubSeq(t, 1, k - 1))
    BY <1>7
  <2>7. ASSUME NEW j \in 1..(m + 1), j = 1 \/ t[j - 1] = Slash,
               NEW k \in j..m, t[k] = Slash, Fits(h, SubSeq(t, j, k - 1))
        PROVE  \E dir \in Above(t) : EndsIn(h, dir)
    <3>1. k \in 1..m /\ (j # 1 => j - 1 \in 1..(k - 1) /\ (j - 1) + 1 = j)
      BY <1>1
    <3>2. EndsIn(h, SubSeq(t, 1, k - 1))
      BY <2>5, <2>7, <3>1
    <3> QED BY <2>6, <2>7, <3>1, <3>2
  <2>8. ASSUME NEW k \in 1..m, t[k] = Slash, EndsIn(h, SubSeq(t, 1, k - 1))
        PROVE  Matches(c, t)
    <3>1. CASE Fits(h, SubSeq(t, 1, k - 1))
      <4>1. 1 \in 1..(m + 1) /\ k \in 1..m
        BY <1>1
      <4> QED BY <2>4, <2>8, <3>1, <4>1
    <3>2. ASSUME NEW i \in 1..(k - 1), t[i] = Slash, Fits(h, SubSeq(t, i + 1, k - 1))
          PROVE  Matches(c, t)
      <4>1. i + 1 \in 1..(m + 1) /\ (i + 1) - 1 = i /\ k \in (i + 1)..m
        BY <1>1
      <4> QED BY <2>4, <2>8, <3>2, <4>1
    <3> QED BY <2>5, <2>8, <3>1, <3>2
  <2> QED BY <2>4, <2>6, <2>7, <2>8 DEF c, h
<1> QED BY <1>8, <1>9

\* What the patterns of filter.rs:6-14 mean, for a path of any length.
LEMMA OnePatternMeans ==
  ASSUME NEW g \in Seq(Symbols), Proper(g), NEW t \in Seq(Plain)
  PROVE  IncludesFile(g, t) <=> ~Excluded(g, t)
<1>1. Body(g) # <<>> /\ g # <<>> /\ ~TooManyStars(Completed(g))
  <2>1. g = <<>> => Body(g) = <<>>
    BY DEF Body, Anchored
  <2> QED BY <2>1 DEF Proper
<1>2. CASE ~IsDirRule(g)
  <2>1. Completed(g) = g
    BY <1>2 DEF Completed
  <2>2. \A u \in Seq(Plain) : Matches(g, u) <=> EndsIn(g, u)
    BY <1>1, <2>1, FilesMean
  <2>3. ASSUME NEW dir \in Above(t)
        PROVE  IncludesDir(g, dir) <=> ~(ForDirs(g) /\ EndsIn(g, dir \o <<Slash>>))
    <3>1. dir \o <<Slash>> \in Seq(Plain)
      BY AboveIsClosed
    <3> QED BY <2>1, <2>2, <3>1 DEF IncludesDir
  <2> QED BY <1>2, <2>1, <2>2, <2>3 DEF IncludesFile, Excluded
<1>3. CASE IsDirRule(g)
  <2> DEFINE Hit(u) == \E dir \in Above(u) : EndsIn(SubSeq(g, 1, Len(g) - 1), dir)
  <2>1. \A u \in Seq(Plain) : Matches(Completed(g), u) <=> Hit(u)
    BY <1>1, <1>3, DirsMean
  <2>2. Excluded(g, t) <=> Hit(t)
    BY <1>3 DEF Excluded
  <2>3. ASSUME NEW dir \in Above(t), ~Hit(t) PROVE IncludesDir(g, dir)
    <3>1. dir \o <<Slash>> \in Seq(Plain) /\ Above(dir \o <<Slash>>) \subseteq Above(t)
      BY AboveIsClosed
    <3>2. ~Hit(dir \o <<Slash>>)
      BY <2>3, <3>1
    <3> HIDE DEF Hit
    <3> QED BY <2>1, <3>1, <3>2 DEF IncludesDir
  <2> HIDE DEF Hit
  <2> QED BY <2>1, <2>2, <2>3 DEF IncludesFile
<1> QED BY <1>2, <1>3

-----------------------------------------------------------------------------
(***************************************************************************)
(* rclone's walk.                                                          *)
(***************************************************************************)
\* A name has no slash in it.
LEMMA SegmentFacts ==
  ASSUME NEW s \in Segments
  PROVE  s \in Seq(Plain) /\ Len(s) \in Nat /\ \A i \in DOMAIN s : s[i] # Slash
<1>1. CASE \E l \in Letters : s = <<l>>
  BY <1>1, RulesAssumption DEF Plain
<1>2. CASE \E l, m \in Letters : s = <<l, m>>
  BY <1>2, RulesAssumption DEF Plain
<1> QED BY <1>1, <1>2 DEF Segments

\* So nothing is above a name by itself.
LEMMA NothingAbove ==
  ASSUME NEW s \in Segments
  PROVE  Above(s) = {}
BY SegmentFacts DEF Above

\* Above a name are the directory it is in and what is above that.
LEMMA AboveJoined ==
  ASSUME NEW p \in Seq(Plain), NEW s \in Segments
  PROVE  /\ p \o <<Slash>> \o s \in Seq(Plain)
         /\ Above(p \o <<Slash>> \o s) = Above(p) \union {p}
<1> DEFINE q == p \o <<Slash>> \o s
           n == Len(p)
<1>1. /\ n \in Nat /\ p \in [1..n -> Plain] /\ DOMAIN p = 1..n
      /\ s \in Seq(Plain) /\ Len(s) \in Nat /\ DOMAIN s = 1..Len(s)
      /\ \A i \in 1..Len(s) : s[i] # Slash
  BY SegmentFacts
<1>2. /\ <<Slash>> \in Seq(Plain) /\ Len(<<Slash>>) = 1
      /\ p \o <<Slash>> \in Seq(Plain) /\ Len(p \o <<Slash>>) = n + 1
      /\ \A i \in 1..n : (p \o <<Slash>>)[i] = p[i]
      /\ (p \o <<Slash>>)[n + 1] = Slash
  BY <1>1 DEF Plain
<1>3. /\ q \in Seq(Plain) /\ Len(q) = n + 1 + Len(s) /\ DOMAIN q = 1..(n + 1 + Len(s))
      /\ \A i \in 1..n : q[i] = p[i]
      /\ q[n + 1] = Slash
      /\ \A i \in (n + 2)..(n + 1 + Len(s)) : q[i] = s[i - n - 1]
  BY <1>1, <1>2, ConcatProperties
<1> HIDE DEF q
<1>4. {j \in DOMAIN q : q[j] = Slash} = {j \in DOMAIN p : p[j] = Slash} \union {n + 1}
  <2>1. ASSUME NEW j \in DOMAIN q, q[j] = Slash, j \notin 1..n PROVE j = n + 1
    <3>1. CASE j \in (n + 2)..(n + 1 + Len(s))
      BY <1>1, <1>3, <2>1, <3>1
    <3> QED BY <1>1, <1>3, <2>1, <3>1
  <2>2. 1..n \subseteq DOMAIN q /\ n + 1 \in DOMAIN q
    BY <1>1, <1>3
  <2> QED BY <1>1, <1>3, <2>1, <2>2
<1>5. ASSUME NEW m \in 0..n
      PROVE  SubSeq(q, 1, m) = SubSeq(p, 1, m)
  <2>1. \A i \in 1..m : q[i] = p[i] /\ p[i] \in Plain
    BY <1>1, <1>3
  <2>2. /\ SubSeq(q, 1, m) \in Seq(Plain) /\ SubSeq(p, 1, m) \in Seq(Plain)
        /\ Len(SubSeq(q, 1, m)) = m /\ Len(SubSeq(p, 1, m)) = m
        /\ \A i \in 1..m : SubSeq(q, 1, m)[i] = q[i] /\ SubSeq(p, 1, m)[i] = p[i]
    BY <1>1, <1>3, <2>1, SubSeqProperties
  <2> QED BY <2>1, <2>2, SeqEqual
<1>6. SubSeq(p, 1, n) = p
  BY SubSeqFull
<1>7. Above(q) = {SubSeq(q, 1, i - 1) : i \in {j \in DOMAIN p : p[j] = Slash} \union {n + 1}}
  BY <1>4 DEF Above
<1>8. \A i \in {j \in DOMAIN p : p[j] = Slash} : SubSeq(q, 1, i - 1) = SubSeq(p, 1, i - 1)
  <2> SUFFICES ASSUME NEW i \in {j \in DOMAIN p : p[j] = Slash}
               PROVE  SubSeq(q, 1, i - 1) = SubSeq(p, 1, i - 1)
    OBVIOUS
  <2>1. i - 1 \in 0..n
    BY <1>1
  <2> QED BY <1>5, <2>1
<1>9. SubSeq(q, 1, (n + 1) - 1) = p
  <2>1. (n + 1) - 1 = n /\ n \in 0..n
    BY <1>1
  <2> QED BY <1>5, <1>6, <2>1
<1>10. Above(q) = Above(p) \union {p}
  <2>1. \A x : x \in Above(q) <=> \/ \E i \in {j \in DOMAIN p : p[j] = Slash} :
                                        x = SubSeq(p, 1, i - 1)
                                  \/ x = p
    BY <1>7, <1>8, <1>9
  <2>2. \A x : x \in Above(p) <=> \E i \in {j \in DOMAIN p : p[j] = Slash} :
                                        x = SubSeq(p, 1, i - 1)
    BY DEF Above
  <2> QED BY <2>1, <2>2
<1> QED BY <1>3, <1>10 DEF q

\* A name in a directory is in one of the directories.
LEMMA InSomeHas ==
  ASSUME NEW P, NEW p \in P, NEW s \in Segments
  PROVE  p \o <<Slash>> \o s \in InSome(P)
BY DEF InSome

\* And nothing else is in them.
LEMMA InSomeFrom ==
  ASSUME NEW P, NEW x \in InSome(P)
  PROVE  \E p \in P, s \in Segments : x = p \o <<Slash>> \o s
BY DEF InSome

\* A file in a directory is included when its own path is, and the directory with
\* all above it.
Reached(dir) == IncludesDir(glob, dir) /\ \A up \in Above(dir) : IncludesDir(glob, up)
LEMMA IncludedIn ==
  ASSUME NEW p \in Seq(Plain), NEW s \in Segments
  PROVE  /\ IncludesFile(glob, p \o <<Slash>> \o s)
              <=> ~Matches(Completed(glob), p \o <<Slash>> \o s) /\ Reached(p)
         /\ Reached(p \o <<Slash>> \o s)
              <=> IncludesDir(glob, p \o <<Slash>> \o s) /\ Reached(p)
<1> DEFINE q == p \o <<Slash>> \o s
<1>1. Above(q) = Above(p) \union {p}
  BY AboveJoined
<1> HIDE DEF q
<1>2. IncludesFile(glob, q) <=> ~Matches(Completed(glob), q) /\ Reached(p)
  BY <1>1 DEF IncludesFile, Reached
<1>3. Reached(q) <=> IncludesDir(glob, q) /\ Reached(p)
  BY <1>1 DEF Reached
<1> QED BY <1>2, <1>3 DEF q

\* The directories the walk gets to, one level after the other, are those with
\* nothing excluded above them or at them.
LEMMA LevelsReached ==
  /\ Segments \subseteq Seq(Plain) /\ InSome(Segments) \subseteq Seq(Plain)
  /\ Level1 = {dir \in Segments : Reached(dir)}
  /\ \A dir \in InSome(Segments) : dir \in Level2 <=> Reached(dir)
  /\ Level2 \subseteq InSome(Segments)
<1>1. Segments \subseteq Seq(Plain)
  BY SegmentFacts
<1>2. Level1 = {dir \in Segments : Reached(dir)}
  BY NothingAbove DEF Level1, Reached
<1>3. Level2 \subseteq InSome(Segments)
  BY DEF Level2, Level1, InSome
<1>4. ASSUME NEW dir \in InSome(Segments)
      PROVE  dir \in Seq(Plain) /\ (dir \in Level2 <=> Reached(dir))
  <2>1. PICK p \in Segments, s \in Segments : dir = p \o <<Slash>> \o s
    BY DEF InSome
  <2>2. p \in Seq(Plain)
    BY <1>1
  <2>3. dir \in Seq(Plain) /\ (Reached(dir) <=> IncludesDir(glob, dir) /\ Reached(p))
    BY <2>1, <2>2, AboveJoined, IncludedIn
  <2>4. ASSUME Reached(dir) PROVE dir \in Level2
    <3>1. p \in Level1
      BY <1>2, <2>3, <2>4
    <3>2. dir \in InSome(Level1)
      BY <2>1, <3>1, InSomeHas
    <3> QED BY <2>3, <2>4, <3>2 DEF Level2
  <2>5. ASSUME dir \in Level2 PROVE Reached(dir)
    <3>1. IncludesDir(glob, dir) /\ dir \in InSome(Level1)
      BY <2>5 DEF Level2
    <3>2. PICK q \in Level1, t \in Segments : dir = q \o <<Slash>> \o t
      BY <3>1, InSomeFrom
    <3>3. q \in Seq(Plain) /\ Reached(q)
      BY <1>1, <1>2
    <3>4. Reached(dir) <=> IncludesDir(glob, dir) /\ Reached(q)
      BY <3>2, <3>3, IncludedIn
    <3> QED BY <3>1, <3>3, <3>4
  <2> QED BY <2>3, <2>4, <2>5
<1> QED BY <1>1, <1>2, <1>3, <1>4

\* Judging a path alone, from the names above it, is judging it as rclone's walk
\* does, which never enters an excluded directory: for every pattern, also the
\* malformed (filter.rs:59-74).
LEMMA WalkIs == WalkAgrees
<1> DEFINE S0 == Segments
           S1 == InSome(Segments)
           S2 == InSome(InSome(Segments))
           out(path) == Matches(Completed(glob), path)
<1>1. ASSUME NEW path \in S0
      PROVE  IncludesFile(glob, path) <=> ~out(path)
  BY NothingAbove DEF IncludesFile
<1>2. ASSUME NEW P, P \subseteq Seq(Plain),
             NEW Q, Q \subseteq P, \A p \in P : p \in Q <=> Reached(p),
             NEW path
      PROVE  (path \in InSome(P) /\ IncludesFile(glob, path))
               <=> (path \in InSome(Q) /\ ~out(path))
  <2>1. ASSUME path \in InSome(P), IncludesFile(glob, path)
        PROVE  path \in InSome(Q) /\ ~out(path)
    <3>1. PICK p \in P, s \in Segments : path = p \o <<Slash>> \o s
      BY <2>1 DEF InSome
    <3>2. p \in Seq(Plain)
      BY <1>2
    <3>3. ~out(path) /\ Reached(p)
      BY <2>1, <3>1, <3>2, IncludedIn
    <3>4. p \in Q
      BY <1>2, <3>3
    <3> QED BY <3>1, <3>3, <3>4, InSomeHas
  <2>2. ASSUME path \in InSome(Q), ~out(path)
        PROVE  path \in InSome(P) /\ IncludesFile(glob, path)
    <3>1. PICK p \in Q, s \in Segments : path = p \o <<Slash>> \o s
      BY <2>2 DEF InSome
    <3>2. p \in P /\ p \in Seq(Plain) /\ Reached(p)
      BY <1>2
    <3>3. IncludesFile(glob, path)
      BY <2>2, <3>1, <3>2, IncludedIn
    <3> QED BY <3>1, <3>2, <3>3, InSomeHas
  <2> QED BY <2>1, <2>2
<1>3. ASSUME NEW path
      PROVE  (path \in S1 /\ IncludesFile(glob, path)) <=> (path \in InSome(Level1) /\ ~out(path))
  <2>1. Level1 \subseteq S0 /\ \A p \in S0 : p \in Level1 <=> Reached(p)
    BY LevelsReached
  <2> QED BY <1>2, <2>1, LevelsReached
<1>4. ASSUME NEW path
      PROVE  (path \in S2 /\ IncludesFile(glob, path)) <=> (path \in InSome(Level2) /\ ~out(path))
  BY <1>2, LevelsReached
<1>5. {path \in Trees : IncludesFile(glob, path)} = Walked
  <2>1. \A path : (path \in Trees /\ IncludesFile(glob, path)) <=> path \in Walked
    BY <1>1, <1>3, <1>4 DEF Trees, Walked
  <2> QED BY <2>1 DEF Walked
<1> QED BY <1>5 DEF WalkAgrees

\* The paths of the trees are texts as the lemmas above take them.
LEMMA TreesArePlain == Trees \subseteq Seq(Plain)
<1>1. ASSUME NEW P, P \subseteq Seq(Plain), NEW path \in InSome(P)
      PROVE  path \in Seq(Plain)
  <2>1. PICK p \in P, s \in Segments : path = p \o <<Slash>> \o s
    BY DEF InSome
  <2>2. p \in Seq(Plain)
    BY <1>1
  <2> QED BY <2>1, <2>2, AboveJoined
<1>2. Segments \subseteq Seq(Plain)
  BY SegmentFacts
<1>3. InSome(Segments) \subseteq Seq(Plain)
  BY <1>1, <1>2
<1>4. InSome(InSome(Segments)) \subseteq Seq(Plain)
  BY <1>1, <1>3
<1> QED BY <1>2, <1>3, <1>4 DEF Trees

\* Patterns of any length, with single and double stars, take what they are
\* documented to (filter.rs:6-14), though matching steps from item to item, and back
\* over what a star took.  Left out are the patterns Proper leaves out: those with an
\* empty name in them, and those rclone refuses for three stars in a row.
THEOREM EveryPatternMeans == Spec => []PatternsMean
<1> DEFINE Inv == glob \in Seq(Symbols)
<1>1. Init => Inv
  BY DEF Init
<1>2. Inv /\ [Next]_vars => Inv'
  <2> SUFFICES ASSUME Inv, [Next]_vars PROVE Inv'
    OBVIOUS
  <2>1. CASE Longer
    BY <2>1 DEF Longer, Symbols
  <2>2. CASE UNCHANGED glob
    BY <2>2
  <2> QED BY <2>1, <2>2 DEF Next, vars, NextDay, OneMore
<1>3. Inv => PatternsMean
  BY OnePatternMeans, TreesArePlain DEF PatternsMean
<1> QED BY <1>1, <1>2, <1>3, PTL DEF Spec

\* No event pushes what a pull would skip, whatever the pattern (filter.rs:59-74).
THEOREM EveryWalkAgrees == Spec => []WalkAgrees
<1>1. WalkAgrees
  BY WalkIs
<1> QED BY <1>1, PTL
=============================================================================
