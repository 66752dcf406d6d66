------------------------------- MODULE Filter -------------------------------
(***************************************************************************)
(* Exclude patterns (src/filter.rs).  Patterns and paths are sequences of  *)
(* symbols: letters, "/", and in patterns "?" and "*".  Brackets, braces,  *)
(* escapes and embedded regular expressions are left out.                  *)
(***************************************************************************)
EXTENDS Naturals, Sequences

Slash == "/"

\* add_exclude: excluding "dir/" is excluding "dir/**".
IsDirRule(glob) == glob # <<>> /\ glob[Len(glob)] = Slash
Completed(glob) == IF IsDirRule(glob) THEN glob \o <<"*", "*">> ELSE glob

\* A pattern with "**" is also a rule for directories.
StarsAt(glob, i, n) == \A j \in i..(i + n - 1) : j \in DOMAIN glob /\ glob[j] = "*"
ForDirs(glob) == \E i \in DOMAIN glob : StarsAt(glob, i, 2)
TooManyStars(glob) == \E i \in DOMAIN glob : StarsAt(glob, i, 3)

\* glob_to_regex: a leading "/" anchors the pattern; then each run of stars is
\* one item, and what a symbol of a path has to be for an item to take it.
Anchored(glob) == glob # <<>> /\ glob[1] = Slash
Body(glob) == IF Anchored(glob) THEN Tail(glob) ELSE glob

TakesAnything(glob, i, symbol) == glob[i] \in {"?", "*"} \/ symbol = glob[i]
Takes(glob, i, symbol) ==
  CASE glob[i] = "?" -> symbol # Slash
    [] glob[i] = "*" -> StarsAt(glob, i, 2) \/ symbol # Slash
    [] OTHER -> symbol = glob[i]
After(glob, i) == IF StarsAt(glob, i, 2) THEN i + 2 ELSE i + 1

\* Whether the regular expression matches text from its jth symbol to the end.
MatchesFrom(glob, text, start) ==
  LET M[at \in (1..(Len(glob) + 1)) \X (1..(Len(text) + 1))] ==
        LET i == at[1]
            j == at[2]
        IN  IF i > Len(glob) THEN j > Len(text)
            ELSE \/ glob[i] = "*" /\ M[<<After(glob, i), j>>]
                 \/ /\ j <= Len(text) /\ Takes(glob, i, text[j])
                    /\ M[<<IF glob[i] = "*" THEN i ELSE i + 1, j + 1>>]
  IN  M[<<1, start>>]

Matches(glob, text) ==
  IF Anchored(glob) THEN MatchesFrom(Body(glob), text, 1)
  ELSE \E j \in 1..(Len(text) + 1) :
         (j = 1 \/ text[j - 1] = Slash) /\ MatchesFrom(glob, text, j)

\* includes_dir: directories are tested with a trailing slash.
IncludesDir(glob, dir) ==
  ~(ForDirs(Completed(glob)) /\ Matches(Completed(glob), dir \o <<Slash>>))

\* includes_file: nor is any directory above it excluded.
JustAbove(path) ==
  {SubSeq(path, 1, i - 1) : i \in {j \in DOMAIN path :
     path[j] = Slash /\ \A k \in (j + 1)..Len(path) : path[k] # Slash}}
Above(path) == {SubSeq(path, 1, i - 1) : i \in {j \in DOMAIN path : path[j] = Slash}}
IncludesFile(glob, path) ==
  /\ ~Matches(Completed(glob), path)
  /\ \A dir \in Above(path) : IncludesDir(glob, dir)
=============================================================================
