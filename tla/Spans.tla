-------------------------------- MODULE Spans --------------------------------
(***************************************************************************)
(* Time spans as the options of a pair give them (src/timespan.rs).  A     *)
(* span is a sequence of numbers, words and spaces; neither two numbers    *)
(* nor two words stand side by side, they would be one.                    *)
(***************************************************************************)
EXTENDS Integers, Sequences

CONSTANT Word  \* how many values a machine word has: 2^64 in the program

Number(n) == <<"number", n>>
Named(word) == <<"word", word>>
Space == <<"space">>
Seconds == [s |-> 1, min |-> 60, h |-> 3600]
Units == DOMAIN Seconds

\* The product wraps in a release build; plain seconds are not multiplied.
PartUnscaled(n, unit) == n
Part(n, unit) == IF unit = "s" THEN n ELSE (n * Seconds[unit]) % Word

\* What a span cannot be: without a number where one is due, of an unknown unit.
Invalid == -1
\* What ends the program: the sum is checked, the products are not.
Overflow == -2

\* parse: seconds, or Invalid.  Spaces around a number and its unit are skipped,
\* a number with no unit at its side is in seconds.
NumberAt(span, i) == i <= Len(span) /\ span[i][1] = "number"
WordAt(span, i) == i <= Len(span) /\ span[i][1] = "word"

Parse(span) ==
  LET From[i \in 1..(Len(span) + 1)] ==
        IF i > Len(span) THEN 0
        ELSE IF ~NumberAt(span, i) THEN IF span[i] = Space THEN From[i + 1] ELSE Invalid
        ELSE LET after == IF WordAt(span, i + 1) THEN i + 2 ELSE i + 1
                 unit == IF WordAt(span, i + 1) THEN span[i + 1][2] ELSE "s"
             IN  IF unit \notin Units \/ From[after] = Invalid THEN Invalid
                 ELSE Part(span[i][2], unit) + From[after]
  IN  IF \A i \in DOMAIN span : span[i] = Space THEN Invalid
      ELSE IF From[1] < Word THEN From[1] ELSE Overflow
=============================================================================
