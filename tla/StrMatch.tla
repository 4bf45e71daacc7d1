------------------------------ MODULE StrMatch ------------------------------
(***************************************************************************)
(* str_match: does a string match a mask with "*" and "?".  One pass over  *)
(* both with a way back to behind the last star; Glob is what it should    *)
(* compute.                                                                *)
(***************************************************************************)
EXTENDS Integers, Sequences, FiniteSetsExt, SequencesExt

\* The character at a position; behind the last one is a NUL, and nothing
\* may be read behind that.
At(s, i) == IF i <= Len(s) THEN s[i] ELSE IF i = Len(s) + 1 THEN "NUL" ELSE "beyond"

SkipStars(mask, i) == Min({j \in i .. Len(mask) + 1 : At(mask, j) # "*"})

\* m and n walk over mask and string; ma and na are where to go back to.
Start == [m |-> 1, n |-> 1, ma |-> 1, na |-> 1, wild |-> FALSE, result |-> "none"]

Return(c, b) == [c EXCEPT !.result = b]
Back(c)      == [c EXCEPT !.m = c.ma, !.n = c.na + 1, !.na = c.na + 1]

AtStar(mask, c) ==
  IF At(mask, c.m) # "*" THEN c
  ELSE LET m == SkipStars(mask, c.m)
       IN  [c EXCEPT !.m = m, !.ma = m, !.na = c.n, !.wild = TRUE]

\* The last character of the mask but question marks.
LastPlain(mask, m) == Max({1} \cup {j \in 2 .. m - 1 : mask[j] # "?"})

Ends(str, mask, c) ==
  CASE At(mask, c.m) = "NUL" /\ At(str, c.n) = "NUL" -> Return(c, "yes")
    [] At(mask, c.m) = "NUL" /\ At(str, c.n) # "NUL" ->
         LET k == LastPlain(mask, c.m)
         IN  IF mask[k] = "*" /\ k > 1 THEN Return(c, "yes")
             ELSE IF c.wild THEN Back(c) ELSE Return(c, "no")
    [] At(mask, c.m) # "NUL" /\ At(str, c.n) = "NUL" ->
         Return(c, IF At(mask, SkipStars(mask, c.m)) = "NUL" THEN "yes" ELSE "no")
    [] OTHER -> c

Advance(str, mask, c) ==
  IF c.result # "none" THEN c
  ELSE IF At(mask, c.m) \notin {At(str, c.n), "?"}
       THEN IF c.wild THEN Back(c) ELSE Return(c, "no")
       ELSE [c EXCEPT !.m = IF At(mask, c.m) = "NUL" THEN @ ELSE @ + 1,
                      !.n = IF At(str, c.n) = "NUL" THEN @ ELSE @ + 1]

Turn(str, mask, c) ==
  IF c.result # "none" THEN c
  ELSE Advance(str, mask, Ends(str, mask, AtStar(mask, c)))

\* MATCH_MAX_CALLS turns; the small strings here need far fewer.
Turns(str, mask) == 2 * (Len(str) + 2) * (Len(mask) + 2)

MatchEnd(str, mask) ==
  FoldLeft(LAMBDA c, i : Turn(str, mask, c), Start, [i \in 1 .. Turns(str, mask) |-> i])

StrMatch(str, mask) == MatchEnd(str, mask).result = "yes"

\* What is meant: every star stands for some part of the string, every
\* question mark for one character.
Glob(str, mask) ==
  LET glob[i \in 1 .. Len(str) + 1, j \in 1 .. Len(mask) + 1] ==
        IF j > Len(mask) THEN i > Len(str)
        ELSE IF mask[j] = "*" THEN \/ glob[i, j + 1]
                                   \/ i <= Len(str) /\ glob[i + 1, j]
        ELSE i <= Len(str) /\ mask[j] \in {str[i], "?"} /\ glob[i + 1, j + 1]
  IN  glob[1, 1]
=============================================================================
