----------------------------- MODULE MCNickSync -----------------------------
(* NickSync on the networks of Networks.                                   *)
EXTENDS NickSync, Networks

\* "ab" and "ba" are rotations of each other; the others are what
\* client_nick_random may come up with.
PairRotation ==
  [n \in {"ab", "ba", "r1"} |->
     IF n = "ab" THEN "ba" ELSE IF n = "ba" THEN "ab" ELSE n]

PairHome3 == [u \in {"a", "b", "d"} |-> IF u = "a" THEN "A" ELSE "B"]

\* Clocks say anything.
AnyStamp == [s \in {"A", "B"} |-> {1, 2}]
=============================================================================
