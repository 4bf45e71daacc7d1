--------------------------- MODULE HelperPromise ---------------------------
(***************************************************************************)
(* What a process that looks things up for the server promises (Lookups    *)
(* relies on it, Servauth implements it): each question gets one answer,   *)
(* and an answer that was not looked up repeats one that was, to a         *)
(* question about the same, or is one every such process starts with.      *)
(***************************************************************************)
CONSTANTS
  Question, About, None,
  Given     \* <<what a question is about, answer>>, known from the start

VARIABLES
  asked,    \* questions not looked at yet
  looking,  \* questions being looked up
  kept,     \* <<what a question was about, answer>>, as far as remembered
  said      \* <<question, answer>> of the last step

vars == <<asked, looking, kept, said>>

Init == asked = {} /\ looking = {} /\ kept = Given /\ said = None

Ask(q) ==
  /\ q \notin asked \cup looking /\ asked' = asked \cup {q}
  /\ said' = None /\ UNCHANGED <<looking, kept>>

Look(q) ==
  /\ q \in asked /\ asked' = asked \ {q} /\ looking' = looking \cup {q}
  /\ said' = None /\ UNCHANGED kept

Repeat(q) ==
  /\ q \in asked /\ asked' = asked \ {q}
  /\ \E fact \in kept : fact[1] = About[q] /\ said' = <<q, fact[2]>>
  /\ UNCHANGED <<looking, kept>>

Answer(q) ==
  /\ q \in looking /\ looking' = looking \ {q}
  /\ said' # None /\ said'[1] = q
  /\ kept' \subseteq kept \cup {<<About[q], said'[2]>>}
  /\ UNCHANGED asked

Quiet == said' = None /\ UNCHANGED <<asked, looking, kept>>

\* The process ends: nothing it was asked, or has learned, is left.
End == asked' = {} /\ looking' = {} /\ kept' = Given /\ said' = None

Next ==
  \/ Quiet \/ End
  \/ \E q \in Question : Ask(q) \/ Look(q) \/ Repeat(q) \/ Answer(q)

Spec == Init /\ [][Next]_vars
=============================================================================
