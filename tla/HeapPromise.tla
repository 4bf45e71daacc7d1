---------------------------- MODULE HeapPromise ----------------------------
(***************************************************************************)
(* What mem.c promises its callers: bytes of mapped memory that nobody     *)
(* else has, which stay the caller's until it gives them back.             *)
(***************************************************************************)
EXTENDS Naturals

CONSTANTS
  Region,  \* regions of memory the system may map
  Top      \* the bytes of a region a caller may get are 0 .. Top - 1

VARIABLE held  \* what the callers have

Range == {r \in [region : Region, lo : 0 .. Top, hi : 0 .. Top] : r.lo < r.hi}

Apart(r, t) == r.region # t.region \/ r.hi <= t.lo \/ t.hi <= r.lo

Init == held = {}

Take == \E r \in held' \ held :
          /\ r \in Range /\ \A t \in held : Apart(r, t)
          /\ held' = held \cup {r}

Give == \E r \in held : held' = held \ {r}

\* The bytes may move; they are still the caller's alone.
Resize == \E r \in held, s \in held' :
            /\ s \in Range /\ \A t \in held \ {r} : Apart(s, t)
            /\ held' = (held \ {r}) \cup {s}

Next == Take \/ Give \/ Resize

Spec == Init /\ [][Next]_held
=============================================================================
