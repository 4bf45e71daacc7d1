---------------------------- MODULE MCEventLoop ----------------------------
(* The timers of the main loop; and, in behaviours of their own, the heaps *)
(* they and everything else are allocated from.                            *)
EXTENDS EventLoop, Heaps

CONSTANTS t1, t2, t3, t4, t5
Blocks == <<t1, t2, t3, t4, t5>>
SetClock == {-3, 3}
Symmetry == Permutations(Region) \cup Permutations(Client)

\* Bounds: the clock is set only while a block is free, so with one client
\* that is throttled; two registered clients, one throttled, take all five.
VARIABLE part

EitherInit == Init /\ HeapInit /\ part \in {"clock", "lines", "heaps"}

Either ==
  \/ part = "clock" /\ Next /\ st'.free # <<>> /\ UNCHANGED <<heapVars, part>>
  \/ part = "lines" /\ Next /\ steps' = 0 /\ UNCHANGED <<heapVars, part>>
  \/ part = "heaps" /\ HeapNext /\ UNCHANGED <<vars, part>>
  \/ /\ ~alive \/ phase = "crashed"   \* mem_fatal, dlink_delete
     /\ UNCHANGED <<vars, heapVars, part>>

EitherSpec == EitherInit /\ [][Either]_<<vars, heapVars, part>>
=============================================================================
