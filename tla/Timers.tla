------------------------------- MODULE Timers -------------------------------
(***************************************************************************)
(* The timers of lib/src/timer.c: a store of timer blocks, what a caller   *)
(* does to it, and the walk by which timer_run calls what is due.          *)
(*                                                                         *)
(* A timer is known by the block it lives in, and a block that was freed   *)
(* last is the next one to be used (lib/src/mem.c), so a pointer kept too  *)
(* long may come to mean another timer.  Deadlines are counted from        *)
(* timer_mtime: "left" is deadline - timer_mtime.                          *)
(***************************************************************************)
EXTENDS Integers, Sequences, SequencesExt, FiniteSets, FiniteSetsExt

CONSTANTS
  Slot,      \* the blocks of timer_heap
  NoTimer    \* NULL

ASSUME NoTimerAssumption == NoTimer \notin Slot

Blank == [left |-> 0, every |-> 0, refs |-> 0, call |-> "none", arg |-> "none"]

\* timer_list in its order, free blocks in the order they will be used.
NoTimers(order) ==
  [list |-> <<>>, free |-> order, at |-> [s \in Slot |-> Blank]]

Listed(st, s) == s \in Range(st.list)
Place(st, s)  == CHOOSE j \in DOMAIN st.list : st.list[j] = s

-----------------------------------------------------------------------------
(* What callers do                                                         *)
\* mem_static_alloc: the block freed last.
NextSlot(st) == Head(st.free)

StartTimer(st, call, arg, left) ==
  [list |-> Append(st.list, NextSlot(st)), free |-> Tail(st.free),
   at |-> [st.at EXCEPT ![NextSlot(st)] =
             [left |-> left, every |-> left, refs |-> 1, call |-> call, arg |-> arg]]]

\* What was in the block is not read again before timer_start writes it.
RemoveTimer(st, s) ==
  [list |-> IF Listed(st, s) THEN RemoveAt(st.list, Place(st, s)) ELSE st.list,
   free |-> <<s>> \o st.free,
   at   |-> [st.at EXCEPT ![s] = Blank]]

CancelTimer(st, s) ==
  IF s = NoTimer THEN st ELSE RemoveTimer(st, s)

PushTimer(st, s) ==
  IF s = NoTimer \/ st.at[s].refs = 0 THEN st ELSE [st EXCEPT !.at[s].refs = @ - 1]

FindTimers(st, call, arg) ==
  {s \in Range(st.list) : st.at[s].call = call /\ st.at[s].arg = arg}

\* timer_collect, and the first thing timer_deadline does: along the list as
\* it was, the next timer kept before one is removed.
CollectTimers(st) ==
  LET collect[n \in 0 .. Len(st.list)] ==
        IF n = 0 THEN st
        ELSE IF st.at[st.list[n]].refs = 0 THEN RemoveTimer(collect[n - 1], st.list[n])
        ELSE collect[n - 1]
  IN  collect[Len(st.list)]

-----------------------------------------------------------------------------
(* timer_run                                                               *)
\* A block that is not on the list has no successor: dlink_delete zeroes it.
After(st, s) ==
  IF s = NoTimer \/ ~Listed(st, s) \/ s = Last(st.list) THEN NoTimer
  ELSE st.list[Place(st, s) + 1]

Idle     == [cur |-> NoTimer, next |-> NoTimer]
Begin(st) ==
  IF st.list = <<>> THEN Idle
  ELSE [cur |-> Head(st.list), next |-> After(st, Head(st.list))]

\* The block the walk remembered before it called the timer in front of it.
Onward(st, w) == [cur |-> w.next, next |-> After(st, w.next)]

Due(st, s) == st.at[s].left <= 0

\* Not the code: the deadline stays where it was.
CalledKeeps(st, s, result) ==
  IF Listed(st, s) /\ result # 0 THEN [st EXCEPT !.at[s].refs = 0] ELSE st

\* What timer_run does with the block when the callback has returned, to
\* whatever timer is in it by then.
Called(st, s, result) ==
  IF ~Listed(st, s) THEN st
  ELSE IF result # 0 THEN [st EXCEPT !.at[s].refs = 0]
  ELSE [st EXCEPT !.at[s].left = @ + st.at[s].every]

-----------------------------------------------------------------------------
(* Time                                                                    *)
\* timer_update after e units of time, timer_shift by e units.
Pass(st, e)  ==
  [st EXCEPT !.at = [s \in Slot |->
     IF Listed(st, s) THEN [st.at[s] EXCEPT !.left = @ - e] ELSE st.at[s]]]
Shift(st, d) == Pass(st, -d)

\* timer_timeout: 0 as soon as something is due, -1 (NULL) without timers.
TimeoutOf(st) ==
  IF st.list = <<>> THEN -1
  ELSE LET m == Min({st.at[s].left : s \in Range(st.list)}) IN IF m < 0 THEN 0 ELSE m

\* The blocks in use are those on the list, and each of them once.
StoreOK(st) ==
  /\ IsInjective(st.list) /\ IsInjective(st.free)
  /\ Range(st.list) \cap Range(st.free) = {}
  /\ Range(st.list) \cup Range(st.free) = Slot
=============================================================================
