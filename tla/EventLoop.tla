----------------------------- MODULE EventLoop -----------------------------
(***************************************************************************)
(* ircd_loop (src/ircd.c): wait in poll no longer than the next timer      *)
(* allows, run timers, correct them when the clock was set, handle what    *)
(* arrived.  The timers are those of local clients: the timeout of a login *)
(* or the ping of a registered user (src/lclient.c), the flood counter's   *)
(* reset and the throttle (modules/lclient/lc_mflood.c).                   *)
(*                                                                         *)
(* One unit of time is TIMER_MAX_DRIFT or more; the 10 msecs io_poll adds  *)
(* to its deadline are less than a unit and more than nothing.             *)
(***************************************************************************)
EXTENDS Timers

CONSTANTS
  Client,    \* local connections
  Order,     \* the free timer blocks at start-up
  PingFreq, FloodInterval, ThrottleInterval,
  MaxLate,   \* bound: how much later than asked poll returns
  MaxDrift,  \* TIMER_MAX_DRIFT
  ClockSteps,\* by how much the clock is set
  MaxSteps   \* bound: how often that happens

\* Intervals are positive; at the start every block is free, once.
EventLoopAssumption ==
  /\ Order \in Seq(Slot) /\ IsInjective(Order) /\ Range(Order) = Slot
  /\ {PingFreq, FloodInterval, ThrottleInterval} \subseteq Nat \ {0}
  /\ {MaxLate, MaxDrift, MaxSteps} \subseteq Nat /\ ClockSteps \subseteq Int
ASSUME EventLoopAssumption

VARIABLES
  st,        \* the timers
  walk,      \* where timer_run is
  phase,     \* what ircd_loop does next
  drift,     \* clock time passed in poll and not accounted for
  user,      \* [Client -> "none", "unknown", "user"]
  ptimer, rtimer, ttimer,  \* the timers each client points to
  \* what the code does not know
  real,      \* time until a timer should be called
  last,      \* the timer called in the last step
  forward,   \* whether the clock was ever set forward
  steps,
  astray     \* whether the block timer_run will go to next was freed

pointers == <<ptimer, rtimer, ttimer>>
history  == <<real, last, forward, steps, astray>>
vars     == <<st, walk, phase, drift, user, pointers, history>>

\* A timer that is started is due after its interval.
Started(s) == real' = [s2 \in Slot |-> IF s2 \in s THEN st'.at[s2].every ELSE real[s2]]

-----------------------------------------------------------------------------
(* Clients, as the handlers of the I/O phase find them.                    *)
Handler == phase = "io" /\ phase' = "collect" /\ UNCHANGED <<walk, drift, forward, steps, astray>>
           /\ last' = NoTimer

\* Bound: blocks of the heap, which in the code grows.
Room(n) == Len(st.free) >= n

Accept(c) ==
  /\ Handler /\ user[c] = "none" /\ Room(1)
  /\ st' = StartTimer(st, "exit", c, PingFreq)
  /\ ptimer' = [ptimer EXCEPT ![c] = NextSlot(st)]
  /\ user' = [user EXCEPT ![c] = "unknown"]
  /\ Started({NextSlot(st)})
  /\ UNCHANGED <<rtimer, ttimer>>

\* lclient_register, and then lc_mflood_hook.
Register(c) ==
  /\ Handler /\ user[c] = "unknown" /\ Room(1)
  /\ LET s1 == CancelTimer(st, ptimer[c])
         s2 == StartTimer(s1, "ping", c, PingFreq)
     IN  /\ st' = StartTimer(s2, "reset", c, FloodInterval)
         /\ ptimer' = [ptimer EXCEPT ![c] = NextSlot(s1)]
         /\ rtimer' = [rtimer EXCEPT ![c] = NextSlot(s2)]
         /\ Started({NextSlot(s1), NextSlot(s2)})
  /\ user' = [user EXCEPT ![c] = "user"]
  /\ UNCHANGED ttimer

\* lc_mflood_parse: too many lines.
Throttle(c) ==
  /\ Handler /\ user[c] = "user" /\ ttimer[c] = NoTimer /\ Room(1)
  /\ st' = StartTimer(st, "throttle", c, ThrottleInterval)
  /\ ttimer' = [ttimer EXCEPT ![c] = NextSlot(st)]
  /\ Started({NextSlot(st)})
  /\ UNCHANGED <<user, ptimer, rtimer>>

\* Not the code: forgets the throttle.
ReleasedInPart(s, c) == CancelTimer(PushTimer(s, rtimer[c]), ptimer[c])

\* lclient_release: its hook lets go of the flood timers, which stay on the
\* list until somebody comes across them; the ping timer is freed at once.
Released(s, c) == CancelTimer(PushTimer(PushTimer(s, rtimer[c]), ttimer[c]), ptimer[c])

Forget(c) ==
  /\ user' = [user EXCEPT ![c] = "none"]
  /\ ptimer' = [ptimer EXCEPT ![c] = NoTimer]
  /\ rtimer' = [rtimer EXCEPT ![c] = NoTimer]
  /\ ttimer' = [ttimer EXCEPT ![c] = NoTimer]

Quit(c) ==
  /\ Handler /\ user[c] # "none"
  /\ st' = Released(st, c) /\ Forget(c) /\ UNCHANGED real

Quiet == Handler /\ UNCHANGED <<st, user, pointers, real>>

-----------------------------------------------------------------------------
(* timer_run                                                               *)
\* What callbacks do: a result, the timers and the pointers they leave.
Stays(c, result) ==
  /\ st' = Called(st, walk.cur, result)
  /\ ttimer' = IF result = 0 THEN ttimer ELSE [ttimer EXCEPT ![c] = NoTimer]
  /\ UNCHANGED <<user, ptimer, rtimer>>

Exits(c) == st' = Called(Released(st, c), walk.cur, 0) /\ Forget(c)

Callback(s) ==
  LET c == st.at[s].arg
  IN  \/ st.at[s].call = "exit"     /\ Exits(c)
      \/ st.at[s].call = "ping"     /\ (Stays(c, 0) \/ Exits(c))
      \/ st.at[s].call = "reset"    /\ Stays(c, 0)
      \/ st.at[s].call = "throttle" /\ (Stays(c, 1) \/ Exits(c))   \* else RunLine

At(s) == phase = "run" /\ walk.cur = s /\ s # NoTimer
Calling(s) == At(s) /\ Listed(st, s) /\ st.at[s].refs > 0 /\ Due(st, s)
Owed(s)  == real' = [real EXCEPT ![s] = @ + st.at[s].every]

RunStep ==
  /\ \E s \in Range(st.list) :
       \/ /\ At(s) /\ st.at[s].refs = 0
          /\ st' = RemoveTimer(st, s)
          /\ last' = NoTimer /\ UNCHANGED <<user, pointers, real>>
       \/ Calling(s) /\ Callback(s) /\ last' = s /\ Owed(s)
       \/ /\ At(s) /\ st.at[s].refs > 0 /\ ~Due(st, s)
          /\ last' = NoTimer /\ UNCHANGED <<st, user, pointers, real>>
  /\ walk' = Onward(st', walk)
  /\ UNCHANGED <<phase, drift, forward, steps, astray>>

\* lc_mflood_ttimer, with a line left, has lclient_process run it.  Of what a
\* line may say only this matters to timers: clients leave, one after the
\* other, its own (QUIT) or, when an operator sent it, others (KILL, GLINE).
RunLine ==
  /\ Calling(walk.cur) /\ st.at[walk.cur].call = "throttle"
  /\ phase' = "line" /\ last' = walk.cur
  /\ UNCHANGED <<st, walk, drift, user, pointers, real, forward, steps, astray>>

LineExit(c) ==
  /\ phase = "line" /\ user[c] = "user"
  /\ st' = Released(st, c) /\ Forget(c)
  /\ astray' = (astray \/ ptimer[c] = walk.next)
  /\ last' = NoTimer
  /\ UNCHANGED <<walk, phase, drift, real, forward, steps>>

LineDone ==
  /\ phase = "line"
  /\ st' = Called(st, walk.cur, 0) /\ Owed(walk.cur)
  /\ walk' = Onward(st', walk) /\ phase' = "run" /\ last' = NoTimer
  /\ UNCHANGED <<drift, user, pointers, forward, steps, astray>>

\* The block has a reference count of 0 and no neighbours: dlink_delete goes
\* through a null pointer.
Crash ==
  /\ At(walk.cur) /\ ~Listed(st, walk.cur)
  /\ phase' = "crashed" /\ last' = NoTimer
  /\ UNCHANGED <<st, walk, drift, user, pointers, real, forward, steps, astray>>

RunDone ==
  /\ phase = "run" /\ walk.cur = NoTimer
  /\ phase' = "drift" /\ last' = NoTimer
  /\ UNCHANGED <<st, walk, drift, user, pointers, real, forward, steps, astray>>

-----------------------------------------------------------------------------
(* The loop                                                                *)
Within(e, lo, hi) == IF e < lo THEN lo ELSE IF e > hi THEN hi ELSE e

\* timer_timeout, io_poll.  r units pass, the clock is set by j.
Poll(r, j) ==
  LET s0 == CollectTimers(st)
      w  == TimeoutOf(s0)
      e  == r + j
      \* remain: nothing is left of a timeout of 0, or when poll is late.
      over   == w = 0 \/ e > w
      waited == IF over THEN w ELSE Within(e, 0, w)
  IN  /\ phase = "poll"
      /\ w >= 0 => r <= w + MaxLate
      /\ w < 0 => r = 0
      /\ j # 0 => steps < MaxSteps
      /\ steps' = IF j = 0 THEN steps ELSE steps + 1
      /\ st' = Pass(s0, e)
      /\ real' = [s \in Slot |-> IF Listed(s0, s) THEN real[s] - r ELSE 0]
      /\ drift' = IF w < 0 THEN 0 ELSE e - waited
      /\ phase' = IF over THEN "run" ELSE "drift"
      /\ walk' = IF over THEN Begin(st') ELSE Idle
      /\ forward' = (forward \/ j > 0)
      /\ last' = NoTimer
      /\ UNCHANGED <<user, pointers, astray>>

\* Not the code: deadlines move against the clock.
DriftInverted ==
  /\ phase = "drift"
  /\ st' = IF drift < -MaxDrift \/ drift > MaxDrift THEN Shift(st, -drift) ELSE st
  /\ phase' = "io" /\ drift' = 0 /\ last' = NoTimer
  /\ UNCHANGED <<walk, user, pointers, real, forward, steps, astray>>

\* timer_drift: deadlines follow a clock that was set.
Drift ==
  /\ phase = "drift"
  /\ st' = IF drift < -MaxDrift \/ drift > MaxDrift THEN Shift(st, drift) ELSE st
  /\ phase' = "io" /\ drift' = 0 /\ last' = NoTimer
  /\ UNCHANGED <<walk, user, pointers, real, forward, steps, astray>>

Collect ==
  /\ phase = "collect"
  /\ st' = CollectTimers(st)
  /\ phase' = "poll" /\ last' = NoTimer
  /\ UNCHANGED <<walk, drift, user, pointers, real, forward, steps, astray>>

Init ==
  /\ st = NoTimers(Order) /\ walk = Idle /\ phase = "poll" /\ drift = 0
  /\ user = [c \in Client |-> "none"]
  /\ ptimer = [c \in Client |-> NoTimer]
  /\ rtimer = ptimer /\ ttimer = ptimer
  /\ real = [s \in Slot |-> 0] /\ last = NoTimer /\ steps = 0
  /\ forward = FALSE /\ astray = FALSE

Wait == \E r \in 0..PingFreq + MaxLate, j \in ClockSteps \cup {0} : Poll(r, j)

Next ==
  \/ Wait \/ RunStep \/ RunLine \/ LineDone \/ Crash \/ RunDone
  \/ Drift \/ Collect \/ Quiet
  \/ \E c \in Client : Accept(c) \/ Register(c) \/ Throttle(c) \/ Quit(c) \/ LineExit(c)

Spec == Init /\ [][Next]_vars


-----------------------------------------------------------------------------
TypeOK ==
  /\ StoreOK(st)
  /\ walk.cur \in Slot \cup {NoTimer} /\ walk.next \in Slot \cup {NoTimer}
  /\ phase \in {"poll", "run", "line", "crashed", "drift", "io", "collect"}
  /\ astray \in BOOLEAN /\ drift \in Int /\ user \in [Client -> {"none", "unknown", "user"}]

(* timer_run is at a block of the list, and what it will go to next stays  *)
(* listed while it calls.                                                  *)
WalkListed ==
  /\ walk.cur # NoTimer => Listed(st, walk.cur)
  /\ walk.next # NoTimer => Listed(st, walk.next)

(* A client points to its own running timers, and no other timer is left   *)
(* that would be called for a client that is gone or came again; nor does  *)
(* timer_run go to a block that was freed - unless a line that the         *)
(* throttle had run made another client leave whose ping timer was next:   *)
(* then the server is lost before this timer_run is over, and only then.   *)
PointersAgree ==
  LET Held(c) == {ptimer[c], rtimer[c], ttimer[c]} \ {NoTimer}
  IN  /\ TypeOK
      /\ IF astray THEN phase \in {"line", "run", "crashed"}
                   ELSE phase # "crashed" /\ WalkListed
      /\ \A c \in Client : \A s \in Held(c) :
           Listed(st, s) /\ st.at[s].arg = c /\ st.at[s].refs = 1
      /\ \A s \in Range(st.list) : st.at[s].refs > 0 => s \in Held(st.at[s].arg)
      /\ \A c \in Client : (ptimer[c] = NoTimer) = (user[c] = "none")

(* Nothing is called before its time, unless the clock was set forward:    *)
(* timer_run then comes before timer_drift knows.                          *)
NeverEarly ==
  [][\A s \in Slot : last' = s /\ ~forward => real[s] <= 0]_vars

(* Whatever is due gets called by the next timer_run that ends, however    *)
(* the list changes under it: it is late by what poll is late.  When the   *)
(* clock is set back, timer_drift takes the poll for one of no length, and *)
(* timers are late by as much, for good; a setting of MaxDrift or less is  *)
(* taken for a late poll and never made good.                              *)
CalledInTime ==
  phase \in {"io", "poll"} =>
    \A s \in Range(st.list) : st.at[s].refs > 0 =>
      real[s] >= -(steps * (PingFreq + MaxLate + MaxDrift))
=============================================================================
