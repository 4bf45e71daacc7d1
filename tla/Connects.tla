------------------------------ MODULE Connects ------------------------------
(***************************************************************************)
(* connect{} blocks (lib/src/connect.c): look up a name, open a socket,    *)
(* hand it to lclient_connect, and try again when that fails; and what     *)
(* server_login, server_exit and lclient_vexit do to the block when the    *)
(* peer logs in, over this socket or over one of its own, and leaves.      *)
(*                                                                         *)
(* A block has one pointer to a timer, which is by turns the timer of the  *)
(* next try and the timeout of the current one, one descriptor, and one    *)
(* query.  All blocks are autoconn and have an interval and a timeout.     *)
(* Time is left out: a timer may be called in any walk of timer_run.       *)
(***************************************************************************)
EXTENDS Timers

CONSTANTS
  Conn,        \* connect{} blocks
  Named,       \* those whose address has to be looked up
  FreeTimers,  \* the free timer blocks at start-up
  MaxHeld,     \* bound: lclients of one block
  FailAtOnce   \* whether connect() may fail without waiting (no route)

ASSUME ConnectsAssumption ==
  /\ Named \subseteq Conn /\ FailAtOnce \in BOOLEAN /\ MaxHeld \in Nat
  /\ IsFiniteSet(Slot) /\ Conn # {} /\ IsFiniteSet(Conn) /\ Cardinality(Conn) <= Cardinality(Slot)
  /\ FreeTimers \in Seq(Slot) /\ IsInjective(FreeTimers) /\ Range(FreeTimers) = Slot

VARIABLES
  tm,       \* the timers
  tour,     \* where timer_run is
  cn,       \* [Conn -> [status, active, timer, fd, query]]
  out,      \* [Conn -> sockets opened by connect_initiate that are polled]
  shut,     \* blocks that took a socket out of the poll table and left it open
  held,     \* [Conn -> lclients whose ->connect is the block]
  linked,   \* blocks whose server is registered
  crossed   \* blocks the peer logged in to while a socket was being opened

connectVars == <<tm, tour, cn, out, shut, held, linked, crossed>>

\* connect_add.
Fresh(timer) ==
  [status |-> "idle", active |-> TRUE, timer |-> timer, fd |-> "none", query |-> FALSE]

-----------------------------------------------------------------------------
(* connect.c.  u is [st, c, out, shut]: the timers, one block, its sockets  *)
(* and what all blocks have left open.                                      *)
\* Not the code: the pointer stays.
DropTimerKept(u) ==
  IF u.c.timer = NoTimer THEN u ELSE [u EXCEPT !.st = RemoveTimer(u.st, u.c.timer)]

DropTimer(u) ==
  IF u.c.timer = NoTimer THEN u
  ELSE [u EXCEPT !.st = RemoveTimer(u.st, u.c.timer), !.c.timer = NoTimer]

\* The socket is closed: io_handle_fd does so after connect_read.
CloseFd(u) ==
  [u EXCEPT !.c.fd = "none", !.out = IF u.c.fd = "out" THEN u.out - 1 ELSE u.out]

\* io_shutup on the descriptor of the block: nobody polls it any more, and
\* nobody closes it.
DropFd(u, n) ==
  [CloseFd(u) EXCEPT !.shut = IF u.c.fd = "out" THEN u.shut \cup {n} ELSE u.shut]

SetTimer(u, n, call) ==
  [u EXCEPT !.st = StartTimer(u.st, call, n, 0), !.c.timer = NextSlot(u.st)]

\* if(cnptr->timeout && cnptr->timer == NULL)
SetTimeout(u, n) == IF u.c.timer = NoTimer THEN SetTimer(u, n, "timeout") ELSE u

Retry(u, n) ==
  IF u.c.fd = "none" /\ u.c.timer = NoTimer /\ u.c.active
  THEN SetTimer([u EXCEPT !.c.status = "idle"], n, "start")
  ELSE u

\* What connect_initiate does and returns.
Initiate(u, n) ==
  IF u.c.fd # "none" THEN {[u |-> u, ret |-> -1]}
  ELSE {[u   |-> SetTimeout([u EXCEPT !.c.fd = "out", !.c.status = "connecting",
                                      !.out = u.out + 1], n),
         ret |-> 0]}
       \cup (IF FailAtOnce
             THEN {[u |-> Retry([u EXCEPT !.c.status = "error"], n), ret |-> -1]}
             ELSE {})

\* Without the helper there is no query.
Resolve(u, n) ==
  {[u   |-> SetTimeout([u EXCEPT !.c.query = asked, !.c.status = "resolving"], n),
    ret |-> 0] : asked \in BOOLEAN}

Start(u, n) ==
  IF u.c.status # "idle" THEN {[u |-> u, ret |-> 0]}
  ELSE LET v == DropTimer([u EXCEPT !.c.active = TRUE])
       IN  IF n \in Named THEN Resolve(v, n) ELSE Initiate(v, n)

Cancel(u, n) ==
  LET v == DropTimer(DropFd(u, n))
  IN  [v EXCEPT !.c.query = FALSE, !.c.active = FALSE, !.c.status = "idle"]

\* Not the code: the timer that is running is left to timer_run.
TimeoutTimerKept(u, n) ==
  {[u |-> Retry(v, n), ret |-> 0] : v \in {[DropFd(u, n) EXCEPT !.c.query = FALSE]}}

\* Not the code: the query stays.
TimeoutAsking(u, n) == {[u |-> Retry(v, n), ret |-> 0] : v \in {DropTimer(DropFd(u, n))}}

Timeout(u, n) ==
  {[u |-> Retry(v, n), ret |-> 0] : v \in {DropTimer([DropFd(u, n) EXCEPT !.c.query = FALSE])}}

\* connect_read, when the socket was closed.
Failed(u, n) == Retry(DropTimer([CloseFd(u) EXCEPT !.c.status = "error"]), n)

-----------------------------------------------------------------------------
Of(n)    == [st |-> tm, c |-> cn[n], out |-> out[n], shut |-> shut]
Put(n, u) ==
  \E v \in {u} :
    /\ tm' = v.st
    /\ cn' = [cn EXCEPT ![n] = v.c]
    /\ out' = [out EXCEPT ![n] = v.out] /\ shut' = v.shut

Between == tour = Idle

\* connect_write: the socket of the block becomes an lclient that greets the
\* peer, also when it is a socket the block has lost that got writable.
Established(n) ==
  /\ Between /\ cn[n].status = "connecting" /\ held[n] < MaxHeld
  /\ Put(n, LET u == DropTimer(Of(n))
            IN  [u EXCEPT !.c.status = "done", !.c.fd = "none", !.out = u.out - 1])
  /\ held' = [held EXCEPT ![n] = held[n] + 1]
  /\ UNCHANGED <<tour, linked, crossed>>

Refused(n) ==
  /\ Between /\ cn[n].fd = "out"
  /\ Put(n, Failed(Of(n), n))
  /\ UNCHANGED <<tour, held, linked, crossed>>

\* connect_read on a socket the block has lost.  The block takes it for its
\* own: lclient_connect shuts the descriptor the block has by now or, when
\* that is a link, makes a second lclient of it.
LateRefused(n) ==
  /\ Between /\ n \in crossed /\ out[n] > (IF cn[n].fd = "out" THEN 1 ELSE 0)
  /\ LET u == [DropFd(Of(n), n) EXCEPT !.out = DropFd(Of(n), n).out - 1]
         v == DropTimer([u EXCEPT !.c.status = "error"])
     IN  IF cn[n].fd = "none" THEN Put(n, u) ELSE Put(n, Retry(v, n))
  /\ cn[n].fd = "link" => held[n] < MaxHeld
  /\ held' = IF cn[n].fd = "link" THEN [held EXCEPT ![n] = held[n] + 1] ELSE held
  /\ UNCHANGED <<tour, linked, crossed>>

\* connect_sauth.
Answered(n) ==
  /\ Between /\ cn[n].query /\ cn[n].status = "resolving"
  /\ \E r \in Initiate(Of(n), n) : Put(n, r.u)
  /\ UNCHANGED <<tour, held, linked, crossed>>

\* mo_connect and server_connect, for a server that is not there.
OperConnect(n) ==
  /\ Between /\ n \notin linked
  /\ \E r \in Start(Of(n), n) : Put(n, r.u)
  /\ UNCHANGED <<tour, held, linked, crossed>>

\* server_login of a peer with the name of the block, over the lclient of
\* that block or another one.  It fails for its password or its class.
Login(n, own, ok) ==
  /\ Between /\ n \notin linked
  /\ IF own THEN held[n] > 0 ELSE held[n] < MaxHeld
  /\ n \in crossed => out[n] = 0
  /\ LET u == Cancel([Of(n) EXCEPT !.c.fd = "none"], n)
         v == [u EXCEPT !.c.fd = "link", !.c.status = "done"]
     IN  Put(n, IF own /\ ~ok THEN Retry(Cancel(v, n), n) ELSE v)
  /\ held' = [held EXCEPT ![n] = IF own = ok THEN held[n] ELSE IF ok THEN held[n] + 1 ELSE held[n] - 1]
  /\ linked' = IF ok THEN linked \cup {n} ELSE linked
  /\ crossed' = IF out[n] > 0 THEN crossed \cup {n} ELSE crossed
  /\ UNCHANGED tour

\* lclient_vexit of an lclient that has the block, with its server if it
\* has one.
Lost(n) ==
  /\ Between /\ held[n] > 0
  /\ Put(n, Retry(Cancel(Of(n), n), n))
  /\ held' = [held EXCEPT ![n] = held[n] - 1]
  /\ linked' \in IF held[n] = 1 THEN {linked \ {n}} ELSE {linked, linked \ {n}}
  /\ UNCHANGED <<tour, crossed>>

-----------------------------------------------------------------------------
Run ==
  /\ Between /\ tm.list # <<>>
  /\ tour' = Begin(tm)
  /\ UNCHANGED <<tm, cn, out, shut, held, linked, crossed>>

\* One timer of the walk: not due, or called.
Skip ==
  /\ ~Between /\ tour.cur # NoTimer
  /\ tour' = Onward(tm, tour)
  /\ UNCHANGED <<tm, cn, out, shut, held, linked, crossed>>

Call(s) ==
  /\ ~Between /\ tour.cur = s
  /\ \E n \in {tm.at[s].arg} : \E u \in {Of(n)} :
     \E r \in IF tm.at[s].call = "start" THEN Start(u, n) ELSE Timeout(u, n) :
       Put(n, [r.u EXCEPT !.st = Called(r.u.st, s, r.ret)])
  /\ tour' = Onward(tm', tour)
  /\ UNCHANGED <<held, linked, crossed>>

\* ircd.y: connect_add for each block of the configuration, in its order.
AddAll ==
  LET blocks == SetToSeq(Conn)
      add[i \in 0 .. Cardinality(Conn)] ==
        IF i = 0 THEN [st |-> NoTimers(FreeTimers), cn |-> [n \in Conn |-> Fresh(NoTimer)]]
        ELSE [st |-> StartTimer(add[i - 1].st, "start", blocks[i], 0),
              cn |-> [add[i - 1].cn EXCEPT ![blocks[i]] = Fresh(NextSlot(add[i - 1].st))]]
  IN  add[Cardinality(Conn)]

ConnectInit ==
  /\ tm = AddAll.st /\ cn = AddAll.cn /\ tour = Idle
  /\ out = [n \in Conn |-> 0] /\ held = [n \in Conn |-> 0]
  /\ shut = {} /\ linked = {} /\ crossed = {}

Walk == Run \/ Skip

\* What happens without an answer of the helper.
ConnectStep ==
  \/ Run \/ Skip
  \/ \E s \in Slot : Call(s)
  \/ \E n \in Conn : \/ Established(n) \/ Refused(n) \/ LateRefused(n)
                     \/ OperConnect(n) \/ Lost(n)
                     \/ \E own, ok \in BOOLEAN : Login(n, own, ok)

-----------------------------------------------------------------------------
ConnectTypeOK ==
  /\ StoreOK(tm)
  /\ cn \in [Conn -> [status : {"idle", "resolving", "connecting", "error", "done"},
                      active : BOOLEAN, timer : Slot \cup {NoTimer},
                      fd : {"none", "out", "link"}, query : BOOLEAN]]
  /\ out \in [Conn -> 0..2] /\ held \in [Conn -> 0..MaxHeld]
  /\ shut \subseteq Conn /\ linked \subseteq Conn /\ crossed \subseteq Conn

(* The one pointer is to the one timer of the block, whichever callback or *)
(* handler started it last, and no other timer is left behind.             *)
TimersOwned ==
  /\ \A n \in Conn : cn[n].timer # NoTimer =>
       Listed(tm, cn[n].timer) /\ tm.at[cn[n].timer].arg = n /\ tm.at[cn[n].timer].refs = 1
  /\ \A s \in Range(tm.list) : tm.at[s].refs > 0 => cn[tm.at[s].arg].timer = s

(* connect_retry: a block nobody has cancelled or linked is waiting, for   *)
(* its next try or for the timeout of this one, whatever order the answer, *)
(* the refusal and the timeout come in.                                    *)
RetryPending ==
  \A n \in Conn : cn[n].active /\ cn[n].status # "done" =>
    /\ cn[n].timer # NoTimer
    /\ cn[n].status = "idle" <=> tm.at[cn[n].timer].call = "start"
    /\ cn[n].status = "connecting" <=> cn[n].fd = "out"

(* No socket is polled that its block does not know, unless the peer       *)
(* logged in meanwhile.  What connect_timeout or connect_cancel has shut   *)
(* is not polled: it stays open for ever, and no block knows it (shut).    *)
SocketsOwned ==
  \A n \in Conn \ crossed : out[n] = IF cn[n].fd = "out" THEN 1 ELSE 0

(* What a block points to is its own and all it has: one timer, one        *)
(* socket, and a next try or a timeout to come.                            *)
ConnectsOwned == ConnectTypeOK /\ TimersOwned /\ RetryPending /\ SocketsOwned
=============================================================================
