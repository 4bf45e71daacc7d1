------------------------------ MODULE Lookups ------------------------------
(***************************************************************************)
(* Lookups by a helper process: sauth.c, which starts the process, writes  *)
(* it queries and calls back for every answer; child.c, which watches the  *)
(* process; and lc_sauth.c, which lets a client wait for three lookups in  *)
(* a row before it is registered: its host name, its user name and whether *)
(* proxies run there.  connect.c asks, too (Connects).                     *)
(*                                                                         *)
(* The process may die at any time and fork may fail.  A client may leave  *)
(* while it is looked up: nothing ends the lookup then, for nothing sets   *)
(* plugdata[LCLIENT_PLUGDATA_SAUTH], and it goes on with the block of the  *)
(* client, which the next connection gets.  What the code does not         *)
(* survive, a null pointer or a walk over a freed query, is down: the      *)
(* server stops and is started again.                                      *)
(*                                                                         *)
(* Not covered: children that start by themselves, replies that do not     *)
(* parse, the userdb queries and the list of proxies' ini file.            *)
(***************************************************************************)
EXTENDS Naturals, Sequences, SequencesExt

CONSTANTS
  Block,      \* lclient blocks, as many as connections at a time
  FreeBlocks, \* the free ones at start-up
  Look,       \* lc_sauth blocks
  Ports,      \* the proxy services to look for, in order
  Asker,      \* connect{} blocks whose address is a name
  None,
  MaxTimers   \* bound: relaunch timers under way when the process dies

Port == Range(Ports)
ForLook == Look \X ({"dns", "auth"} \cup Port)
ForName == Asker \X {"name"}
Query   == ForLook \cup ForName

LookupsAssumption ==
  /\ FreeBlocks \in Seq(Block) /\ IsInjective(FreeBlocks) /\ Range(FreeBlocks) = Block
  /\ Ports \in Seq(Port) /\ IsInjective(Ports) /\ {"dns", "auth", "name"} \cap Port = {}
  /\ None \notin Block \cup Query /\ MaxTimers \in Nat
ASSUME LookupsAssumption

VARIABLES
  hp,      \* the process, its struct child, and sauth_child, sauth_rtimer
  qs,      \* the queries
  look,    \* lc_sauth block -> whose lookup, and what it waits for
  lc,      \* the lclients
  down

lookupVars == <<hp, qs, look, lc, down>>

NoLook == [block |-> None, gone |-> FALSE, wants |-> {}]

-----------------------------------------------------------------------------
(* Handlers call each other with u, the whole state, and are the set of    *)
(* what may come of it.                                                    *)

State == [hp |-> hp, qs |-> qs, look |-> look, lc |-> lc, down |-> down]

Become(outcomes) ==
  \E u \in outcomes :
    hp' = u.hp /\ qs' = u.qs /\ look' = u.look /\ lc' = u.lc /\ down' = u.down

Down(u) == [u EXCEPT !.down = TRUE]

\* child_launch; fork may fail.
ChildLaunch(u) ==
  {[u EXCEPT !.hp.proc = "failed"],
   [u EXCEPT !.hp.proc = "alive", !.hp.status = "running", !.hp.check = TRUE]}

\* sauth_launch; ok is what it returns.
Running(u) ==
  [u |-> [u EXCEPT !.hp.child = TRUE, !.hp.reads = TRUE, !.hp.rtimer = FALSE], ok |-> TRUE]

Launch(u) ==
  IF u.hp.child THEN {Running(u)}
  ELSE IF u.hp.status = "running"
  THEN {[u |-> [u EXCEPT !.hp.child = TRUE], ok |-> FALSE]}
  ELSE {Running(v) : v \in ChildLaunch(u)}

\* sauth_new, io_puts and timer_start.  Not the code: no timer.
AskUntimed(u, q) ==
  [u EXCEPT !.qs.list = <<q>> \o u.qs.list,
            !.qs.asked = IF u.hp.proc = "alive" THEN u.qs.asked \cup {q} ELSE u.qs.asked]
Ask(u, q) ==
  [u EXCEPT !.qs.list = <<q>> \o u.qs.list,
            !.qs.timed = u.qs.timed \cup {q},
            !.qs.asked = IF u.hp.proc = "alive" THEN u.qs.asked \cup {q} ELSE u.qs.asked]

\* The list without some queries (dlink_delete), the others in their order.
Without(list, Q) ==
  LET kept[i \in 0 .. Len(list)] ==
        IF i = 0 THEN <<>>
        ELSE IF list[i] \in Q THEN kept[i - 1] ELSE Append(kept[i - 1], list[i])
  IN  kept[Len(list)]

\* sauth_delete.  An answer that still comes finds no query.
Delete(u, Q) ==
  [u EXCEPT !.qs.list = Without(u.qs.list, Q),
            !.qs.timed = u.qs.timed \ Q, !.qs.asked = u.qs.asked \ Q]

\* lclient_register: nothing to do for a block that is free, or whose
\* client has not sent USER yet.
Registers(u, b) ==
  IF u.lc.at[b] = "asking" THEN [u EXCEPT !.lc.at[b] = "user"] ELSE u

\* lclient_vexit and lclient_delete.
Exit(u, b) ==
  [u EXCEPT !.lc.at[b] = "free", !.lc.free = <<b>> \o u.lc.free,
            !.look = [l \in Look |->
               IF u.look[l].block = b THEN [u.look[l] EXCEPT !.gone = TRUE] ELSE u.look[l]]]

\* What lookup l waits for from now on; without anything its block is never
\* looked at again.
Waits(u, l, W) ==
  [u EXCEPT !.look[l] = IF W = {} THEN NoLook ELSE [u.look[l] EXCEPT !.wants = W]]

AskFor(u, l, k) == Ask(Waits(u, l, u.look[l].wants \cup {k}), <<l, k>>)
Ended(u, l, k)  ==
  {Waits(v, l, v.look[l].wants \ {k}) : v \in {Delete(u, {<<l, k>>})}}

LookupAuth(u, l) ==
  {IF r.ok THEN AskFor(r.u, l, "auth") ELSE Registers(r.u, u.look[l].block) : r \in Launch(u)}

CheckProxy(u, l) ==
  LET asked[i \in 0 .. Len(Ports)] ==
        IF i = 0 THEN {u}
        ELSE UNION {{IF r.ok THEN AskFor(r.u, l, Ports[i]) ELSE r.u : r \in Launch(v)} :
                    v \in asked[i - 1]}
  IN  {IF v.look[l].wants \cap Port = {} THEN Registers(v, u.look[l].block) ELSE v :
       v \in asked[Len(Ports)]}

\* lc_sauth_handshake.
Handshake(u, l, b) ==
  UNION {IF r.ok THEN {AskFor(r.u, l, "dns")}
         ELSE {Waits(v, l, v.look[l].wants) : v \in LookupAuth(r.u, l)} :
         r \in Launch([u EXCEPT !.look[l] = [NoLook EXCEPT !.block = b],
                                !.lc.at[b] = "asking"])}

\* lc_sauth_done.
Done(u, l) ==
  [Delete(u, {<<l, k>> : k \in u.look[l].wants}) EXCEPT !.look[l] = NoLook]

\* lc_sauth_dns, lc_sauth_auth, lc_sauth_proxy.
TellDns(u, l) == UNION {Ended(v, l, "dns") : v \in LookupAuth(u, l)}

\* A user name that was found is copied to lclient->user.
TellAuth(u, l, found) ==
  IF found /\ u.lc.at[u.look[l].block] \in {"free", "new"} THEN {Down(u)}
  ELSE UNION {Ended(v, l, "auth") : v \in CheckProxy(u, l)}

\* lc_sauth_deny exits the client; a free block for a second time.
TellProxy(u, l, p, open) ==
  LET b == u.look[l].block
  IN  IF open /\ u.lc.at[b] = "free" THEN {Down(u)}
      ELSE {IF open THEN Exit(Done(v, l), b)
            ELSE IF v.look[l].wants \cap Port = {} THEN Registers(Done(v, l), b)
            ELSE v : v \in Ended(u, l, p)}

\* sauth_callback.  good: a user name was found, or an open proxy.
Tell(u, q, good) ==
  UNION {IF q \in ForName THEN {v}
         ELSE IF q[2] = "dns" THEN TellDns(v, q[1])
         ELSE IF q[2] = "auth" THEN TellAuth(v, q[1], good)
         ELSE TellProxy(v, q[1], q[2], good) :
         v \in {[u EXCEPT !.qs.timed = u.qs.timed \ {q}]}}

\* sauth_callback of a query that failed.  reply is not set then: it is what
\* a query got that was in the same memory before, perhaps an open proxy.
Fail(u, q) ==
  Tell(u, q, FALSE) \cup (IF q[2] \in Port /\ u.qs.open THEN Tell(u, q, TRUE) ELSE {})

\* The loop of sauth_recover.  It remembers the next query before it calls
\* back for one.
Following(s, q) ==
  LET i == CHOOSE j \in DOMAIN s : s[j] = q
  IN  IF i = Len(s) THEN None ELSE s[i + 1]

FailOne(t) ==
  IF t.cur = None \/ t.u.down THEN {t}
  ELSE LET next == Following(t.u.qs.list, t.cur)
       IN  {[cur |-> next,
             u   |-> IF next = None \/ next \in Range(v.qs.list) THEN v ELSE Down(v)] :
            v \in Fail(t.u, t.cur)}

FailAll(u) ==
  LET n == Len(u.qs.list)
      told[i \in 0 .. n] ==
        IF i = 0 THEN {[u |-> u, cur |-> IF n = 0 THEN None ELSE Head(u.qs.list)]}
        ELSE UNION {FailOne(t) : t \in told[i - 1]}
  IN  {t.u : t \in told[n]}

\* sauth_recover.  Not the code: the child is not forgotten.
RecoverKeeps(u) ==
  {[v EXCEPT !.hp.rtimer = TRUE,
             !.hp.timers = IF v.hp.rtimer THEN v.hp.timers ELSE v.hp.timers + 1] :
   v \in FailAll(u)}
Recover(u) ==
  {[v EXCEPT !.hp.child = FALSE, !.hp.rtimer = TRUE,
             !.hp.timers = IF v.hp.rtimer THEN v.hp.timers ELSE v.hp.timers + 1] :
   v \in FailAll(u)}

\* child_cancel: first it calls back, child_callback and sauth_child_cb, then
\* it shuts the channel.
ChildCancel(u) ==
  {[v EXCEPT !.hp.proc = "none", !.hp.check = FALSE, !.hp.reads = FALSE] :
   v \in IF u.hp.status = "dead" THEN {u}
         ELSE IF ~u.hp.child THEN {Down(u)}
         ELSE Recover([u EXCEPT !.hp.status = "dead"])}

\* sauth_read at the end of the channel.  Not the code: recovers first.
ReadEndSwapped(u) == UNION {ChildCancel(v) : v \in Recover(u)}
ReadEnd(u) ==
  IF ~u.hp.child THEN {Down(u)}
  ELSE UNION {IF v.down THEN {v} ELSE Recover(v) : v \in ChildCancel(u)}

-----------------------------------------------------------------------------
(* Timers.                                                                 *)

Relaunch ==
  /\ ~down /\ hp.timers > 0
  /\ Become({IF r.ok THEN [r.u EXCEPT !.hp.timers = hp.timers - 1] ELSE r.u : r \in Launch(State)})

\* sauth_timeout.
Expire(q) ==
  /\ ~down /\ q \in qs.timed
  /\ \E u \in {State} : Become(Fail(u, q))

\* child_check.
Check ==
  /\ ~down /\ hp.check /\ hp.proc = "exited"
  /\ Become(ChildCancel(State))

-----------------------------------------------------------------------------
(* The process.                                                            *)

Answer(q, good) ==
  /\ ~down /\ q \in qs.asked /\ hp.reads
  /\ Become(Tell([State EXCEPT !.qs.asked = qs.asked \ {q},
                              !.qs.open = qs.open \/ (good /\ q[2] \in Port)], q, good))

Dies ==
  /\ ~down /\ hp.proc = "alive" /\ hp.timers <= MaxTimers
  /\ hp' = [hp EXCEPT !.proc = "exited"] /\ qs' = [qs EXCEPT !.asked = {}]
  /\ UNCHANGED <<look, lc, down>>

Ends ==
  /\ ~down /\ hp.reads /\ hp.proc = "exited"
  /\ Become(ReadEnd(State))

-----------------------------------------------------------------------------
(* Clients, and connect.c.                                                 *)

AcceptOne ==
  /\ ~down /\ lc.free # <<>>
  /\ lc' = [at |-> [lc.at EXCEPT ![Head(lc.free)] = "new"], free |-> Tail(lc.free)]
  /\ UNCHANGED <<hp, qs, look, down>>

UserSent(b, l) ==
  /\ ~down /\ lc.at[b] = "new" /\ look[l] = NoLook
  /\ Become(Handshake(State, l, b))

Leave(b) ==
  /\ ~down /\ lc.at[b] # "free"
  /\ Become({Exit(State, b)})

\* sauth_dns_forward; ok: it did not return a null pointer.  A query of the
\* block that was answered is forgotten and stays in the list.
AskName(q, ok) ==
  /\ ~down
  /\ Become({IF ok THEN Ask(Delete(r.u, {q}), q) ELSE r.u : r \in {x \in Launch(State) : x.ok = ok}})

DropName(q) ==
  /\ ~down /\ q \in Range(qs.list)
  /\ Become({Delete(State, {q})})

-----------------------------------------------------------------------------
\* sauth_init.
Boot ==
  [hp   |-> [proc |-> "none", status |-> "idle", check |-> FALSE, reads |-> FALSE,
             child |-> FALSE, rtimer |-> TRUE, timers |-> 1],
   qs   |-> [list |-> <<>>, timed |-> {}, asked |-> {}, open |-> FALSE],
   look |-> [l \in Look |-> NoLook],
   lc   |-> [at |-> [b \in Block |-> "free"], free |-> FreeBlocks],
   down |-> FALSE]

LookupInit ==
  /\ hp = Boot.hp /\ qs = Boot.qs /\ look = Boot.look
  /\ lc = Boot.lc /\ down = Boot.down

Restart == down /\ Become({Boot})

HelperStep ==
  \/ AcceptOne \/ Dies \/ Relaunch \/ Check \/ Ends
  \/ \E q \in Query : Expire(q)
  \/ \E q \in qs.asked \cap ForLook, good \in BOOLEAN : Answer(q, good)
  \/ \E b \in Block : Leave(b) \/ \E l \in Look : UserSent(b, l)

\* The timers are called, and the loop reads what ended.  A query whose timer
\* runs is not overtaken for ever: the timeouts are equally long.
OldestExpires ==
  \E i \in DOMAIN qs.list : \E q \in {qs.list[i]} :
    /\ \A j \in i + 1 .. Len(qs.list) : qs.list[j] \notin qs.timed
    /\ Expire(q)
Notices == Relaunch \/ Check \/ Ends

-----------------------------------------------------------------------------
LookupTypeOK ==
  /\ hp \in [proc : {"none", "failed", "alive", "exited"}, status : {"idle", "running", "dead"},
             check : BOOLEAN, reads : BOOLEAN, child : BOOLEAN, rtimer : BOOLEAN,
             timers : 0 .. MaxTimers + 2]
  /\ qs.list \in Seq(Query) /\ qs.timed \subseteq Range(qs.list)
  /\ qs.asked \subseteq Range(qs.list) /\ qs.open \in BOOLEAN
  /\ look \in [Look -> [block : Block \cup {None}, gone : BOOLEAN,
                        wants : SUBSET ({"dns", "auth"} \cup Port)]]
  /\ lc.at \in [Block -> {"free", "new", "asking", "user"}] /\ lc.free \in Seq(Block)
  /\ down \in BOOLEAN

(* Every query in the list is one a lookup waits for, once, and no lookup  *)
(* waits for a query that is gone, whether answers, timeouts or the death  *)
(* of the process ended the others (lc_sauth_done, sauth_push).            *)
QueriesOwned ==
  ~down => /\ Len(qs.list) = Cardinality(Range(qs.list))
           /\ Range(qs.list) \ ForName =
                {q \in ForLook : q[2] \in look[q[1]].wants}

(* Somebody will notice: without the helper a relaunch timer runs, a       *)
(* process that exited has its check timer, and sauth_rtimer points to a   *)
(* timer that runs (sauth_recover, sauth_launch, child_cancel).            *)
RelaunchPending ==
  ~down => /\ hp.child \/ hp.timers > 0
           /\ hp.rtimer => hp.timers > 0
           /\ hp.proc = "exited" => hp.check
           /\ hp.status = "running" <=> hp.proc \in {"alive", "exited"}

(* Both: the bookkeeping of queries and of the process is never lost.      *)
LookupsOwned == LookupTypeOK /\ QueriesOwned /\ RelaunchPending

(* No order of answers, timeouts, deaths and relaunches stops the server,  *)
(* unless the process dies again before the relaunch, or a client has left *)
(* during its lookup, or an open proxy was found before.                   *)
StaysUp ==
  [][ ~down /\ down' =>
        \/ ~hp.child
        \/ \E l \in Look : look[l].gone
        \/ qs.open ]_lookupVars

(* Whatever happens to the process, no client waits for ever.              *)
LookupEnds == \A b \in Block : lc.at[b] = "asking" ~> lc.at[b] # "asking"

(* The helper is started again when it is gone, unless fork failed: nobody *)
(* tries again then.                                                       *)
HelperBack ==
  hp.proc \in {"none", "exited"} ~> hp.proc \in {"alive", "failed"} \/ down

\* Neither a lookup nor the helper is given up.
LookupsGoOn == LookupEnds /\ HelperBack
=============================================================================
