------------------------------ MODULE ChanSync ------------------------------
(***************************************************************************)
(* One channel as the servers of a network see it.                         *)
(*                                                                         *)
(* Every server keeps its own copy: a timestamp, the members, who of them  *)
(* is operator and the modes without argument.  Servers form a tree; a     *)
(* message travels over TCP links in order and is relayed to the other     *)
(* links.  When a link is established both ends send their whole state, a  *)
(* burst.  The older timestamp wins: who receives an older one takes the   *)
(* privileges and modes of its own side away, who receives a newer one     *)
(* does not believe the privileges that come with it.                      *)
(*                                                                         *)
(* Covered: JOIN, PART, KICK and MODE of local clients, NJOIN, NMODE,      *)
(* MODE, PART, KICK and NQUIT of linked servers, bursts, and links that    *)
(* break and come back, each end noticing in its own time.  A QUIT acts on *)
(* the channel like a PART.  Not covered: topics, list modes and halfops,  *)
(* +P, and the introduction of users (NickSync), which precedes their      *)
(* NJOIN on every link.                                                    *)
(***************************************************************************)
EXTENDS ServerLinks

CONSTANTS
  User,
  Home,        \* user -> its server
  Mode,        \* modes without argument
  MaxTS,       \* timestamps are 1 .. MaxTS
  Command      \* what clients do besides JOIN: among "PART" "MODE" "KICK"

ChannelAssumption ==
  /\ Home \in [User -> Server]
  /\ MaxTS \in Nat \ {0}
  /\ Command \subseteq {"PART", "MODE", "KICK"}
ASSUME ChannelAssumption

VARIABLES
  chan,     \* server -> its copy of the channel
  kicked    \* not in the code: whether anybody was kicked yet

vars == <<chan, kicked, links>>

\* No channel is a copy with timestamp 0.
Copy   == [ts : 0 .. MaxTS, mem : SUBSET User, op : SUBSET User, on : SUBSET Mode]
NoChan == [ts |-> 0, mem |-> {}, op |-> {}, on |-> {}]

-----------------------------------------------------------------------------
(* Messages.                                                               *)

NJoin(ts, U, O)      == [cmd |-> "NJOIN", ts |-> ts, users |-> U, ops |-> O]
NMode(ts, M)         == [cmd |-> "NMODE", ts |-> ts, on |-> M]
ModeMsg(u, what, m)  == [cmd |-> "MODE", by |-> u, what |-> what, mode |-> m]
OpMsg(u, what, v)    == [cmd |-> "MODE+o", by |-> u, what |-> what, at |-> v]
PartMsg(u)           == [cmd |-> "PART", by |-> u]
KickMsg(u, v)        == [cmd |-> "KICK", by |-> u, at |-> v]

Message ==
  {NJoin(ts, U, O) : ts \in 1 .. MaxTS, U \in SUBSET User, O \in SUBSET User}
  \cup {NMode(ts, M) : ts \in 1 .. MaxTS, M \in SUBSET Mode}
  \cup {ModeMsg(u, w, m) : u \in User, w \in {"+", "-"}, m \in Mode}
  \cup {OpMsg(u, w, v) : u \in User, w \in {"+", "-"}, v \in User}
  \cup {PartMsg(u) : u \in User}
  \cup {KickMsg(u, v) : u \in User, v \in User}
  \cup {NQuit(l) : l \in Link}

TypeOK ==
  /\ chan \in [Server -> Copy]
  /\ kicked \in BOOLEAN
  /\ LinksOK(Message)

\* What a handler does: the new copy, and what it relays to other servers.
Does(c, out) == [copy |-> c, relay |-> out]
Drop(c)      == Does(c, <<>>)

-----------------------------------------------------------------------------
(* The handlers, as functions of the server's copy and the message.        *)

\* The users a server has no longer, once it forgets those homed in Gone.
Forget(c, Gone) ==
  LET left == {u \in c.mem : Home[u] \notin Gone}
  IN  IF c.mem # {} /\ left = {}
      THEN NoChan
      ELSE [c EXCEPT !.mem = left, !.op = @ \cap left]

\* Not the code, but slips OnNJoin could have: an older NJOIN leaves
\* privileges and modes; the timestamp is taken over
\* whatever it is; privileges are believed whatever it is; a newer NJOIN is
\* ignored.
Joined(ts, usr, ops, op, on, c) ==
  Does([ts |-> ts, mem |-> c.mem \cup usr, op |-> op \cup ops, on |-> on],
       IF usr = {} THEN <<>> ELSE <<NJoin(ts, usr, ops)>>)
NJoinUsers(s, c, m) == {u \in m.users : Home[u] # s} \ c.mem
Older(c, m) == c.ts = 0 \/ m.ts < c.ts

NJoinKeeps(s, c, m) ==
  LET usr == NJoinUsers(s, c, m)
  IN  Joined(IF Older(c, m) THEN m.ts ELSE c.ts, usr,
             IF c.ts # 0 /\ m.ts > c.ts THEN {} ELSE m.ops \cap usr, c.op, c.on, c)
NJoinTakesTS(s, c, m) ==
  LET usr == NJoinUsers(s, c, m)
  IN  Joined(m.ts, usr, m.ops \cap usr, c.op, c.on, c)
NJoinBelieves(s, c, m) ==
  LET usr == NJoinUsers(s, c, m)
  IN  Joined(IF Older(c, m) THEN m.ts ELSE c.ts, usr, m.ops \cap usr,
             IF Older(c, m) THEN {} ELSE c.op, IF Older(c, m) THEN {} ELSE c.on, c)
NJoinOnlyOlder(s, c, m) ==
  IF c.ts # 0 /\ m.ts > c.ts THEN Drop(c)
  ELSE NJoinBelieves(s, c, m)

\* ms_njoin.  It relays only the users that are new here, with our timestamp.
OnNJoin(s, c, m) ==
  LET new == c.ts = 0
      cut == ~new /\ m.ts < c.ts
      ts  == IF new \/ cut THEN m.ts ELSE c.ts
      usr == {u \in m.users : Home[u] # s} \ c.mem
      ops == IF m.ts > ts THEN {} ELSE m.ops \cap usr
  IN  Does([ts  |-> ts,
            mem |-> c.mem \cup usr,
            op  |-> (IF cut THEN {} ELSE c.op) \cup ops,
            on  |-> IF cut THEN {} ELSE c.on],
           IF usr = {} THEN <<>> ELSE <<NJoin(ts, usr, ops)>>)

\* ms_nmode.  An older timestamp is taken over, but unlike in ms_njoin
\* nothing is taken away.  Modes that are set already do not change the copy
\* and are relayed with the others: chanmode_assemble_list does not ask
\* whether they bounced.
OnNMode(c, m) ==
  IF c.ts = 0 \/ m.ts > c.ts
  THEN Drop(c)
  ELSE Does([c EXCEPT !.ts = m.ts, !.on = @ \cup m.on], <<m>>)

\* ms_mode, for a user behind a link: it must be on the channel, nothing else
\* is asked.  A change that changes nothing bounces and is not relayed.
OnMode(c, m) ==
  IF m.by \notin c.mem \/ (m.mode \in c.on <=> m.what = "+")
  THEN Drop(c)
  ELSE Does([c EXCEPT !.on = IF m.what = "+" THEN @ \cup {m.mode}
                                              ELSE @ \ {m.mode}], <<m>>)

\* The same for +o and -o; the target must be on the channel.
OnOp(c, m) ==
  IF {m.by, m.at} \subseteq c.mem /\ (m.at \in c.op <=> m.what = "-")
  THEN Does([c EXCEPT !.op = IF m.what = "+" THEN @ \cup {m.at}
                                              ELSE @ \ {m.at}], <<m>>)
  ELSE Drop(c)

\* m_part and ms_part.
OnPart(c, m) ==
  IF m.by \notin c.mem
  THEN Drop(c)
  ELSE Does(IF c.mem = {m.by} THEN NoChan
            ELSE [c EXCEPT !.mem = @ \ {m.by}, !.op = @ \ {m.by}], <<m>>)

\* m_kick, chanuser_kick: here the sender's privilege is looked at again, on
\* every server.  The channel stays, even with nobody left.
OnKick(c, m) ==
  IF {m.by, m.at} \subseteq c.mem /\ m.by \in c.op
  THEN Does([c EXCEPT !.mem = @ \ {m.at}, !.op = @ \ {m.at}], <<m>>)
  ELSE Drop(c)

\* ms_nquit, server_exit, server_split: m.link broke at its first server.
OnNQuit(c, m) == Does(Forget(c, Behind[m.link]), <<m>>)

Handle(s, c, m) ==
  CASE m.cmd = "NJOIN"  -> OnNJoin(s, c, m)
    [] m.cmd = "NMODE"  -> OnNMode(c, m)
    [] m.cmd = "MODE"   -> OnMode(c, m)
    [] m.cmd = "MODE+o" -> OnOp(c, m)
    [] m.cmd = "PART"   -> OnPart(c, m)
    [] m.cmd = "KICK"   -> OnKick(c, m)
    [] m.cmd = "NQUIT"  -> OnNQuit(c, m)

\* chanuser_burst and chanmode_burst.
Burst(c) ==
  IF c.ts = 0 THEN <<>>
  ELSE (IF c.mem = {} THEN <<>> ELSE <<NJoin(c.ts, c.mem, c.op)>>)
       \o (IF c.on = {} THEN <<>> ELSE <<NMode(c.ts, c.on)>>)

-----------------------------------------------------------------------------
(* Local clients.                                                          *)

\* channel_join: the first user creates the channel and is operator.
Create(u, ts) ==
  LET s == Home[u]
  IN  /\ MayAct(s)
      /\ chan[s].ts = 0
      /\ chan' = [chan EXCEPT ![s] =
                    [ts |-> ts, mem |-> {u}, op |-> {u}, on |-> {}]]
      /\ SendAll(s, s, <<NJoin(ts, {u}, {u})>>)
      /\ UNCHANGED <<kicked, end, sessions>>

Join(u) ==
  LET s == Home[u]
  IN  /\ MayAct(s)
      /\ chan[s].ts # 0 /\ u \notin chan[s].mem
      /\ chan' = [chan EXCEPT ![s].mem = @ \cup {u}]
      /\ SendAll(s, s, <<NJoin(chan[s].ts, {u}, {})>>)
      /\ UNCHANGED <<kicked, end, sessions>>

\* A local client's PART, KICK or MODE runs the same handler.
Issue(u, m) ==
  LET s == Home[u]
      r == Handle(s, chan[s], m)
  IN  /\ MayAct(s)
      /\ r.relay # <<>>
      /\ chan' = [chan EXCEPT ![s] = r.copy]
      /\ SendAll(s, s, r.relay)
      /\ kicked' = (kicked \/ m.cmd = "KICK")
      /\ UNCHANGED <<end, sessions>>

Part(u)    == "PART" \in Command /\ Issue(u, PartMsg(u))
\* Bound: one KICK.
Kick(u, v) == "KICK" \in Command /\ ~kicked /\ Issue(u, KickMsg(u, v))

\* chanmode_apply asks a local user for its privilege.
SetMode(u, w, m) ==
  "MODE" \in Command /\ u \in chan[Home[u]].op /\ Issue(u, ModeMsg(u, w, m))
SetOp(u, w, v) ==
  "MODE" \in Command /\ u \in chan[Home[u]].op /\ Issue(u, OpMsg(u, w, v))

ClientStep(u) ==
  \/ \E ts \in 1 .. MaxTS : Create(u, ts)
  \/ Join(u)
  \/ Part(u)
  \/ \E v \in User : Kick(u, v)
  \/ \E w \in {"+", "-"}, m \in Mode : SetMode(u, w, m)
  \/ \E w \in {"+", "-"}, v \in User : SetOp(u, w, v)

-----------------------------------------------------------------------------
(* Links.                                                                  *)

\* s reads a message from t.
Receive(s, t) ==
  /\ CanRead(s, t)
  /\ LET r == Handle(s, chan[s], Head(net[<<t, s>>]))
     IN  /\ chan' = [chan EXCEPT ![s] = r.copy]
         /\ ReadAndSend(s, t, r.relay, <<>>)
  /\ UNCHANGED <<kicked, end, sessions>>

Open(s, t)     == OpenLink(s, t) /\ UNCHANGED <<chan, kicked>>
Register(s, t) == RegisterLink(s, t, Burst(chan[s])) /\ UNCHANGED <<chan, kicked>>

\* server_split: the users behind t are forgotten.
Close(s, t) ==
  /\ CloseLink(s, t)
  /\ chan' = IF end[<<s, t>>] = "up"
             THEN [chan EXCEPT ![s] = Forget(@, Behind[<<s, t>>])]
             ELSE chan
  /\ UNCHANGED kicked

LinkStep(s, t) == Receive(s, t) \/ Open(s, t) \/ Register(s, t) \/ Close(s, t)

-----------------------------------------------------------------------------
Init == chan = [s \in Server |-> NoChan] /\ kicked = FALSE /\ LinkInit

Next ==
  \/ \E u \in User : ClientStep(u)
  \/ \E l \in Link : LinkStep(l[1], l[2])

Spec == Init /\ [][Next]_vars

-----------------------------------------------------------------------------
(* Once nothing is under way, linked servers agree who is on the channel,  *)
(* whatever joins, parts, bursts and broken links crossed (ms_njoin,       *)
(* ms_part, server_split) - until a KICK crosses another message: every     *)
(* server looks at the privilege of the one who kicks for itself.          *)
MembersAgree ==
  ~kicked => \A l \in Link : Settled(l) => chan[l[1]].mem = chan[l[2]].mem

(* Once nothing is under way, linked servers hold the same copy: the       *)
(* timestamps decided the same winner on both sides, and relaying carried  *)
(* it further (ms_njoin, ms_nmode).                                        *)
CopiesAgree ==
  \A l \in Link : Settled(l) => chan[l[1]] = chan[l[2]]

(* A channel's timestamp never grows while the channel exists, so no burst *)
(* can make a younger channel win later (ms_njoin, ms_nmode).              *)
TimestampNeverGrows ==
  [][ \A s \in Server : chan[s].ts # 0 => chan'[s].ts <= chan[s].ts ]_vars

\* s runs MODE w-o u, w being "+" or "-".
OpChange(s, w, u) ==
  \/ \E v \in User : Home[v] = s /\ SetOp(v, w, u)
  \/ \E l \in Link : /\ l[2] = s /\ Receive(s, l[1])
                     /\ \E v \in User : Head(net[l]) = OpMsg(v, w, u)

(* A younger channel takes nothing from an older one: an operator that     *)
(* stays on the channel is deprived only by -o or by an older timestamp,   *)
(* and nobody becomes operator of a channel a server has but by +o or by   *)
(* an NJOIN that is not newer than the server's copy (ms_njoin,            *)
(* chanuser_parse, chanuser_drop, against every other handler).            *)
PrivilegesKept ==
  [][ \A s \in Server : chan[s].ts # 0 =>
        /\ \A u \in chan'[s].mem \cap (chan[s].op \ chan'[s].op) :
             chan'[s].ts < chan[s].ts \/ OpChange(s, "-", u)
        /\ \A u \in chan'[s].op \ chan[s].op :
             \/ OpChange(s, "+", u)
             \/ \E l \in Link : /\ l[2] = s /\ Receive(s, l[1])
                                /\ Head(net[l]).cmd = "NJOIN"
                                /\ Head(net[l]).ts <= chan[s].ts ]_vars

(* An older channel stays the older one, and loses nothing to a younger.   *)
NoTakeover == TimestampNeverGrows /\ PrivilegesKept
=============================================================================
