--------------------------- MODULE ChanSyncProofs ---------------------------
(***************************************************************************)
(* An older channel wins on any tree of servers, and servers agree on the  *)
(* members: NoTakeover and MembersAgree for every set of servers, links,   *)
(* users, modes and timestamps.                                            *)
(*                                                                         *)
(* The two properties of NoTakeover speak of a step, and hold of a step    *)
(* from any well typed state, so TypeOK is all the invariant they need.  A *)
(* step of a server is one handler applied to its copy, hence the lemmas   *)
(* are about Handle: what it returns, and what it does to timestamp and    *)
(* privileges.                                                             *)
(*                                                                         *)
(* MembersAgree needs what is under way: of the users on the sender's side *)
(* the messages on a link, read in order, make the reader's members the    *)
(* sender's (LinkTells, After), a message is only about users on that side *)
(* (Outward), and a member is local or behind a link that is up (Reached). *)
(***************************************************************************)
EXTENDS ChanSync, SequenceTheorems, TLAPS

USE ChannelAssumption DEF ChannelAssumption

-----------------------------------------------------------------------------
(* What the fields of a message are, by its command (the arguments the     *)
(* parser hands to ms_njoin, ms_nmode, ms_mode, m_part, m_kick, ms_nquit). *)
LEMMA MessageFields ==
  ASSUME NEW m \in Message
  PROVE  /\ m.cmd \in {"NJOIN", "NMODE", "MODE", "MODE+o", "PART", "KICK", "NQUIT"}
         /\ m.cmd = "NJOIN" => /\ m.ts \in 1 .. MaxTS
                               /\ m.users \in SUBSET User /\ m.ops \in SUBSET User
         /\ m.cmd = "NMODE" => m.ts \in 1 .. MaxTS /\ m.on \in SUBSET Mode
         /\ m.cmd = "MODE" => m.by \in User /\ m.what \in {"+", "-"} /\ m.mode \in Mode
         /\ m.cmd = "MODE+o" => /\ m.by \in User /\ m.what \in {"+", "-"} /\ m.at \in User
                                /\ m = OpMsg(m.by, m.what, m.at)
         /\ m.cmd = "PART" => m.by \in User
         /\ m.cmd = "KICK" => m.by \in User /\ m.at \in User
         /\ m.cmd = "NQUIT" => m.link \in Link
  BY DEF Message, NJoin, NMode, ModeMsg, OpMsg, PartMsg, KickMsg, NQuit

(* The messages with sets in them.                                         *)
LEMMA MessageForms ==
  ASSUME NEW ts \in 1 .. MaxTS
  PROVE  /\ \A U \in SUBSET User, O \in SUBSET User : NJoin(ts, U, O) \in Message
         /\ \A M \in SUBSET Mode : NMode(ts, M) \in Message
  BY DEF Message

(* Copies with two fields replaced.                                        *)
LEMMA CopyForms ==
  ASSUME NEW c \in Copy
  PROVE  /\ \A ts \in 0 .. MaxTS, on \in SUBSET Mode :
              [c EXCEPT !.ts = ts, !.on = on] \in Copy
         /\ \A mem \in SUBSET User, op \in SUBSET User :
              [c EXCEPT !.mem = mem, !.op = op] \in Copy
  BY DEF Copy

(* chanuser_drop and server_split leave a copy, or no channel.             *)
LEMMA ForgetFacts ==
  ASSUME NEW c \in Copy, NEW Gone
  PROVE  /\ Forget(c, Gone) \in Copy
         /\ Forget(c, Gone).ts <= c.ts
         /\ Forget(c, Gone).op = c.op \cap Forget(c, Gone).mem
<1> DEFINE left == {u \in c.mem : Home[u] \notin Gone}
<1>0. /\ c.ts \in 0 .. MaxTS /\ c.mem \in SUBSET User
      /\ c.op \in SUBSET User /\ c.on \in SUBSET Mode
      /\ NoChan \in Copy
  BY DEF Copy, NoChan
<1>1. CASE c.mem # {} /\ left = {}
  BY <1>0, <1>1 DEF Forget, NoChan
<1>2. CASE ~(c.mem # {} /\ left = {})
  <2>1. Forget(c, Gone) = [c EXCEPT !.mem = left, !.op = c.op \cap left]
    BY <1>2 DEF Forget
  <2>2. left \in SUBSET User /\ c.op \cap left \in SUBSET User
    BY <1>0
  <2> QED
    <3> HIDE DEF left
    <3>1. [c EXCEPT !.mem = left, !.op = c.op \cap left] \in Copy
      BY <2>2, CopyForms, Zenon
    <3> QED
      BY <1>0, <2>1, <3>1 DEF Copy
<1> QED
  BY <1>1, <1>2

(* Every handler returns a copy and relays messages of the protocol.       *)
LEMMA HandleType ==
  ASSUME NEW s \in Server, NEW c \in Copy, NEW m \in Message
  PROVE  /\ Handle(s, c, m).copy \in Copy
         /\ Handle(s, c, m).relay \in Seq(Message)
<1> USE DEF Does, Drop
<1>0. <<>> \in Seq(Message) /\ <<m>> \in Seq(Message) /\ NoChan \in Copy
  BY DEF NoChan, Copy
<1>1. CASE m.cmd = "NJOIN"
  <2> DEFINE new == c.ts = 0
             cut == ~new /\ m.ts < c.ts
             ts  == IF new \/ cut THEN m.ts ELSE c.ts
             usr == {u \in m.users : Home[u] # s} \ c.mem
             ops == IF m.ts > ts THEN {} ELSE m.ops \cap usr
  <2>1. m.ts \in 1 .. MaxTS /\ m.users \in SUBSET User
    BY <1>1, MessageFields
  <2>2. ts \in 1 .. MaxTS /\ usr \in SUBSET User /\ ops \in SUBSET User
    BY <2>1 DEF Copy
  <2>3. NJoin(ts, usr, ops) \in Message
    BY <2>2, MessageForms
  <2>4. OnNJoin(s, c, m).copy \in Copy
    BY <2>2 DEF OnNJoin, Copy
  <2>5. OnNJoin(s, c, m).relay \in Seq(Message)
    BY <2>3, <1>0 DEF OnNJoin
  <2> QED
    BY <1>1, <2>4, <2>5 DEF Handle
<1>2. CASE m.cmd = "NMODE"
  <2>1. m.ts \in 1 .. MaxTS /\ m.on \in SUBSET Mode
    BY <1>2, MessageFields
  <2>3. OnNMode(c, m).copy \in Copy
    <3>1. c.on \in SUBSET Mode /\ c.on \cup m.on \in SUBSET Mode
      BY <2>1 DEF Copy
    <3>2. [c EXCEPT !.ts = m.ts, !.on = c.on \cup m.on] \in Copy
      <4>1. m.ts \in 0 .. MaxTS
        BY <2>1
      <4> QED
        BY <4>1, <3>1, CopyForms, Zenon
    <3> QED
      BY <3>2 DEF OnNMode
  <2>4. OnNMode(c, m).relay \in Seq(Message)
    BY <1>0 DEF OnNMode
  <2> QED
    BY <1>2, <2>3, <2>4 DEF Handle
<1>3. CASE m.cmd = "MODE"
  <2>1. m.by \in User /\ m.what \in {"+", "-"} /\ m.mode \in Mode
    BY <1>3, MessageFields
  <2> QED
    BY <1>0, <1>3, <2>1 DEF Handle, OnMode, Copy
<1>4. CASE m.cmd = "MODE+o"
  <2>1. m.by \in User /\ m.what \in {"+", "-"} /\ m.at \in User
    BY <1>4, MessageFields
  <2> QED
    BY <1>0, <1>4, <2>1 DEF Handle, OnOp, Copy
<1>5. CASE m.cmd = "PART"
  BY <1>0, <1>5 DEF Handle, OnPart, Copy
<1>6. CASE m.cmd = "KICK"
  BY <1>0, <1>6 DEF Handle, OnKick, Copy
<1>7. CASE m.cmd = "NQUIT"
  BY <1>0, <1>7, ForgetFacts DEF Handle, OnNQuit
<1> QED
  BY <1>1, <1>2, <1>3, <1>4, <1>5, <1>6, <1>7, MessageFields

(* No handler makes a channel younger (ms_njoin, ms_nmode).                *)
LEMMA HandleTimestamp ==
  ASSUME NEW s \in Server, NEW c \in Copy, NEW m \in Message, c.ts # 0
  PROVE  Handle(s, c, m).copy.ts <= c.ts
<1> USE DEF Does, Drop, Copy, NoChan
<1>1. CASE m.cmd = "NJOIN"
  BY <1>1, MessageFields DEF Handle, OnNJoin
<1>2. CASE m.cmd = "NMODE"
  BY <1>2, MessageFields DEF Handle, OnNMode
<1>3. CASE m.cmd = "MODE"
  BY <1>3 DEF Handle, OnMode
<1>4. CASE m.cmd = "MODE+o"
  BY <1>4 DEF Handle, OnOp
<1>5. CASE m.cmd = "PART"
  BY <1>5 DEF Handle, OnPart
<1>6. CASE m.cmd = "KICK"
  BY <1>6 DEF Handle, OnKick
<1>7. CASE m.cmd = "NQUIT"
  BY <1>7, ForgetFacts DEF Handle, OnNQuit
<1> QED
  BY <1>1, <1>2, <1>3, <1>4, <1>5, <1>6, <1>7, MessageFields

(* Whom a handler deprives is no member any more, lost to an older         *)
(* timestamp or was named by -o; whom it makes operator was named by +o or *)
(* came with an NJOIN that is not newer (chanuser_drop, chanuser_parse).   *)
LEMMA HandlePrivileges ==
  ASSUME NEW s \in Server, NEW c \in Copy, NEW m \in Message, c.ts # 0,
         NEW u \in User
  PROVE  LET r == Handle(s, c, m).copy
         IN  /\ u \in r.mem /\ u \in c.op /\ u \notin r.op
                => r.ts < c.ts \/ \E v \in User : m = OpMsg(v, "-", u)
             /\ u \in r.op /\ u \notin c.op
                => \/ \E v \in User : m = OpMsg(v, "+", u)
                   \/ m.cmd = "NJOIN" /\ m.ts <= c.ts
<1> USE DEF Does, Drop, Copy, NoChan
<1>1. CASE m.cmd = "NJOIN"
  BY <1>1, MessageFields DEF Handle, OnNJoin
<1>2. CASE m.cmd = "NMODE"
  BY <1>2, MessageFields DEF Handle, OnNMode
<1>3. CASE m.cmd = "MODE"
  BY <1>3 DEF Handle, OnMode
<1>4. CASE m.cmd = "MODE+o"
  BY <1>4, MessageFields DEF Handle, OnOp
<1>5. CASE m.cmd = "PART"
  BY <1>5 DEF Handle, OnPart
<1>6. CASE m.cmd = "KICK"
  BY <1>6 DEF Handle, OnKick
<1>7. CASE m.cmd = "NQUIT"
  BY <1>7, ForgetFacts DEF Handle, OnNQuit
<1> QED
  BY <1>1, <1>2, <1>3, <1>4, <1>5, <1>6, <1>7, MessageFields
-----------------------------------------------------------------------------
(* What a server passes on are messages, so links carry nothing else       *)
(* (server_send, client_send).                                             *)
LEMMA SendType ==
  ASSUME LinksOK(Message), NEW s, NEW t, NEW out \in Seq(Message)
  PROVE  /\ SendAll(s, t, out) => net' \in [Link -> Seq(Message)]
         /\ CanRead(s, t) /\ <<t, s>> \in Link /\ ReadAndSend(s, t, out, <<>>)
              => net' \in [Link -> Seq(Message)]
<1>0. /\ net \in [Link -> Seq(Message)]
      /\ \A l \in Link : net[l] \o out \in Seq(Message)
  BY DEF LinksOK
<1>1. SendAll(s, t, out) => net' \in [Link -> Seq(Message)]
  BY <1>0 DEF SendAll
<1>2. ASSUME CanRead(s, t), <<t, s>> \in Link, ReadAndSend(s, t, out, <<>>)
      PROVE  net' \in [Link -> Seq(Message)]
  <2>1. Tail(net[<<t, s>>]) \in Seq(Message)
    BY <1>0, <1>2 DEF CanRead
  <2>2. \A l \in Link : ~Sent(s, s, <<>>, l)
    BY DEF Sent
  <2> QED
    BY <1>0, <1>2, <2>1, <2>2 DEF ReadAndSend
<1> QED
  BY <1>1, <1>2

(* A burst consists of messages (chanuser_burst, chanmode_burst).          *)
LEMMA BurstType ==
  ASSUME NEW c \in Copy
  PROVE  Burst(c) \in Seq(Message)
<1>1. CASE c.ts = 0
  BY <1>1 DEF Burst
<1>2. CASE c.ts # 0
  <2>1. c.ts \in 1 .. MaxTS
    BY <1>2 DEF Copy
  <2>2. NJoin(c.ts, c.mem, c.op) \in Message /\ NMode(c.ts, c.on) \in Message
    BY <2>1, MessageForms DEF Copy
  <2> QED
    BY <1>2, <2>2 DEF Burst
<1> QED
  BY <1>1, <1>2

(* The messages of local clients are those of the protocol.                *)
LEMMA ClientMessages ==
  ASSUME NEW u \in User
  PROVE  /\ PartMsg(u) \in Message
         /\ \A v \in User : KickMsg(u, v) \in Message
         /\ \A w \in {"+", "-"}, m \in Mode : ModeMsg(u, w, m) \in Message
         /\ \A w \in {"+", "-"}, v \in User : OpMsg(u, w, v) \in Message
<1>1. PartMsg(u) \in Message
  BY DEF Message
<1>2. \A v \in User : KickMsg(u, v) \in Message
  BY DEF Message
<1>3. \A w \in {"+", "-"}, m \in Mode : ModeMsg(u, w, m) \in Message
  BY DEF Message
<1>4. \A w \in {"+", "-"}, v \in User : OpMsg(u, w, v) \in Message
  BY DEF Message
<1> QED
  BY <1>1, <1>2, <1>3, <1>4

-----------------------------------------------------------------------------
(* TypeOK, step by step: what each kind of step does to copies and links.  *)

(* channel_join for the user who creates the channel.                      *)
LEMMA CreateType ==
  ASSUME TypeOK, NEW u \in User, NEW ts \in 1 .. MaxTS, Create(u, ts)
  PROVE  TypeOK'
<1>1. <<NJoin(ts, {u}, {u})>> \in Seq(Message)
  <2>1. NJoin(ts, {u}, {u}) \in Message
    BY MessageForms
  <2> QED
    BY <2>1
<1>2. net' \in [Link -> Seq(Message)]
  BY <1>1, SendType DEF Create, TypeOK
<1>3. [ts |-> ts, mem |-> {u}, op |-> {u}, on |-> {}] \in Copy
  BY DEF Copy
<1>4. chan' \in [Server -> Copy]
  BY <1>3 DEF Create, TypeOK
<1> QED
  BY <1>2, <1>4 DEF Create, TypeOK, LinksOK

(* channel_join for a further user.                                        *)
LEMMA JoinType ==
  ASSUME TypeOK, NEW u \in User, Join(u)
  PROVE  TypeOK'
<1>0. Home[u] \in Server /\ chan[Home[u]] \in Copy /\ chan[Home[u]].ts # 0
  BY DEF Join, TypeOK
<1>1. <<NJoin(chan[Home[u]].ts, {u}, {})>> \in Seq(Message)
  <2>1. chan[Home[u]].ts \in 1 .. MaxTS
    BY <1>0 DEF Copy
  <2>2. NJoin(chan[Home[u]].ts, {u}, {}) \in Message
    BY <2>1, MessageForms
  <2> QED
    BY <2>2
<1>2. net' \in [Link -> Seq(Message)]
  BY <1>1, SendType DEF Join, TypeOK
<1>3. [chan[Home[u]] EXCEPT !.mem = @ \cup {u}] \in Copy
  BY <1>0 DEF Copy
<1>4. chan' \in [Server -> Copy]
  BY <1>0, <1>3 DEF Join, TypeOK
<1> QED
  BY <1>2, <1>4 DEF Join, TypeOK, LinksOK

(* A command of a local client that goes through a handler.                *)
LEMMA IssueType ==
  ASSUME TypeOK, NEW u \in User, NEW m \in Message, Issue(u, m)
  PROVE  TypeOK'
<1>0. Home[u] \in Server /\ chan[Home[u]] \in Copy
  BY DEF TypeOK
<1>1. /\ Handle(Home[u], chan[Home[u]], m).copy \in Copy
      /\ Handle(Home[u], chan[Home[u]], m).relay \in Seq(Message)
  BY <1>0, HandleType
<1>2. net' \in [Link -> Seq(Message)]
  BY <1>1, SendType DEF Issue, TypeOK
<1>3. chan' \in [Server -> Copy]
  BY <1>0, <1>1 DEF Issue, TypeOK
<1> QED
  BY <1>2, <1>3 DEF Issue, TypeOK, LinksOK

(* What is read from a link is a message.                                  *)
LEMMA ReadMessage ==
  ASSUME TypeOK, NEW s, NEW t, <<t, s>> \in Link, CanRead(s, t)
  PROVE  Head(net[<<t, s>>]) \in Message
  BY DEF TypeOK, LinksOK, CanRead

(* A message of a linked server, whatever it is.                           *)
LEMMA ReceiveType ==
  ASSUME TypeOK, NEW s \in Server, NEW t \in Server, <<t, s>> \in Link, Receive(s, t)
  PROVE  TypeOK'
<1> DEFINE m == Head(net[<<t, s>>])
<1>0. chan[s] \in Copy /\ CanRead(s, t) /\ m \in Message
  BY ReadMessage DEF Receive, TypeOK
<1>1. Handle(s, chan[s], m).copy \in Copy /\ Handle(s, chan[s], m).relay \in Seq(Message)
  BY <1>0, HandleType
<1>2. net' \in [Link -> Seq(Message)]
  BY <1>0, <1>1, SendType DEF Receive, TypeOK
<1>3. chan' \in [Server -> Copy]
  BY <1>1 DEF Receive, TypeOK
<1> QED
  BY <1>2, <1>3 DEF Receive, TypeOK, LinksOK

(* server_login, server_register and server_burst: a link comes up.        *)
LEMMA LinkUpType ==
  ASSUME TypeOK, NEW s \in Server, NEW t \in Server,
         Open(s, t) \/ Register(s, t)
  PROVE  TypeOK'
<1>1. CASE Open(s, t)
  <2>1. /\ end' = [end EXCEPT ![<<s, t>>] = "open", ![<<t, s>>] = "open"]
        /\ net' = [net EXCEPT ![<<s, t>>] = <<>>, ![<<t, s>>] = <<>>]
        /\ sessions < MaxSessions /\ sessions' = sessions + 1
        /\ UNCHANGED <<chan, kicked>>
    BY <1>1 DEF Open, OpenLink
  <2>2. end' \in [Link -> {"down", "open", "up"}]
    BY <2>1 DEF TypeOK, LinksOK
  <2>3. net' \in [Link -> Seq(Message)]
    <3>1. <<>> \in Seq(Message)
      OBVIOUS
    <3> QED
      BY <2>1, <3>1 DEF TypeOK, LinksOK
  <2>4. sessions' \in 0 .. MaxSessions
    BY <2>1, LinkAssumption DEF LinkAssumption, TypeOK, LinksOK
  <2> QED
    BY <2>1, <2>2, <2>3, <2>4 DEF TypeOK, LinksOK
<1>2. CASE Register(s, t)
  <2>1. Burst(chan[s]) \in Seq(Message)
    BY BurstType DEF TypeOK
  <2>2. net' \in [Link -> Seq(Message)]
    <3>1. \A l \in Link : net[l] \in Seq(Message) /\ net[l] \o Burst(chan[s]) \in Seq(Message)
      BY <2>1 DEF TypeOK, LinksOK
    <3> QED
      BY <1>2, <3>1 DEF Register, RegisterLink, TypeOK, LinksOK
  <2> QED
    BY <1>2, <2>2 DEF Register, RegisterLink, TypeOK, LinksOK
<1> QED
  BY <1>1, <1>2

(* lclient_vexit, server_split: a link goes, with the users behind it.     *)
LEMMA CloseType ==
  ASSUME TypeOK, NEW s \in Server, NEW t \in Server, <<s, t>> \in Link, Close(s, t)
  PROVE  TypeOK'
<1>1. Forget(chan[s], Behind[<<s, t>>]) \in Copy
  BY ForgetFacts DEF TypeOK
<1>2. chan' \in [Server -> Copy]
  BY <1>1 DEF Close, TypeOK
<1>3. NQuit(<<s, t>>) \in Message
  BY DEF Message
<1> DEFINE quit == IF end[<<s, t>>] = "up" THEN <<NQuit(<<s, t>>)>> ELSE <<>>
<1>4. quit \in Seq(Message)
  BY <1>3
<1>5. /\ end' = [end EXCEPT ![<<s, t>>] = "down"]
      /\ net' = [l \in Link |-> IF l = <<t, s>> THEN <<>>
                                ELSE IF Sent(s, t, quit, l) THEN net[l] \o quit
                                ELSE net[l]]
      /\ UNCHANGED <<sessions, kicked>>
  BY DEF Close, CloseLink
<1> HIDE DEF quit
<1>6. net' \in [Link -> Seq(Message)]
  <2>1. \A l \in Link : net[l] \in Seq(Message) /\ net[l] \o quit \in Seq(Message)
    BY <1>4 DEF TypeOK, LinksOK
  <2> QED
    BY <1>5, <2>1
<1> QED
  BY <1>2, <1>5, <1>6 DEF TypeOK, LinksOK

-----------------------------------------------------------------------------
(* Every step keeps copies, links and messages what they are.              *)
LEMMA TypeStep ==
  ASSUME TypeOK, [Next]_vars
  PROVE  TypeOK'
<1>1. ASSUME NEW u \in User, ClientStep(u)
      PROVE  TypeOK'
  <2> USE ClientMessages
  <2>1. ASSUME NEW ts \in 1 .. MaxTS, Create(u, ts)
        PROVE  TypeOK'
    BY <2>1, CreateType
  <2>2. CASE Join(u)
    BY <2>2, JoinType
  <2>3. CASE Part(u)
    BY <2>3, IssueType DEF Part
  <2>4. ASSUME NEW v \in User, Kick(u, v)
        PROVE  TypeOK'
    BY <2>4, IssueType DEF Kick
  <2>5. ASSUME NEW w \in {"+", "-"}, NEW m \in Mode, SetMode(u, w, m)
        PROVE  TypeOK'
    BY <2>5, IssueType DEF SetMode
  <2>6. ASSUME NEW w \in {"+", "-"}, NEW v \in User, SetOp(u, w, v)
        PROVE  TypeOK'
    BY <2>6, IssueType DEF SetOp
  <2> QED
    BY <1>1, <2>1, <2>2, <2>3, <2>4, <2>5, <2>6 DEF ClientStep
<1>2. ASSUME NEW l \in Link, LinkStep(l[1], l[2])
      PROVE  TypeOK'
  <2>1. /\ l[1] \in Server /\ l[2] \in Server
        /\ <<l[1], l[2]>> \in Link /\ <<l[2], l[1]>> \in Link
    BY LinkAssumption DEF LinkAssumption, Rev
  <2> QED
    BY <1>2, <2>1, ReceiveType, LinkUpType, CloseType DEF LinkStep
<1>3. CASE UNCHANGED vars
  BY <1>3 DEF vars, links, TypeOK, LinksOK
<1> QED
  BY <1>1, <1>2, <1>3 DEF Next

(* Init: no server has the channel, and nothing is under way.              *)
LEMMA InitType == Init => TypeOK
<1> SUFFICES ASSUME Init PROVE TypeOK
  OBVIOUS
<1>1. chan \in [Server -> Copy]
  BY DEF Init, NoChan, Copy
<1>2. LinksOK(Message)
  <2>1. <<>> \in Seq(Message) /\ 0 \in 0 .. MaxSessions
    BY LinkAssumption DEF LinkAssumption
  <2> QED
    BY <2>1 DEF Init, LinkInit, LinksOK
<1> QED
  BY <1>1, <1>2 DEF Init, TypeOK

(* Copies are copies and links carry nothing but messages of the protocol, *)
(* whatever is sent, relayed, burst and lost.                              *)
THEOREM TypesOK == Spec => []TypeOK
  BY InitType, TypeStep, PTL DEF Spec

-----------------------------------------------------------------------------
(* What a step can do to the copy of one server: nothing, create it, add a *)
(* user who joins, run a handler for a client's or a server's message, or  *)
(* forget the users behind a link.                                         *)
WithMember(c, u) == [c EXCEPT !.mem = @ \cup {u}]

StepOf(s) ==
  \/ chan'[s] = chan[s]
  \/ chan[s].ts = 0
  \/ \E u \in User : chan'[s] = WithMember(chan[s], u)
  \/ \E m \in Message : /\ m.cmd \notin {"MODE+o", "NJOIN"}
                        /\ chan'[s] = Handle(s, chan[s], m).copy
  \/ \E u \in User, w \in {"+", "-"}, v \in User :
       /\ Home[u] = s /\ SetOp(u, w, v)
       /\ chan'[s] = Handle(s, chan[s], OpMsg(u, w, v)).copy
  \/ \E l \in Link : /\ l[2] = s /\ Receive(s, l[1])
                     /\ chan'[s] = Handle(s, chan[s], Head(net[l])).copy
                     /\ Head(net[l]) \in Message
  \/ \E Gone \in SUBSET Server : chan'[s] = Forget(chan[s], Gone)

(* There is nothing else a step can do.                                    *)
LEMMA StepShape ==
  ASSUME TypeOK, [Next]_vars, NEW s \in Server
  PROVE  StepOf(s)
<1>1. ASSUME NEW u \in User, ClientStep(u)
      PROVE  StepOf(s)
  <2>0. Home[u] \in Server
    OBVIOUS
  <2> USE ClientMessages DEF TypeOK
  <2>1. ASSUME NEW ts \in 1 .. MaxTS, Create(u, ts)
        PROVE  StepOf(s)
    BY <2>0, <2>1 DEF StepOf, Create
  <2>2. CASE Join(u)
    BY <2>0, <2>2 DEF StepOf, WithMember, Join
  <2>3. CASE Part(u)
    BY <2>0, <2>3 DEF StepOf, Part, Issue, PartMsg
  <2>4. ASSUME NEW v \in User, Kick(u, v)
        PROVE  StepOf(s)
    BY <2>0, <2>4 DEF StepOf, Kick, Issue, KickMsg
  <2>5. ASSUME NEW w \in {"+", "-"}, NEW m \in Mode, SetMode(u, w, m)
        PROVE  StepOf(s)
    BY <2>0, <2>5 DEF StepOf, SetMode, Issue, ModeMsg
  <2>6. ASSUME NEW w \in {"+", "-"}, NEW v \in User, SetOp(u, w, v)
        PROVE  StepOf(s)
    <3>1. CASE Home[u] = s
      BY <3>1, <2>6 DEF StepOf, SetOp, Issue
    <3>2. CASE Home[u] # s
      BY <2>0, <3>2, <2>6 DEF StepOf, SetOp, Issue
    <3> QED
      BY <3>1, <3>2
  <2> QED
    BY <1>1, <2>1, <2>2, <2>3, <2>4, <2>5, <2>6 DEF ClientStep
<1>2. ASSUME NEW l \in Link, LinkStep(l[1], l[2])
      PROVE  StepOf(s)
  <2>1. /\ l[1] \in Server /\ l[2] \in Server
        /\ <<l[1], l[2]>> \in Link /\ Rev(l) \in Link
        /\ Behind[<<l[1], l[2]>>] \in SUBSET Server
    BY LinkAssumption DEF LinkAssumption
  <2>2. CASE Receive(l[1], l[2])
    <3>1. CASE l[1] = s
      <4>1. Head(net[Rev(l)]) \in Message
        BY <2>1, <2>2, ReadMessage DEF Receive, Rev
      <4>2. chan'[s] = Handle(s, chan[s], Head(net[Rev(l)])).copy
        BY <2>1, <2>2, <3>1 DEF Receive, Rev, TypeOK
      <4>3. Rev(l)[2] = s /\ Receive(s, Rev(l)[1])
        BY <2>2, <3>1, SMTT(40) DEF Rev
      <4> QED
        BY <2>1, <4>1, <4>2, <4>3 DEF StepOf
    <3>2. CASE l[1] # s
      BY <2>1, <2>2, <3>2 DEF StepOf, Receive, TypeOK
    <3> QED
      BY <3>1, <3>2
  <2>3. CASE Open(l[1], l[2]) \/ Register(l[1], l[2])
    BY <2>3 DEF StepOf, Open, Register
  <2>4. CASE Close(l[1], l[2])
    BY <2>1, <2>4 DEF StepOf, Close, TypeOK
  <2> QED
    BY <1>2, <2>2, <2>3, <2>4 DEF LinkStep
<1>3. CASE UNCHANGED vars
  BY <1>3 DEF vars, StepOf
<1> QED
  BY <1>1, <1>2, <1>3 DEF Next

-----------------------------------------------------------------------------
(* A step from a well typed state never makes a channel younger.           *)
LEMMA TimestampStep ==
  ASSUME TypeOK, [Next]_vars, NEW s \in Server, chan[s].ts # 0
  PROVE  chan'[s].ts <= chan[s].ts
<1>0. chan[s] \in Copy /\ chan[s].ts \in Nat
  BY DEF TypeOK, Copy
<1>1. StepOf(s)
  BY StepShape
<1>2. \A u \in User : WithMember(chan[s], u).ts = chan[s].ts
  BY <1>0 DEF Copy, WithMember
<1>3. \A m \in Message : Handle(s, chan[s], m).copy.ts <= chan[s].ts
  BY <1>0, HandleTimestamp
<1>4. \A Gone \in SUBSET Server : Forget(chan[s], Gone).ts <= chan[s].ts
  BY <1>0, ForgetFacts
<1>5. \A u \in User, w \in {"+", "-"}, v \in User : OpMsg(u, w, v) \in Message
  BY ClientMessages
<1> QED
  BY <1>0, <1>1, <1>2, <1>3, <1>4, <1>5 DEF StepOf

(* A step from a well typed state takes a privilege only by -o, an older   *)
(* timestamp or with the membership, and gives one only by +o or an NJOIN  *)
(* that is not newer.                                                      *)
LEMMA PrivilegeStep ==
  ASSUME TypeOK, [Next]_vars, NEW s \in Server, chan[s].ts # 0, NEW u \in User
  PROVE  /\ u \in chan'[s].mem /\ u \in chan[s].op /\ u \notin chan'[s].op
              => chan'[s].ts < chan[s].ts \/ OpChange(s, "-", u)
         /\ u \in chan'[s].op /\ u \notin chan[s].op
              => \/ OpChange(s, "+", u)
                 \/ \E l \in Link : /\ l[2] = s /\ Receive(s, l[1])
                                    /\ Head(net[l]).cmd = "NJOIN"
                                    /\ Head(net[l]).ts <= chan[s].ts
<1> DEFINE Goal ==
      /\ u \in chan'[s].mem /\ u \in chan[s].op /\ u \notin chan'[s].op
           => chan'[s].ts < chan[s].ts \/ OpChange(s, "-", u)
      /\ u \in chan'[s].op /\ u \notin chan[s].op
           => \/ OpChange(s, "+", u)
              \/ \E l \in Link : /\ l[2] = s /\ Receive(s, l[1])
                                 /\ Head(net[l]).cmd = "NJOIN"
                                 /\ Head(net[l]).ts <= chan[s].ts
<1> SUFFICES Goal
  OBVIOUS
<1>0. chan[s] \in Copy
  BY DEF TypeOK
<1>1. CASE chan'[s] = chan[s]
  BY <1>1
<1>2. ASSUME NEW v \in User, chan'[s] = WithMember(chan[s], v)
      PROVE  Goal
  BY <1>0, <1>2 DEF Copy, WithMember
<1>3. ASSUME NEW m \in Message, m.cmd \notin {"MODE+o", "NJOIN"},
             chan'[s] = Handle(s, chan[s], m).copy
      PROVE  Goal
  BY <1>0, <1>3, HandlePrivileges DEF OpMsg
<1>4. ASSUME NEW v \in User, NEW w \in {"+", "-"}, NEW a \in User,
             Home[v] = s, SetOp(v, w, a),
             chan'[s] = Handle(s, chan[s], OpMsg(v, w, a)).copy
      PROVE  Goal
  <2>1. OpMsg(v, w, a) \in Message
    BY ClientMessages
  <2>2. \A b \in User, x \in {"+", "-"} :
          OpMsg(v, w, a) = OpMsg(b, x, u) => w = x /\ a = u
    BY DEF OpMsg
  <2>3. OpMsg(v, w, a).cmd # "NJOIN"
    BY DEF OpMsg
  <2>4. w = "-" /\ a = u => OpChange(s, "-", u)
    BY <1>4 DEF OpChange
  <2>5. w = "+" /\ a = u => OpChange(s, "+", u)
    BY <1>4 DEF OpChange
  <2> QED
    BY <1>0, <1>4, <2>1, <2>2, <2>3, <2>4, <2>5, HandlePrivileges
<1>5. ASSUME NEW l \in Link, l[2] = s, Receive(s, l[1]),
             chan'[s] = Handle(s, chan[s], Head(net[l])).copy,
             Head(net[l]) \in Message
      PROVE  Goal
  <2>1. \A w \in {"+", "-"} :
          (\E v \in User : Head(net[l]) = OpMsg(v, w, u)) => OpChange(s, w, u)
    BY <1>5 DEF OpChange
  <2> QED
    BY <1>0, <1>5, <2>1, HandlePrivileges
<1>6. ASSUME NEW Gone \in SUBSET Server, chan'[s] = Forget(chan[s], Gone)
      PROVE  Goal
  BY <1>0, <1>6, ForgetFacts
<1>7. StepOf(s)
  BY StepShape
<1> HIDE DEF Goal
<1>8. CASE \E v \in User : chan'[s] = WithMember(chan[s], v)
  BY <1>2, <1>8
<1>9. CASE \E m \in Message : /\ m.cmd \notin {"MODE+o", "NJOIN"}
                             /\ chan'[s] = Handle(s, chan[s], m).copy
  BY <1>3, <1>9
<1>10. CASE \E v \in User, w \in {"+", "-"}, a \in User :
              /\ Home[v] = s /\ SetOp(v, w, a)
              /\ chan'[s] = Handle(s, chan[s], OpMsg(v, w, a)).copy
  BY <1>4, <1>10
<1>11. CASE \E l \in Link : /\ l[2] = s /\ Receive(s, l[1])
                           /\ chan'[s] = Handle(s, chan[s], Head(net[l])).copy
                           /\ Head(net[l]) \in Message
  BY <1>5, <1>11
<1> QED
  BY <1>1, <1>6, <1>7, <1>8, <1>9, <1>10, <1>11 DEF StepOf

(* NoTakeover, for every network: no burst, merge or mode change makes a   *)
(* channel younger, and the younger channel takes nothing from the older.  *)
THEOREM OlderChannelWins == Spec => NoTakeover
<1>1. ASSUME TypeOK, [Next]_vars
      PROVE  \A s \in Server : chan[s].ts # 0 => chan'[s].ts <= chan[s].ts
  BY <1>1, TimestampStep
<1>2. ASSUME TypeOK, [Next]_vars
      PROVE  \A s \in Server : chan[s].ts # 0 =>
        /\ \A u \in chan'[s].mem \cap (chan[s].op \ chan'[s].op) :
             chan'[s].ts < chan[s].ts \/ OpChange(s, "-", u)
        /\ \A u \in chan'[s].op \ chan[s].op :
             \/ OpChange(s, "+", u)
             \/ \E l \in Link : /\ l[2] = s /\ Receive(s, l[1])
                                /\ Head(net[l]).cmd = "NJOIN"
                                /\ Head(net[l]).ts <= chan[s].ts
  <2>1. \A s \in Server : chan'[s].mem \subseteq User /\ chan'[s].op \subseteq User
    BY <1>2, TypeStep DEF TypeOK, Copy
  <2> QED
    BY <1>2, <2>1, PrivilegeStep
<1> QED
  BY <1>1, <1>2, TypesOK, PTL DEF NoTakeover, TimestampNeverGrows, PrivilegesKept, Spec

-----------------------------------------------------------------------------
(* Who is on the channel, and what the messages on their way make of it.   *)

Gains(m, u) == m.cmd = "NJOIN" /\ u \in m.users
Loses(m, u) == \/ m.cmd = "PART" /\ m.by = u
               \/ m.cmd = "NQUIT" /\ Home[u] \in Behind[m.link]

\* For u, m makes K2 of the members K.
Makes(m, u, K, K2) == u \in K2 <=> (u \in K \/ Gains(m, u)) /\ ~Loses(m, u)

\* u is a member when all of q is read by who has the members K.
After(q, u, K) ==
  \/ \E i \in 1 .. Len(q) : /\ Gains(q[i], u)
                            /\ \A j \in 1 .. Len(q) : i < j => ~Loses(q[j], u)
  \/ u \in K /\ \A j \in 1 .. Len(q) : ~Loses(q[j], u)

Live(l, E) == E[l] = "up" /\ E[Rev(l)] # "down"

\* Without a KICK, a message on l is about users on the side of its sender.
Outward(m, l) ==
  /\ m.cmd # "KICK"
  /\ m.cmd = "NJOIN" => \A u \in m.users : Home[u] \in Behind[Rev(l)]
  /\ m.cmd = "PART" => Home[m.by] \in Behind[Rev(l)]
  /\ m.cmd = "NQUIT" => Behind[m.link] \subseteq Behind[Rev(l)]

\* One direction of a link: E the ends, N the queues, C the copies.
LinkTells(l, E, N, C) ==
  /\ \A i \in 1 .. Len(N[l]) : Outward(N[l][i], l)
  /\ E[Rev(l)] = "down" \/ E[l] = "open" => N[l] = <<>>
  /\ E[Rev(l)] # "up" \/ E[l] = "open"
       => \A u \in C[l[2]].mem : Home[u] \notin Behind[Rev(l)]
  /\ Live(l, E) => \A u \in User : Home[u] \in Behind[Rev(l)] =>
                     (After(N[l], u, C[l[2]].mem) <=> u \in C[l[1]].mem)

\* A member is local or behind a link that is up.
Reached(E, C) ==
  \A s \in Server : \A u \in C[s].mem :
    \/ Home[u] = s
    \/ \E l \in Link : l[1] = s /\ E[l] = "up" /\ Home[u] \in Behind[l]

Followed(E, N, C) == (\A l \in Link : LinkTells(l, E, N, C)) /\ Reached(E, C)

(* Nothing is under way.                                                   *)
LEMMA AfterNothing ==
  ASSUME NEW u, NEW K
  PROVE  After(<<>>, u, K) <=> u \in K
<1>1. \A i \in 1 .. Len(<<>>) : FALSE
  OBVIOUS
<1> QED
  BY <1>1 DEF After

(* The first message is read.                                              *)
LEMMA AfterRead ==
  ASSUME NEW X, NEW q \in Seq(X), q # <<>>, NEW u, NEW K, NEW K2, Makes(Head(q), u, K, K2)
  PROVE  After(Tail(q), u, K2) <=> After(q, u, K)
<1> DEFINE n == Len(q)
           p == Tail(q)
<1>1. /\ n \in Nat /\ n >= 1 /\ Len(p) = n - 1 /\ Head(q) = q[1]
      /\ \A i \in 1 .. n - 1 : p[i] = q[i + 1]
  OBVIOUS
<1>2. /\ 1 \in 1 .. n
      /\ \A i \in 1 .. n - 1 : i + 1 \in 1 .. n
      /\ \A i \in 1 .. n : i = 1 \/ (i - 1 \in 1 .. n - 1 /\ (i - 1) + 1 = i)
  BY <1>1
<1>3. Gains(q[1], u) => ~Loses(q[1], u)
  BY DEF Gains, Loses
<1>4. u \in K2 <=> (u \in K \/ Gains(q[1], u)) /\ ~Loses(q[1], u)
  BY <1>1 DEF Makes
<1> HIDE DEF n, p
<1>5. (\A j \in 1 .. n : ~Loses(q[j], u)) <=>
      ~Loses(q[1], u) /\ \A j \in 1 .. n - 1 : ~Loses(p[j], u)
  <2>1. ASSUME \A j \in 1 .. n : ~Loses(q[j], u)
        PROVE  ~Loses(q[1], u) /\ \A j \in 1 .. n - 1 : ~Loses(p[j], u)
    BY <1>1, <1>2, <2>1
  <2>2. ASSUME ~Loses(q[1], u), \A j \in 1 .. n - 1 : ~Loses(p[j], u), NEW j \in 1 .. n
        PROVE  ~Loses(q[j], u)
    <3>1. CASE j = 1
      BY <2>2, <3>1
    <3>2. CASE j # 1
      <4>1. j - 1 \in 1 .. n - 1 /\ p[j - 1] = q[j]
        BY <1>1, <1>2, <3>2
      <4> QED
        BY <2>2, <4>1
    <3> QED
      BY <3>1, <3>2
  <2> QED
    BY <2>1, <2>2
<1>6. ASSUME NEW i \in 1 .. n - 1
      PROVE  /\ Gains(q[i + 1], u) <=> Gains(p[i], u)
             /\ (\A j \in 1 .. n : i + 1 < j => ~Loses(q[j], u)) <=>
                (\A j \in 1 .. n - 1 : i < j => ~Loses(p[j], u))
  <2>1. q[i + 1] = p[i]
    BY <1>1
  <2>2. ASSUME \A j \in 1 .. n : i + 1 < j => ~Loses(q[j], u), NEW j \in 1 .. n - 1, i < j
        PROVE  ~Loses(p[j], u)
    <3>1. j + 1 \in 1 .. n /\ i + 1 < j + 1 /\ q[j + 1] = p[j]
      BY <1>1, <1>2, <2>2
    <3> QED
      BY <2>2, <3>1
  <2>3. ASSUME \A j \in 1 .. n - 1 : i < j => ~Loses(p[j], u), NEW j \in 1 .. n, i + 1 < j
        PROVE  ~Loses(q[j], u)
    <3>1. j - 1 \in 1 .. n - 1 /\ i < j - 1 /\ p[j - 1] = q[j]
      BY <1>1, <1>2, <2>3
    <3> QED
      BY <2>3, <3>1
  <2> QED
    BY <2>1, <2>2, <2>3
<1>7. (\A j \in 1 .. n : 1 < j => ~Loses(q[j], u)) <=> (\A j \in 1 .. n - 1 : ~Loses(p[j], u))
  <2>1. ASSUME \A j \in 1 .. n : 1 < j => ~Loses(q[j], u), NEW j \in 1 .. n - 1
        PROVE  ~Loses(p[j], u)
    <3>1. j + 1 \in 1 .. n /\ 1 < j + 1 /\ q[j + 1] = p[j]
      BY <1>1, <1>2
    <3> QED
      BY <2>1, <3>1
  <2>2. ASSUME \A j \in 1 .. n - 1 : ~Loses(p[j], u), NEW j \in 1 .. n, 1 < j
        PROVE  ~Loses(q[j], u)
    <3>1. j - 1 \in 1 .. n - 1 /\ p[j - 1] = q[j]
      BY <1>1, <1>2, <2>2
    <3> QED
      BY <2>2, <3>1
  <2> QED
    BY <2>1, <2>2
<1>8. (\E i \in 1 .. n : Gains(q[i], u) /\ \A j \in 1 .. n : i < j => ~Loses(q[j], u))
      <=> \/ Gains(q[1], u) /\ \A j \in 1 .. n - 1 : ~Loses(p[j], u)
          \/ \E i \in 1 .. n - 1 : Gains(p[i], u) /\ \A j \in 1 .. n - 1 : i < j => ~Loses(p[j], u)
  <2>1. ASSUME NEW i \in 1 .. n, Gains(q[i], u), \A j \in 1 .. n : i < j => ~Loses(q[j], u)
        PROVE  \/ Gains(q[1], u) /\ \A j \in 1 .. n - 1 : ~Loses(p[j], u)
               \/ \E k \in 1 .. n - 1 : Gains(p[k], u) /\ \A j \in 1 .. n - 1 : k < j => ~Loses(p[j], u)
    <3>1. CASE i = 1
      BY <1>7, <2>1, <3>1
    <3>2. CASE i # 1
      <4> DEFINE k == i - 1
      <4>1. k \in 1 .. n - 1 /\ k + 1 = i
        BY <1>2, <3>2
      <4> HIDE DEF k
      <4> QED
        BY <1>6, <2>1, <4>1
    <3> QED
      BY <3>1, <3>2
  <2>2. ASSUME Gains(q[1], u), \A j \in 1 .. n - 1 : ~Loses(p[j], u)
        PROVE  \E i \in 1 .. n : Gains(q[i], u) /\ \A j \in 1 .. n : i < j => ~Loses(q[j], u)
    BY <1>2, <1>7, <2>2
  <2>3. ASSUME NEW i \in 1 .. n - 1, Gains(p[i], u), \A j \in 1 .. n - 1 : i < j => ~Loses(p[j], u)
        PROVE  \E k \in 1 .. n : Gains(q[k], u) /\ \A j \in 1 .. n : k < j => ~Loses(q[j], u)
    BY <1>2, <1>6, <2>3
  <2> QED
    BY <2>1, <2>2, <2>3
<1> QED
  BY <1>1, <1>3, <1>4, <1>5, <1>8 DEF After, n, p

(* A message is sent.                                                      *)
LEMMA AfterSend ==
  ASSUME NEW X, NEW q \in Seq(X), NEW m \in X, NEW u, NEW K
  PROVE  After(q \o <<m>>, u, K) <=> (After(q, u, K) \/ Gains(m, u)) /\ ~Loses(m, u)
<1> DEFINE n == Len(q)
           p == q \o <<m>>
<1>1. /\ n \in Nat /\ Len(p) = n + 1 /\ p[n + 1] = m
      /\ \A i \in 1 .. n : p[i] = q[i] /\ i \in 1 .. n + 1 /\ i < n + 1
      /\ \A i \in 1 .. n + 1 : i \in 1 .. n \/ i = n + 1
      /\ n + 1 \in 1 .. n + 1 /\ \A j \in 1 .. n + 1 : ~(n + 1 < j)
  OBVIOUS
<1>2. Gains(m, u) => ~Loses(m, u)
  BY DEF Gains, Loses
<1> HIDE DEF n, p
<1>3. (\A j \in 1 .. n + 1 : ~Loses(p[j], u)) <=>
      ~Loses(m, u) /\ \A j \in 1 .. n : ~Loses(q[j], u)
  BY <1>1
<1>4. ASSUME NEW i \in 1 .. n
      PROVE  (\A j \in 1 .. n + 1 : i < j => ~Loses(p[j], u)) <=>
             ~Loses(m, u) /\ \A j \in 1 .. n : i < j => ~Loses(q[j], u)
  BY <1>1
<1>5. (\E i \in 1 .. n + 1 : Gains(p[i], u) /\ \A j \in 1 .. n + 1 : i < j => ~Loses(p[j], u))
      <=> \/ Gains(m, u)
          \/ ~Loses(m, u) /\ \E i \in 1 .. n : Gains(q[i], u) /\ \A j \in 1 .. n : i < j => ~Loses(q[j], u)
  <2>1. ASSUME NEW i \in 1 .. n + 1, Gains(p[i], u), \A j \in 1 .. n + 1 : i < j => ~Loses(p[j], u)
        PROVE  \/ Gains(m, u)
               \/ ~Loses(m, u) /\ \E k \in 1 .. n : Gains(q[k], u) /\ \A j \in 1 .. n : k < j => ~Loses(q[j], u)
    <3>1. CASE i = n + 1
      BY <1>1, <2>1, <3>1
    <3>2. CASE i \in 1 .. n
      BY <1>1, <1>4, <2>1, <3>2
    <3> QED
      BY <1>1, <3>1, <3>2
  <2>2. ASSUME Gains(m, u)
        PROVE  \E i \in 1 .. n + 1 : Gains(p[i], u) /\ \A j \in 1 .. n + 1 : i < j => ~Loses(p[j], u)
    BY <1>1, <2>2
  <2>3. ASSUME ~Loses(m, u), NEW i \in 1 .. n, Gains(q[i], u),
               \A j \in 1 .. n : i < j => ~Loses(q[j], u)
        PROVE  \E k \in 1 .. n + 1 : Gains(p[k], u) /\ \A j \in 1 .. n + 1 : k < j => ~Loses(p[j], u)
    BY <1>1, <1>4, <2>3
  <2> QED
    BY <2>1, <2>2, <2>3
<1> QED
  BY <1>1, <1>2, <1>3, <1>5 DEF After, n, p

-----------------------------------------------------------------------------
(* One server acts: on its own (f = s) or on what came over <<f, s>>.      *)

\* Whom it may be about.
Side(s, f, h) == IF f = s THEN h = s ELSE h \in Behind[<<s, f>>]

(* Links are pairs, there and back.                                        *)
LEMMA LinkFacts ==
  ASSUME NEW l \in Link
  PROVE  /\ l = <<l[1], l[2]>> /\ l[1] \in Server /\ l[2] \in Server /\ l[1] # l[2]
         /\ Rev(l) \in Link /\ Rev(Rev(l)) = l /\ Rev(l)[1] = l[2] /\ Rev(l)[2] = l[1]
         /\ l[1] \notin Behind[l] /\ l[2] \in Behind[l]
         /\ Behind[l] \cap Behind[Rev(l)] = {} /\ Behind[l] \subseteq Server
         /\ \A k \in Link : k[1] = l[2] /\ k[2] # l[1] => Behind[k] \subseteq Behind[l]
<1>1. l \in Server \X Server
  BY LinkAssumption DEF LinkAssumption
<1>2. l = <<l[1], l[2]>> /\ l[1] \in Server /\ l[2] \in Server
  BY <1>1
<1>3. Rev(Rev(l)) = l /\ Rev(l)[1] = l[2] /\ Rev(l)[2] = l[1]
  BY <1>2 DEF Rev
<1>4. /\ l[1] # l[2] /\ Rev(l) \in Link
      /\ l[1] \notin Behind[l] /\ l[2] \in Behind[l]
      /\ Behind[l] \cap Behind[Rev(l)] = {}
      /\ \A k \in Link : k[1] = l[2] /\ k[2] # l[1] => Behind[k] \subseteq Behind[l]
  BY LinkAssumption, Zenon DEF LinkAssumption
<1>5. Behind[l] \subseteq Server
  BY LinkAssumption DEF LinkAssumption
<1> QED
  BY <1>2, <1>3, <1>4, <1>5

(* On the other links of s the message is of somebody on the side of s.    *)
LEMMA SideFacts ==
  ASSUME NEW s \in Server, NEW f \in Server, f = s \/ <<s, f>> \in Link,
         NEW h, Side(s, f, h), NEW l \in Link
  PROVE  /\ l[1] = s /\ l[2] # f => h \in Behind[Rev(l)]
         /\ l[2] = s /\ l[1] # f => h \notin Behind[Rev(l)]
         /\ f # s /\ l = <<s, f>> => h \notin Behind[Rev(l)]
<1>1. /\ Rev(l) \in Link /\ Rev(l)[1] = l[2] /\ Rev(l)[2] = l[1]
      /\ l[2] \notin Behind[Rev(l)] /\ l[1] \in Behind[Rev(l)]
      /\ Behind[l] \cap Behind[Rev(l)] = {}
      /\ \A k \in Link : k[1] = l[1] /\ k[2] # l[2] => Behind[k] \subseteq Behind[Rev(l)]
      /\ \A k \in Link : k[1] = l[2] /\ k[2] # l[1] => Behind[k] \subseteq Behind[l]
  BY LinkFacts, ZenonT(60)
<1>2. CASE f = s
  BY <1>1, <1>2 DEF Side
<1>3. CASE f # s
  <2>1. /\ h \in Behind[<<s, f>>] /\ <<s, f>> \in Link
        /\ <<s, f>>[1] = s /\ <<s, f>>[2] = f
    BY <1>3 DEF Side
  <2>2. l[1] = s /\ l[2] # f => Behind[<<s, f>>] \subseteq Behind[Rev(l)]
    BY <1>1, <2>1
  <2>3. l[2] = s /\ l[1] # f => Behind[<<s, f>>] \subseteq Behind[l]
    BY <1>1, <2>1
  <2> QED
    BY <1>1, <2>1, <2>2, <2>3
<1> QED
  BY <1>2, <1>3

\* A message of s is about members on that side.
Aside(m, s, f) ==
  /\ m.cmd # "KICK"
  /\ m.cmd = "NJOIN" => \A u \in m.users : Side(s, f, Home[u])
  /\ m.cmd = "PART" => Side(s, f, Home[m.by])
  /\ m.cmd = "NQUIT" => f # s /\ Behind[m.link] \subseteq Behind[<<s, f>>]

\* out, nothing or a message, says how the members K become K2.
Says(out, K, K2) ==
  IF out = <<>> THEN K2 = K
  ELSE out = <<out[1]>> /\ \A u \in User : Makes(out[1], u, K, K2)

ActsBy(s, f, out) ==
  /\ s \in Server /\ f \in Server /\ (f = s \/ <<s, f>> \in Link)
  /\ out \in Seq(Message)
  /\ \A x \in Server : x # s => chan'[x] = chan[x]
  /\ Says(out, chan[s].mem, chan'[s].mem)
  /\ \A u \in User : (u \in chan[s].mem) # (u \in chan'[s].mem) => Side(s, f, Home[u])
  /\ out # <<>> => Aside(out[1], s, f)

\* out goes to all links of s but the one to f; other links stay as they are.
Relays(s, f, out) ==
  \A l \in Link : l # <<s, f>> /\ l # <<f, s>> =>
    net'[l] = IF out # <<>> /\ l[1] = s /\ Live(l, end) THEN net[l] \o out ELSE net[l]

(* On the other links of s, too.                                           *)
LEMMA AsideIsOutward ==
  ASSUME NEW s \in Server, NEW f \in Server, f = s \/ <<s, f>> \in Link,
         NEW m \in Message, Aside(m, s, f), NEW l \in Link, l[1] = s, l[2] # f
  PROVE  Outward(m, l)
<1>1. \A h : Side(s, f, h) => h \in Behind[Rev(l)]
  BY SideFacts
<1>2. m.cmd = "NQUIT" => Behind[m.link] \subseteq Behind[Rev(l)]
  <2>1. ASSUME m.cmd = "NQUIT", NEW h \in Behind[m.link] PROVE h \in Behind[Rev(l)]
    BY <1>1, <2>1 DEF Aside, Side
  <2> QED
    BY <2>1
<1> QED
  BY <1>1, <1>2 DEF Aside, Outward

(* The links on which nothing was read, and which have the ends they had.  *)
LEMMA OtherTells ==
  ASSUME TypeOK, TypeOK', NEW s, NEW f, NEW out, ActsBy(s, f, out), Relays(s, f, out),
         NEW l \in Link, l # <<s, f>>, l # <<f, s>>, LinkTells(l, end, net, chan),
         end'[l] = end[l], end'[Rev(l)] = end[Rev(l)]
  PROVE  LinkTells(l, end', net', chan')
<1>1. /\ s \in Server /\ f \in Server /\ (f = s \/ <<s, f>> \in Link) /\ out \in Seq(Message)
      /\ \A x \in Server : x # s => chan'[x] = chan[x]
      /\ \A u \in User : (u \in chan[s].mem) # (u \in chan'[s].mem) => Side(s, f, Home[u])
      /\ Says(out, chan[s].mem, chan'[s].mem)
  BY DEF ActsBy
<1>2. /\ net[l] \in Seq(Message) /\ net'[l] \in Seq(Message)
      /\ \A x \in Server : chan[x].mem \in SUBSET User /\ chan'[x].mem \in SUBSET User
  BY DEF TypeOK, LinksOK, Copy
<1>3. /\ l = <<l[1], l[2]>> /\ l[1] \in Server /\ l[2] \in Server /\ l[1] # l[2]
      /\ Live(l, end') <=> Live(l, end)
  BY LinkFacts DEF Live
<1>4. net'[l] = IF out # <<>> /\ l[1] = s /\ Live(l, end) THEN net[l] \o out ELSE net[l]
  BY DEF Relays
<1>5. CASE l[1] = s
  <2>1. l[2] # f /\ chan'[l[2]] = chan[l[2]]
    BY <1>1, <1>3, <1>5
  <2>2. CASE out # <<>> /\ Live(l, end)
    <3> DEFINE m == out[1]
    <3>1. /\ out = <<m>> /\ m \in Message /\ Aside(m, s, f)
          /\ \A u \in User : Makes(m, u, chan[s].mem, chan'[s].mem)
      <4>1. out = <<out[1]>>
        BY <1>1, <2>2 DEF Says
      <4>2. out[1] \in Message
        BY <1>1, <2>2
      <4> QED
        BY <1>1, <2>2, <4>1, <4>2 DEF Says, ActsBy
    <3> HIDE DEF m
    <3>2. net'[l] = net[l] \o <<m>>
      BY <1>4, <1>5, <2>2, <3>1
    <3>3. Outward(m, l)
      BY <1>1, <1>5, <2>1, <3>1, AsideIsOutward
    <3>4. \A i \in 1 .. Len(net'[l]) : Outward(net'[l][i], l)
      <4> SUFFICES ASSUME NEW i \in 1 .. Len(net[l] \o <<m>>)
                   PROVE  Outward((net[l] \o <<m>>)[i], l)
        BY <3>2
      <4>1. CASE i \in 1 .. Len(net[l])
        <5>1. (net[l] \o <<m>>)[i] = net[l][i]
          BY <1>2, <4>1
        <5> QED
          BY <4>1, <5>1 DEF LinkTells
      <4>2. CASE i = Len(net[l]) + 1
        <5>1. (net[l] \o <<m>>)[i] = m
          BY <1>2, <4>2
        <5> QED
          BY <3>3, <5>1
      <4> QED
        BY <1>2, <4>1, <4>2
    <3>5. ASSUME NEW u \in User, Home[u] \in Behind[Rev(l)]
          PROVE  After(net'[l], u, chan'[l[2]].mem) <=> u \in chan'[s].mem
      <4>1. After(net[l], u, chan[l[2]].mem) <=> u \in chan[s].mem
        BY <1>5, <2>2, <3>5 DEF LinkTells
      <4>2. After(net[l] \o <<m>>, u, chan[l[2]].mem)
              <=> (After(net[l], u, chan[l[2]].mem) \/ Gains(m, u)) /\ ~Loses(m, u)
        BY <1>2, <3>1, AfterSend
      <4> QED
        BY <2>1, <3>1, <3>2, <4>1, <4>2 DEF Makes
    <3>6. /\ ~(end'[Rev(l)] = "down" \/ end'[l] = "open")
          /\ end'[Rev(l)] # "up" => \A u \in chan'[l[2]].mem : Home[u] \notin Behind[Rev(l)]
      BY <2>1, <2>2 DEF Live, LinkTells
    <3> QED
      BY <1>5, <3>4, <3>5, <3>6 DEF LinkTells
  <2>3. CASE ~(out # <<>> /\ Live(l, end))
    <3>1. net'[l] = net[l] /\ (Live(l, end) => chan'[s].mem = chan[s].mem)
      BY <1>1, <1>4, <2>3 DEF Says
    <3> QED
      BY <1>3, <1>5, <2>1, <3>1 DEF LinkTells
  <2> QED
    BY <2>2, <2>3
<1>6. CASE l[2] = s
  <2>1. net'[l] = net[l] /\ chan'[l[1]] = chan[l[1]] /\ l[1] # f
    BY <1>1, <1>3, <1>4, <1>6
  <2>2. \A u \in User : Home[u] \in Behind[Rev(l)] =>
          (u \in chan'[s].mem <=> u \in chan[s].mem)
    BY <1>1, <1>6, <2>1, SideFacts
  <2>3. \A u \in User : Home[u] \in Behind[Rev(l)] =>
          (After(net[l], u, chan'[s].mem) <=> After(net[l], u, chan[s].mem))
    BY <2>2 DEF After
  <2> QED
    BY <1>2, <1>3, <1>6, <2>1, <2>2, <2>3 DEF LinkTells
<1>7. CASE l[1] # s /\ l[2] # s
  <2>1. net'[l] = net[l] /\ chan'[l[1]] = chan[l[1]] /\ chan'[l[2]] = chan[l[2]]
    BY <1>1, <1>3, <1>4, <1>7
  <2> QED
    BY <1>3, <2>1 DEF LinkTells
<1> QED
  BY <1>5, <1>6, <1>7

(* The link over which s read a message, and did what it says.             *)
LEMMA ReadTells ==
  ASSUME TypeOK, TypeOK', NEW s, NEW t, NEW out, ActsBy(s, t, out), s # t, <<t, s>> \in Link,
         net[<<t, s>>] # <<>>, net'[<<t, s>>] = Tail(net[<<t, s>>]),
         net'[<<s, t>>] = net[<<s, t>>], end' = end,
         \A u \in User : Home[u] # s =>
           Makes(Head(net[<<t, s>>]), u, chan[s].mem, chan'[s].mem),
         LinkTells(<<t, s>>, end, net, chan), LinkTells(<<s, t>>, end, net, chan),
         end[<<s, t>>] = "up"
  PROVE  LinkTells(<<t, s>>, end', net', chan') /\ LinkTells(<<s, t>>, end', net', chan')
<1>1. /\ s \in Server /\ t \in Server /\ <<s, t>> \in Link
      /\ \A x \in Server : x # s => chan'[x] = chan[x]
      /\ \A u \in User : (u \in chan[s].mem) # (u \in chan'[s].mem) => Side(s, t, Home[u])
  BY DEF ActsBy
<1>2. /\ net[<<t, s>>] \in Seq(Message)
      /\ \A x \in Server : chan[x].mem \in SUBSET User /\ chan'[x].mem \in SUBSET User
  BY DEF TypeOK, LinksOK, Copy
<1>3. /\ Rev(<<s, t>>) = <<t, s>> /\ Rev(<<t, s>>) = <<s, t>>
      /\ <<s, t>>[1] = s /\ <<s, t>>[2] = t /\ <<t, s>>[1] = t /\ <<t, s>>[2] = s
      /\ s \notin Behind[<<s, t>>] /\ Behind[<<s, t>>] \cap Behind[<<t, s>>] = {}
  BY <1>1, LinkFacts DEF Rev
<1>4. LinkTells(<<s, t>>, end', net', chan')
  <2>1. \A u \in User : Home[u] \in Behind[<<t, s>>] =>
          (u \in chan'[s].mem <=> u \in chan[s].mem)
    BY <1>1, <1>3 DEF Side
  <2>2. chan'[t] = chan[t]
    BY <1>1
  <2> QED
    BY <1>3, <2>1, <2>2 DEF LinkTells, Live
<1>5. LinkTells(<<t, s>>, end', net', chan')
  <2> DEFINE q == net[<<t, s>>]
             p == Tail(q)
  <2>1. chan'[t] = chan[t]
    BY <1>1
  <2>2. \A i \in 1 .. Len(p) : Outward(p[i], <<t, s>>)
    <3>1. \A i \in 1 .. Len(q) : Outward(q[i], <<t, s>>)
      BY DEF LinkTells
    <3>2. \A i \in 1 .. Len(p) : i + 1 \in 1 .. Len(q) /\ p[i] = q[i + 1]
      BY <1>2
    <3> HIDE DEF p, q
    <3> QED
      BY <3>1, <3>2
  <2>3. end[<<t, s>>] # "open" /\ ~(end[<<s, t>>] = "down")
    BY <1>3 DEF LinkTells
  <2>4. ASSUME NEW u \in User, Home[u] \in Behind[<<s, t>>]
        PROVE  After(p, u, chan'[s].mem) <=> After(q, u, chan[s].mem)
    <3>1. Home[u] # s
      BY <1>3, <2>4
    <3>2. Makes(Head(q), u, chan[s].mem, chan'[s].mem)
      BY <3>1
    <3>3. q \in Seq(Message) /\ q # <<>>
      BY <1>2
    <3> HIDE DEF q
    <3> QED
      BY <3>2, <3>3, AfterRead
  <2>5. net'[<<t, s>>] = p
    OBVIOUS
  <2>6. Live(<<t, s>>, end) => \A u \in User : Home[u] \in Behind[<<s, t>>] =>
          (After(q, u, chan[s].mem) <=> u \in chan[t].mem)
    BY <1>3 DEF LinkTells
  <2> HIDE DEF p, q
  <2> QED
    BY <1>3, <2>1, <2>2, <2>3, <2>4, <2>5, <2>6 DEF LinkTells
<1> QED
  BY <1>4, <1>5

-----------------------------------------------------------------------------
(* What handlers make of the members, and say of it.                       *)

\* A server without the channel has no members.
NoneOnNone == \A s \in Server : chan[s].ts = 0 => chan[s].mem = {}

(* chanuser_drop, server_split                                             *)
LEMMA ForgetMembers ==
  ASSUME NEW c \in Copy, NEW Gone, c.ts = 0 => c.mem = {}
  PROVE  /\ Forget(c, Gone).mem = {u \in c.mem : Home[u] \notin Gone}
         /\ Forget(c, Gone).ts = 0 => Forget(c, Gone).mem = {}
<1> DEFINE left == {u \in c.mem : Home[u] \notin Gone}
<1>1. CASE c.mem # {} /\ left = {}
  BY <1>1 DEF Forget, NoChan
<1>2. CASE ~(c.mem # {} /\ left = {})
  <2>1. Forget(c, Gone) = [c EXCEPT !.mem = left, !.op = c.op \cap left]
    BY <1>2 DEF Forget
  <2>2. c.mem = {} => left = {}
    OBVIOUS
  <2> HIDE DEF left
  <2>3. /\ [c EXCEPT !.mem = left, !.op = c.op \cap left].mem = left
        /\ [c EXCEPT !.mem = left, !.op = c.op \cap left].ts = c.ts
    BY DEF Copy
  <2> QED
    BY <2>1, <2>2, <2>3 DEF left
<1> QED
  BY <1>1, <1>2

\* r is what s does on m: the users from elsewhere become what m says, what s
\* relays is what it did, and no more than m.
Follows(s, c, m, r) ==
  /\ r.copy.ts = 0 => r.copy.mem = {}
  /\ Says(r.relay, c.mem, r.copy.mem)
  /\ \A u \in User : Home[u] # s => Makes(m, u, c.mem, r.copy.mem)
  /\ \A u \in User : (u \in c.mem) # (u \in r.copy.mem) => Gains(m, u) \/ Loses(m, u)
  /\ r.relay # <<>> =>
       /\ r.relay[1].cmd = m.cmd
       /\ m.cmd = "NJOIN" => r.relay[1].users \subseteq m.users
       /\ m.cmd \in {"PART", "NQUIT"} => r.relay[1] = m

\* Nothing about members, and nothing said of them.
Aloof(m) == m.cmd \in {"NMODE", "MODE", "MODE+o"}

LEMMA AloofFollows ==
  ASSUME NEW s \in Server, NEW c \in Copy, c.ts = 0 => c.mem = {}, NEW m \in Message, Aloof(m),
         NEW r, r.copy.mem = c.mem, r.copy.ts = 0 => c.ts = 0,
         r.relay = <<>> \/ (\E k \in Message : r.relay = <<k>> /\ k.cmd = m.cmd)
  PROVE  Follows(s, c, m, r)
<1>1. \A k, u : Aloof(k) => ~Gains(k, u) /\ ~Loses(k, u)
  BY DEF Aloof, Gains, Loses
<1>2. \A u \in User : Makes(m, u, c.mem, r.copy.mem)
  BY <1>1 DEF Makes
<1>3. CASE r.relay = <<>>
  BY <1>2, <1>3 DEF Follows, Says
<1>4. CASE r.relay # <<>>
  <2>1. PICK k \in Message : r.relay = <<k>> /\ k.cmd = m.cmd
    BY <1>4
  <2>2. r.relay[1] = k /\ r.relay = <<r.relay[1]>> /\ Aloof(k)
    BY <2>1 DEF Aloof
  <2>3. \A u \in User : Makes(k, u, c.mem, r.copy.mem)
    BY <1>1, <2>2 DEF Makes
  <2>4. Says(r.relay, c.mem, r.copy.mem)
    BY <1>4, <2>2, <2>3 DEF Says
  <2> QED
    BY <1>2, <2>1, <2>2, <2>4 DEF Follows, Aloof
<1> QED
  BY <1>3, <1>4

LEMMA NJoinFollows ==
  ASSUME NEW s \in Server, NEW c \in Copy, c.ts = 0 => c.mem = {}, NEW m \in Message, m.cmd = "NJOIN"
  PROVE  Follows(s, c, m, Handle(s, c, m))
<1> DEFINE ts  == IF c.ts = 0 \/ m.ts < c.ts THEN m.ts ELSE c.ts
           usr == {u \in m.users : Home[u] # s} \ c.mem
           ops == IF m.ts > ts THEN {} ELSE m.ops \cap usr
           r   == Handle(s, c, m)
           k   == NJoin(ts, usr, ops)
<1>1. m.ts \in 1 .. MaxTS /\ m.users \in SUBSET User /\ c.ts \in 0 .. MaxTS /\ c.mem \in SUBSET User
  BY MessageFields DEF Copy
<1>2. /\ r.copy.ts = ts /\ r.copy.mem = c.mem \cup usr
      /\ r.relay = IF usr = {} THEN <<>> ELSE <<k>>
  BY DEF Handle, OnNJoin, Does
<1>3. ts # 0 /\ k.cmd = "NJOIN" /\ k.users = usr
  BY <1>1 DEF NJoin
<1>4. \A u : u \in usr <=> u \in m.users /\ Home[u] # s /\ u \notin c.mem
  OBVIOUS
<1> HIDE DEF ts, usr, r, k
<1>5. \A u : ~Loses(m, u) /\ ~Loses(k, u) /\ (Gains(m, u) <=> u \in m.users)
             /\ (Gains(k, u) <=> u \in usr)
  BY <1>3 DEF Gains, Loses
<1>6. \A u \in User : Makes(k, u, c.mem, r.copy.mem)
  BY <1>2, <1>5 DEF Makes
<1>7. \A u \in User : Home[u] # s => Makes(m, u, c.mem, r.copy.mem)
  BY <1>2, <1>4, <1>5 DEF Makes
<1>8. Says(r.relay, c.mem, r.copy.mem)
  <2>1. CASE usr = {}
    BY <1>2, <2>1 DEF Says
  <2>2. CASE usr # {}
    <3>1. r.relay = <<k>> /\ r.relay # <<>> /\ r.relay[1] = k
      BY <1>2, <2>2
    <3> QED
      BY <1>6, <3>1 DEF Says
  <2> QED
    BY <2>1, <2>2
<1>9. \A u \in User : (u \in c.mem) # (u \in r.copy.mem) => Gains(m, u)
  BY <1>2, <1>4, <1>5
<1>10. r.relay # <<>> => r.relay[1] = k
  BY <1>2
<1>11. Follows(s, c, m, r)
  BY <1>2, <1>3, <1>4, <1>7, <1>8, <1>9, <1>10 DEF Follows
<1> QED
  BY <1>11 DEF r

LEMMA PartFollows ==
  ASSUME NEW s \in Server, NEW c \in Copy, c.ts = 0 => c.mem = {}, NEW m \in Message, m.cmd = "PART"
  PROVE  Follows(s, c, m, Handle(s, c, m))
<1> DEFINE r == Handle(s, c, m)
<1>1. m.by \in User /\ c.mem \in SUBSET User
  BY MessageFields DEF Copy
<1>2. r = OnPart(c, m)
  BY DEF Handle
<1> HIDE DEF r
<1>3. \A u : ~Gains(m, u) /\ (Loses(m, u) <=> u = m.by)
  BY DEF Gains, Loses
<1>4. ASSUME m.by \notin c.mem PROVE Follows(s, c, m, r)
  <2>1. r.copy = c /\ r.relay = <<>>
    BY <1>2, <1>4 DEF OnPart, Drop, Does
  <2>2. Says(r.relay, c.mem, r.copy.mem)
    BY <2>1 DEF Says
  <2>3. \A u \in User : Makes(m, u, c.mem, r.copy.mem)
    BY <1>3, <1>4, <2>1 DEF Makes
  <2>4. /\ r.copy.ts = 0 => r.copy.mem = {}
        /\ \A u \in User : ~((u \in c.mem) # (u \in r.copy.mem))
    BY <2>1
  <2> QED
    BY <2>1, <2>2, <2>3, <2>4 DEF Follows
<1>5. ASSUME m.by \in c.mem PROVE Follows(s, c, m, r)
  <2>1. /\ r.copy = IF c.mem = {m.by} THEN NoChan
                    ELSE [c EXCEPT !.mem = c.mem \ {m.by}, !.op = c.op \ {m.by}]
        /\ r.relay = <<m>>
    BY <1>2, <1>5 DEF OnPart, Does
  <2>2. r.copy.mem = c.mem \ {m.by} /\ (r.copy.ts = 0 => r.copy.mem = {})
    <3>1. CASE c.mem = {m.by}
      BY <2>1, <3>1 DEF NoChan
    <3>2. CASE c.mem # {m.by}
      BY <1>5, <2>1, <3>2 DEF Copy
    <3> QED
      BY <3>1, <3>2
  <2>3. \A u \in User : Makes(m, u, c.mem, r.copy.mem)
    BY <1>3, <2>2 DEF Makes
  <2>4. r.relay[1] = m /\ r.relay # <<>> /\ r.relay = <<r.relay[1]>>
    BY <2>1
  <2>5. Says(r.relay, c.mem, r.copy.mem)
    BY <2>3, <2>4 DEF Says
  <2>6. \A u \in User : (u \in c.mem) # (u \in r.copy.mem) => Loses(m, u)
    BY <1>3, <2>2
  <2>7. r.relay[1].cmd = m.cmd /\ m.cmd # "NJOIN"
    BY <2>4
  <2>8. r.copy.ts = 0 => r.copy.mem = {}
    BY <2>2
  <2> QED
    BY <2>3, <2>4, <2>5, <2>6, <2>7, <2>8 DEF Follows
<1>6. Follows(s, c, m, r)
  BY <1>4, <1>5
<1> QED
  BY <1>6 DEF r

LEMMA NQuitFollows ==
  ASSUME NEW s \in Server, NEW c \in Copy, c.ts = 0 => c.mem = {}, NEW m \in Message, m.cmd = "NQUIT"
  PROVE  Follows(s, c, m, Handle(s, c, m))
<1> DEFINE r == Handle(s, c, m)
<1>1. r.copy = Forget(c, Behind[m.link]) /\ r.relay = <<m>>
  BY DEF Handle, OnNQuit, Does
<1> HIDE DEF r
<1>2. /\ r.copy.mem = {u \in c.mem : Home[u] \notin Behind[m.link]}
      /\ r.copy.ts = 0 => r.copy.mem = {}
  BY <1>1, ForgetMembers
<1>3. \A u : ~Gains(m, u) /\ (Loses(m, u) <=> Home[u] \in Behind[m.link])
  BY DEF Gains, Loses
<1>4. \A u \in User : Makes(m, u, c.mem, r.copy.mem)
  BY <1>2, <1>3 DEF Makes
<1>5. r.relay[1] = m /\ r.relay # <<>> /\ r.relay = <<r.relay[1]>>
  BY <1>1
<1>6. Says(r.relay, c.mem, r.copy.mem)
  BY <1>4, <1>5 DEF Says
<1>7. \A u \in User : (u \in c.mem) # (u \in r.copy.mem) => Loses(m, u)
  BY <1>2, <1>3
<1>8. Follows(s, c, m, r)
  BY <1>2, <1>4, <1>5, <1>6, <1>7 DEF Follows
<1> QED
  BY <1>8 DEF r

LEMMA HandleFollows ==
  ASSUME NEW s \in Server, NEW c \in Copy, c.ts = 0 => c.mem = {}, NEW m \in Message, m.cmd # "KICK"
  PROVE  Follows(s, c, m, Handle(s, c, m))
<1> DEFINE r == Handle(s, c, m)
<1>0. c = [c EXCEPT !.mem = c.mem]
  BY DEF Copy
<1>1. CASE m.cmd = "NMODE"
  <2>1. m.ts \in 1 .. MaxTS
    BY <1>1, MessageFields
  <2>2. /\ r.copy.mem = c.mem /\ (r.copy.ts = 0 => c.ts = 0)
        /\ r.relay = <<>> \/ r.relay = <<m>>
    <3>1. CASE c.ts = 0 \/ m.ts > c.ts
      BY <1>1, <3>1 DEF Handle, OnNMode, Does, Drop
    <3>2. CASE ~(c.ts = 0 \/ m.ts > c.ts)
      <4> DEFINE d == [c EXCEPT !.ts = m.ts, !.on = c.on \cup m.on]
      <4>1. d.mem = c.mem /\ d.ts = m.ts /\ m.ts # 0
        BY <2>1 DEF Copy
      <4>2. r = Does(d, <<m>>)
        BY <1>1, <3>2 DEF Handle, OnNMode
      <4> HIDE DEF d, r
      <4>3. r.copy = d /\ r.relay = <<m>>
        BY <4>2 DEF Does
      <4> QED
        BY <4>1, <4>3
    <3> QED
      BY <3>1, <3>2
  <2> HIDE DEF r
  <2>3. Follows(s, c, m, r)
    BY <1>1, <2>2, AloofFollows DEF Aloof
  <2> QED
    BY <2>3 DEF r
<1>2. CASE m.cmd = "MODE"
  <2>1. r.copy.mem = c.mem /\ (r.copy.ts = 0 => c.ts = 0) /\ (r.relay = <<>> \/ r.relay = <<m>>)
    BY <1>2 DEF Handle, OnMode, Does, Drop, Copy
  <2> HIDE DEF r
  <2>2. Follows(s, c, m, r)
    BY <1>2, <2>1, AloofFollows DEF Aloof
  <2> QED
    BY <2>2 DEF r
<1>3. CASE m.cmd = "MODE+o"
  <2>1. r.copy.mem = c.mem /\ (r.copy.ts = 0 => c.ts = 0) /\ (r.relay = <<>> \/ r.relay = <<m>>)
    BY <1>3 DEF Handle, OnOp, Does, Drop, Copy
  <2> HIDE DEF r
  <2>2. Follows(s, c, m, r)
    BY <1>3, <2>1, AloofFollows DEF Aloof
  <2> QED
    BY <2>2 DEF r
<1> QED
  BY <1>1, <1>2, <1>3, NJoinFollows, PartFollows, NQuitFollows, MessageFields

-----------------------------------------------------------------------------
(* Steps of one server.                                                    *)

(* The handlers: what was read from f, or what a client of s says (f = s). *)
LEMMA HandleActs ==
  ASSUME TypeOK, NoneOnNone, NEW s \in Server, NEW f \in Server, f = s \/ <<s, f>> \in Link,
         NEW m \in Message, Aside(m, s, f),
         chan' = [chan EXCEPT ![s] = Handle(s, chan[s], m).copy]
  PROVE  /\ ActsBy(s, f, Handle(s, chan[s], m).relay)
         /\ \A u \in User : Home[u] # s => Makes(m, u, chan[s].mem, chan'[s].mem)
         /\ NoneOnNone'
<1> DEFINE c == chan[s]
           r == Handle(s, c, m)
<1>1. /\ c \in Copy /\ (c.ts = 0 => c.mem = {}) /\ m.cmd # "KICK"
      /\ chan'[s] = r.copy /\ \A x \in Server : x # s => chan'[x] = chan[x]
  BY DEF TypeOK, NoneOnNone, Aside
<1>2. Follows(s, c, m, r) /\ r.relay \in Seq(Message)
  BY <1>1, HandleFollows, HandleType
<1>3. \A u \in User : Gains(m, u) \/ Loses(m, u) => Side(s, f, Home[u])
  BY DEF Gains, Loses, Aside, Side
<1> HIDE DEF r
<1>4. r.relay # <<>> => Aside(r.relay[1], s, f)
  <2> SUFFICES ASSUME r.relay # <<>> PROVE Aside(r.relay[1], s, f)
    OBVIOUS
  <2>1. /\ r.relay[1].cmd = m.cmd
        /\ m.cmd = "NJOIN" => r.relay[1].users \subseteq m.users
        /\ m.cmd \in {"PART", "NQUIT"} => r.relay[1] = m
    BY <1>2 DEF Follows
  <2> QED
    BY <1>1, <2>1 DEF Aside
<1>5. /\ r.copy.ts = 0 => r.copy.mem = {}
      /\ Says(r.relay, c.mem, r.copy.mem)
      /\ \A u \in User : Home[u] # s => Makes(m, u, c.mem, r.copy.mem)
      /\ \A u \in User : (u \in c.mem) # (u \in r.copy.mem) => Gains(m, u) \/ Loses(m, u)
  BY <1>2 DEF Follows
<1>6. ActsBy(s, f, r.relay)
  BY <1>1, <1>2, <1>3, <1>4, <1>5 DEF ActsBy
<1>7. NoneOnNone'
  BY <1>1, <1>5 DEF NoneOnNone
<1> QED
  BY <1>1, <1>5, <1>6, <1>7 DEF r

(* channel_join                                                            *)
LEMMA JoinActs ==
  ASSUME NEW u \in User, NEW ts, NEW O, NJoin(ts, {u}, O) \in Message,
         chan'[Home[u]].mem = chan[Home[u]].mem \cup {u},
         \A x \in Server : x # Home[u] => chan'[x] = chan[x]
  PROVE  ActsBy(Home[u], Home[u], <<NJoin(ts, {u}, O)>>)
<1> DEFINE s == Home[u]
           m == NJoin(ts, {u}, O)
           out == <<m>>
<1>1. m.cmd = "NJOIN" /\ m.users = {u} /\ m \in Message
  BY DEF NJoin
<1> HIDE DEF m
<1>2. out = <<out[1]>> /\ out # <<>> /\ out[1] = m /\ out \in Seq(Message)
  BY <1>1
<1> HIDE DEF out
<1>3. \A v \in User : Makes(m, v, chan[s].mem, chan'[s].mem)
  BY <1>1 DEF Makes, Gains, Loses
<1>4. Says(out, chan[s].mem, chan'[s].mem)
  BY <1>2, <1>3 DEF Says
<1>5. Aside(m, s, s) /\ \A v \in User : (v \in chan[s].mem) # (v \in chan'[s].mem) => Side(s, s, Home[v])
  BY <1>1 DEF Aside, Side
<1>6. s \in Server
  OBVIOUS
<1>7. ActsBy(s, s, out)
  BY <1>2, <1>4, <1>5, <1>6 DEF ActsBy
<1> QED
  BY <1>7 DEF out, m

(* server_send                                                             *)
LEMMA SendRelays ==
  ASSUME NEW s, NEW out, SendAll(s, s, out)
  PROVE  Relays(s, s, out)
<1> SUFFICES ASSUME NEW l \in Link
             PROVE  net'[l] = IF out # <<>> /\ l[1] = s /\ Live(l, end) THEN net[l] \o out ELSE net[l]
  BY DEF Relays
<1>1. l[1] # l[2]
  BY LinkFacts
<1>2. Sent(s, s, out, l) <=> out # <<>> /\ l[1] = s /\ Live(l, end)
  BY <1>1 DEF Sent, Live
<1> QED
  BY <1>2 DEF SendAll

LEMMA ReadRelays ==
  ASSUME NEW s, NEW t, NEW out, <<t, s>> \in Link, ReadAndSend(s, t, out, <<>>)
  PROVE  /\ Relays(s, t, out)
         /\ net'[<<t, s>>] = Tail(net[<<t, s>>])
         /\ net'[<<s, t>>] = net[<<s, t>>]
<1>0. /\ s # t /\ <<s, t>> \in Link /\ <<s, t>> # <<t, s>>
      /\ <<s, t>>[1] = s /\ <<s, t>>[2] = t
  BY LinkFacts DEF Rev
<1>1. \A l : ~Sent(s, s, <<>>, l)
  BY DEF Sent
<1>2. \A l \in Link : net'[l] = IF l = <<t, s>> THEN Tail(net[l])
                               ELSE IF Sent(s, t, out, l) THEN net[l] \o out ELSE net[l]
  BY <1>1 DEF ReadAndSend
<1>3. ~Sent(s, t, out, <<s, t>>)
  BY <1>0 DEF Sent
<1>4. ASSUME NEW l \in Link, l # <<s, t>>, l # <<t, s>>
      PROVE  Sent(s, t, out, l) <=> out # <<>> /\ l[1] = s /\ Live(l, end)
  <2>1. l[1] = s => l[2] # t
    BY <1>4, LinkFacts
  <2> QED
    BY <2>1 DEF Sent, Live
<1>5. Relays(s, t, out)
  BY <1>2, <1>4 DEF Relays
<1> QED
  BY <1>0, <1>2, <1>3, <1>5

(* Who becomes a member is local, or behind the link it came over.         *)
LEMMA ActReached ==
  ASSUME NEW s, NEW f, NEW out, TypeOK', ActsBy(s, f, out), Reached(end, chan),
         f = s \/ end[<<s, f>>] = "up", end' = end
  PROVE  Reached(end', chan')
<1>1. /\ s \in Server /\ (f = s \/ <<s, f>> \in Link)
      /\ \A x \in Server : x # s => chan'[x] = chan[x]
      /\ \A u \in User : (u \in chan[s].mem) # (u \in chan'[s].mem) => Side(s, f, Home[u])
  BY DEF ActsBy
<1>2. \A x \in Server : chan'[x].mem \subseteq User
  BY DEF TypeOK, Copy
<1>3. ASSUME NEW x \in Server, NEW u \in chan'[x].mem
      PROVE  \/ Home[u] = x
             \/ \E l \in Link : l[1] = x /\ end[l] = "up" /\ Home[u] \in Behind[l]
  <2>1. CASE u \in chan[x].mem
    BY <2>1 DEF Reached
  <2>2. CASE u \notin chan[x].mem
    <3>1. x = s /\ Side(s, f, Home[u])
      BY <1>1, <1>2, <1>3, <2>2
    <3>2. CASE f = s
      BY <3>1, <3>2 DEF Side
    <3>3. CASE f # s
      BY <1>1, <3>1, <3>3 DEF Side
    <3> QED
      BY <3>2, <3>3
  <2> QED
    BY <2>1, <2>2
<1> QED
  BY <1>3 DEF Reached

(* A client acts.                                                          *)
LEMMA ClientFollowed ==
  ASSUME TypeOK, TypeOK', Followed(end, net, chan), NEW s, NEW out, ActsBy(s, s, out),
         SendAll(s, s, out), end' = end
  PROVE  Followed(end', net', chan')
<1>1. \A l \in Link : l # <<s, s>>
  BY LinkFacts
<1>2. Relays(s, s, out)
  BY SendRelays
<1>3. \A l \in Link : LinkTells(l, end', net', chan')
  BY <1>1, <1>2, OtherTells DEF Followed
<1> QED
  BY <1>3, ActReached DEF Followed

-----------------------------------------------------------------------------
(* Every step.                                                             *)

LEMMA CreateFollowed ==
  ASSUME TypeOK, TypeOK', NoneOnNone, Followed(end, net, chan),
         NEW u \in User, NEW ts \in 1 .. MaxTS, Create(u, ts)
  PROVE  NoneOnNone' /\ Followed(end', net', chan')
<1> DEFINE s == Home[u]
           c == [ts |-> ts, mem |-> {u}, op |-> {u}, on |-> {}]
<1>1. /\ s \in Server /\ chan[s].mem = {} /\ end' = end
      /\ chan' = [chan EXCEPT ![s] = c] /\ SendAll(s, s, <<NJoin(ts, {u}, {u})>>)
  BY DEF Create, NoneOnNone
<1>2. c.mem = {u} /\ c.ts # 0
  OBVIOUS
<1> HIDE DEF c
<1>3. chan'[s] = c /\ \A x \in Server : x # s => chan'[x] = chan[x]
  BY <1>1 DEF TypeOK
<1>4. NJoin(ts, {u}, {u}) \in Message
  BY MessageForms
<1>5. ActsBy(s, s, <<NJoin(ts, {u}, {u})>>)
  BY <1>1, <1>2, <1>3, <1>4, JoinActs
<1>6. NoneOnNone'
  BY <1>2, <1>3 DEF NoneOnNone
<1> QED
  BY <1>1, <1>5, <1>6, ClientFollowed

LEMMA JoinFollowed ==
  ASSUME TypeOK, TypeOK', NoneOnNone, Followed(end, net, chan), NEW u \in User, Join(u)
  PROVE  NoneOnNone' /\ Followed(end', net', chan')
<1> DEFINE s == Home[u]
           c == chan[s]
           d == [c EXCEPT !.mem = c.mem \cup {u}]
<1>1. /\ s \in Server /\ c \in Copy /\ c.ts # 0 /\ end' = end
      /\ chan' = [chan EXCEPT ![s] = d] /\ SendAll(s, s, <<NJoin(c.ts, {u}, {})>>)
  BY DEF Join, TypeOK
<1>2. d.mem = c.mem \cup {u} /\ d.ts # 0 /\ c.ts \in 1 .. MaxTS
  BY <1>1 DEF Copy
<1> HIDE DEF d
<1>3. chan'[s] = d /\ \A x \in Server : x # s => chan'[x] = chan[x]
  BY <1>1 DEF TypeOK
<1>4. NJoin(c.ts, {u}, {}) \in Message
  BY <1>2, MessageForms
<1>5. ActsBy(s, s, <<NJoin(c.ts, {u}, {})>>)
  BY <1>2, <1>3, <1>4, JoinActs
<1>6. NoneOnNone'
  BY <1>2, <1>3 DEF NoneOnNone
<1> QED
  BY <1>1, <1>5, <1>6, ClientFollowed

LEMMA IssueFollowed ==
  ASSUME TypeOK, TypeOK', NoneOnNone, Followed(end, net, chan),
         NEW u \in User, NEW m \in Message, Aside(m, Home[u], Home[u]), Issue(u, m)
  PROVE  NoneOnNone' /\ Followed(end', net', chan')
<1> DEFINE s == Home[u]
           r == Handle(s, chan[s], m)
<1>1. /\ s \in Server /\ end' = end
      /\ chan' = [chan EXCEPT ![s] = r.copy] /\ SendAll(s, s, r.relay)
  BY DEF Issue
<1>2. ActsBy(s, s, r.relay) /\ NoneOnNone'
  BY <1>1, HandleActs
<1> HIDE DEF r
<1> QED
  BY <1>1, <1>2, ClientFollowed

LEMMA ClientStepFollowed ==
  ASSUME TypeOK, TypeOK', NoneOnNone, Followed(end, net, chan),
         NEW u \in User, ClientStep(u), ~kicked'
  PROVE  NoneOnNone' /\ Followed(end', net', chan')
<1> DEFINE Goal == NoneOnNone' /\ Followed(end', net', chan')
<1>1. ASSUME NEW ts \in 1 .. MaxTS, Create(u, ts) PROVE Goal
  BY <1>1, CreateFollowed
<1>2. ASSUME Join(u) PROVE Goal
  BY <1>2, JoinFollowed
<1>3. ASSUME Part(u) PROVE Goal
  <2>1. PartMsg(u) \in Message /\ Issue(u, PartMsg(u))
    BY <1>3, ClientMessages DEF Part
  <2>2. Aside(PartMsg(u), Home[u], Home[u])
    BY DEF Aside, PartMsg, Side
  <2> QED
    BY <2>1, <2>2, IssueFollowed
<1>4. ASSUME NEW v \in User, Kick(u, v) PROVE Goal
  <2>1. kicked'
    BY <1>4 DEF Kick, Issue, KickMsg
  <2> QED
    BY <2>1
<1>5. ASSUME NEW w \in {"+", "-"}, NEW m \in Mode, SetMode(u, w, m) PROVE Goal
  <2>1. ModeMsg(u, w, m) \in Message /\ Issue(u, ModeMsg(u, w, m))
    BY <1>5, ClientMessages DEF SetMode
  <2>2. Aside(ModeMsg(u, w, m), Home[u], Home[u])
    BY DEF Aside, ModeMsg
  <2> QED
    BY <2>1, <2>2, IssueFollowed
<1>6. ASSUME NEW w \in {"+", "-"}, NEW v \in User, SetOp(u, w, v) PROVE Goal
  <2>1. OpMsg(u, w, v) \in Message /\ Issue(u, OpMsg(u, w, v))
    BY <1>6, ClientMessages DEF SetOp
  <2>2. Aside(OpMsg(u, w, v), Home[u], Home[u])
    BY DEF Aside, OpMsg
  <2> QED
    BY <2>1, <2>2, IssueFollowed
<1> HIDE DEF Goal
<1>7. Goal
  BY <1>1, <1>2, <1>3, <1>4, <1>5, <1>6 DEF ClientStep
<1> QED
  BY <1>7 DEF Goal

(* A message comes over a link.                                            *)
LEMMA ReceiveFollowed ==
  ASSUME TypeOK, TypeOK', NoneOnNone, Followed(end, net, chan),
         NEW s, NEW t, <<t, s>> \in Link, Receive(s, t)
  PROVE  NoneOnNone' /\ Followed(end', net', chan')
<1> DEFINE q == net[<<t, s>>]
           m == Head(q)
           r == Handle(s, chan[s], m)
<1>1. /\ s \in Server /\ t \in Server /\ s # t /\ <<s, t>> \in Link
      /\ Rev(<<t, s>>) = <<s, t>> /\ Rev(<<s, t>>) = <<t, s>>
  BY LinkFacts DEF Rev
<1>2. /\ end[<<s, t>>] = "up" /\ q # <<>> /\ end' = end
      /\ chan' = [chan EXCEPT ![s] = r.copy] /\ ReadAndSend(s, t, r.relay, <<>>)
  BY DEF Receive, CanRead
<1>3. m \in Message /\ q \in Seq(Message)
  BY ReadMessage DEF Receive, TypeOK, LinksOK
<1>4. Aside(m, s, t)
  <2>1. \A i \in 1 .. Len(q) : Outward(q[i], <<t, s>>)
    BY DEF Followed, LinkTells
  <2>2. 1 \in 1 .. Len(q) /\ m = q[1]
    BY <1>2, <1>3
  <2> HIDE DEF q, m
  <2>3. Outward(m, <<t, s>>)
    BY <2>1, <2>2
  <2> QED
    BY <1>1, <2>3 DEF Outward, Aside, Side
<1>5. /\ ActsBy(s, t, r.relay) /\ NoneOnNone'
      /\ \A u \in User : Home[u] # s => Makes(m, u, chan[s].mem, chan'[s].mem)
  <2> HIDE DEF m
  <2> QED
    BY <1>1, <1>2, <1>3, <1>4, HandleActs
<1> DEFINE out == r.relay
<1> HIDE DEF r
<1>6. /\ Relays(s, t, out)
      /\ net'[<<t, s>>] = Tail(net[<<t, s>>]) /\ net'[<<s, t>>] = net[<<s, t>>]
  BY <1>2, ReadRelays
<1>7. LinkTells(<<t, s>>, end, net, chan) /\ LinkTells(<<s, t>>, end, net, chan)
  BY <1>1 DEF Followed
<1>8. LinkTells(<<t, s>>, end', net', chan') /\ LinkTells(<<s, t>>, end', net', chan')
  <2> HIDE DEF out
  <2> QED
    BY <1>1, <1>2, <1>5, <1>6, <1>7, ReadTells DEF out
<1>9. ASSUME NEW l \in Link, l # <<s, t>>, l # <<t, s>> PROVE LinkTells(l, end', net', chan')
  <2>1. LinkTells(l, end, net, chan) /\ end'[l] = end[l] /\ end'[Rev(l)] = end[Rev(l)]
    BY <1>2 DEF Followed
  <2> QED
    BY <1>5, <1>6, <1>9, <2>1, OtherTells
<1>10. Reached(end', chan')
  BY <1>2, <1>5, ActReached DEF Followed
<1> QED
  BY <1>5, <1>8, <1>9, <1>10 DEF Followed

(* Links whose ends, queue and copies stay.                                *)
LEMMA RestTells ==
  ASSUME NEW s, NEW t, NEW l \in Link, l # <<s, t>>, l # <<t, s>>, LinkTells(l, end, net, chan),
         \A k \in Link : k # <<s, t>> /\ k # <<t, s>> => end'[k] = end[k] /\ net'[k] = net[k],
         chan' = chan
  PROVE  LinkTells(l, end', net', chan')
<1>1. Rev(l) \in Link /\ Rev(Rev(l)) = l
  BY LinkFacts
<1>2. Rev(l) # <<s, t>> /\ Rev(l) # <<t, s>>
  BY <1>1 DEF Rev
<1>3. end'[l] = end[l] /\ end'[Rev(l)] = end[Rev(l)] /\ net'[l] = net[l]
  BY <1>1, <1>2
<1> QED
  BY <1>3 DEF LinkTells, Live

LEMMA OpenFollowed ==
  ASSUME TypeOK, Followed(end, net, chan), NEW s, NEW t, <<s, t>> \in Link, Open(s, t)
  PROVE  chan' = chan /\ Followed(end', net', chan')
<1>1. /\ <<t, s>> \in Link /\ <<s, t>> # <<t, s>>
      /\ Rev(<<s, t>>) = <<t, s>> /\ Rev(<<t, s>>) = <<s, t>>
  BY LinkFacts DEF Rev
<1>2. /\ end[<<s, t>>] = "down" /\ end[<<t, s>>] = "down" /\ chan' = chan
      /\ end' = [end EXCEPT ![<<s, t>>] = "open", ![<<t, s>>] = "open"]
      /\ net' = [net EXCEPT ![<<s, t>>] = <<>>, ![<<t, s>>] = <<>>]
  BY DEF Open, OpenLink
<1>3. /\ end'[<<s, t>>] = "open" /\ end'[<<t, s>>] = "open"
      /\ net'[<<s, t>>] = <<>> /\ net'[<<t, s>>] = <<>>
      /\ \A k \in Link : k # <<s, t>> /\ k # <<t, s>> => end'[k] = end[k] /\ net'[k] = net[k]
  BY <1>1, <1>2 DEF TypeOK, LinksOK
<1>4. ASSUME NEW l \in Link, l = <<s, t>> \/ l = <<t, s>> PROVE LinkTells(l, end', net', chan')
  <2>1. LinkTells(l, end, net, chan) /\ end[Rev(l)] = "down"
    BY <1>1, <1>2, <1>4 DEF Followed
  <2>2. /\ net'[l] = <<>> /\ end'[l] = "open"
        /\ \A u \in chan[l[2]].mem : Home[u] \notin Behind[Rev(l)]
    BY <1>3, <1>4, <2>1 DEF LinkTells
  <2>3. \A i \in 1 .. Len(<<>>) : FALSE
    OBVIOUS
  <2> QED
    BY <1>2, <2>2, <2>3 DEF LinkTells, Live
<1>5. ASSUME NEW l \in Link, l # <<s, t>>, l # <<t, s>> PROVE LinkTells(l, end', net', chan')
  BY <1>2, <1>3, <1>5, RestTells, ZenonT(60) DEF Followed
<1>6. \A l \in Link : end[l] = "up" => end'[l] = "up"
  BY <1>2, <1>3
<1>7. Reached(end', chan')
  BY <1>2, <1>6, ZenonT(60) DEF Followed, Reached
<1> QED
  BY <1>2, <1>4, <1>5, <1>7 DEF Followed

(* chanuser_burst: to who has none of them it brings the members.          *)
LEMMA BurstMembers ==
  ASSUME NEW c \in Copy, c.ts = 0 => c.mem = {}
  PROVE  /\ \A u \in User, K \in SUBSET User : u \notin K => (After(Burst(c), u, K) <=> u \in c.mem)
         /\ \A i \in 1 .. Len(Burst(c)) : /\ Burst(c)[i].cmd \in {"NJOIN", "NMODE"}
                                          /\ Burst(c)[i].cmd = "NJOIN" => Burst(c)[i].users = c.mem
<1> DEFINE a == NJoin(c.ts, c.mem, c.op)
           b == NMode(c.ts, c.on)
           B == Burst(c)
<1>1. a.cmd = "NJOIN" /\ a.users = c.mem /\ b.cmd = "NMODE"
  BY DEF NJoin, NMode
<1>2. /\ c.ts = 0 => B = <<>>
      /\ c.ts # 0 => B = (IF c.mem = {} THEN <<>> ELSE <<a>>) \o (IF c.on = {} THEN <<>> ELSE <<b>>)
  BY DEF Burst
<1>3. c.ts # 0 => a \in Message /\ b \in Message
  BY MessageForms DEF Copy
<1> HIDE DEF a, b, B
<1>4. \/ B = <<>> /\ c.mem = {}
      \/ B = <<>> \o <<a>> /\ a \in Message
      \/ B = <<>> \o <<b>> /\ c.mem = {} /\ b \in Message
      \/ B = (<<>> \o <<a>>) \o <<b>> /\ a \in Message /\ b \in Message
  <2>1. CASE c.ts = 0
    BY <1>2, <2>1
  <2>2. CASE c.ts # 0 /\ c.mem = {} /\ c.on = {}
    BY <1>2, <2>2
  <2>3. CASE c.ts # 0 /\ c.mem # {} /\ c.on = {}
    BY <1>2, <1>3, <2>3
  <2>4. CASE c.ts # 0 /\ c.mem = {} /\ c.on # {}
    BY <1>2, <1>3, <2>4
  <2>5. CASE c.ts # 0 /\ c.mem # {} /\ c.on # {}
    <3>1. <<>> \o <<a>> = <<a>>
      OBVIOUS
    <3>2. B = (<<>> \o <<a>>) \o <<b>>
      BY <1>2, <2>5, <3>1
    <3> QED
      BY <1>3, <2>5, <3>2
  <2> QED
    BY <2>1, <2>2, <2>3, <2>4, <2>5
<1>5. \A u : /\ Gains(a, u) <=> u \in c.mem
             /\ ~Loses(a, u) /\ ~Gains(b, u) /\ ~Loses(b, u)
  BY <1>1 DEF Gains, Loses
<1>6. ASSUME NEW u \in User, NEW K \in SUBSET User, u \notin K PROVE After(B, u, K) <=> u \in c.mem
  <2>0. ~After(<<>>, u, K) /\ <<>> \in Seq(Message)
    BY <1>6, AfterNothing
  <2>1. CASE B = <<>> /\ c.mem = {}
    BY <2>0, <2>1
  <2>2. ASSUME a \in Message PROVE After(<<>> \o <<a>>, u, K) <=> u \in c.mem
    BY <1>5, <2>0, <2>2, AfterSend
  <2>3. ASSUME b \in Message PROVE ~After(<<>> \o <<b>>, u, K)
    BY <1>5, <2>0, <2>3, AfterSend
  <2>4. ASSUME a \in Message, b \in Message
        PROVE  After((<<>> \o <<a>>) \o <<b>>, u, K) <=> u \in c.mem
    <3>1. <<>> \o <<a>> \in Seq(Message)
      BY <2>4
    <3> QED
      BY <1>5, <2>2, <2>4, <3>1, AfterSend
  <2> QED
    BY <1>4, <2>1, <2>2, <2>3, <2>4
<1>7. \A i \in 1 .. Len(B) : B[i] = a \/ B[i] = b
  BY <1>4
<1>8. \A i \in 1 .. Len(B) : /\ B[i].cmd \in {"NJOIN", "NMODE"}
                             /\ B[i].cmd = "NJOIN" => B[i].users = c.mem
  BY <1>1, <1>7
<1> QED
  BY <1>6, <1>8 DEF B

LEMMA RegisterFollowed ==
  ASSUME TypeOK, NoneOnNone, Followed(end, net, chan), NEW s, NEW t, <<s, t>> \in Link, Register(s, t)
  PROVE  chan' = chan /\ Followed(end', net', chan')
<1> DEFINE c == chan[s]
           B == Burst(c)
<1>1. /\ <<t, s>> \in Link /\ <<s, t>> # <<t, s>> /\ s \in Server /\ t \in Server
      /\ Rev(<<s, t>>) = <<t, s>> /\ Rev(<<t, s>>) = <<s, t>>
      /\ <<s, t>>[1] = s /\ <<s, t>>[2] = t /\ <<t, s>>[1] = t /\ <<t, s>>[2] = s
      /\ s \in Behind[<<t, s>>]
  BY LinkFacts DEF Rev
<1>2. /\ end[<<s, t>>] = "open" /\ chan' = chan
      /\ end' = [end EXCEPT ![<<s, t>>] = "up"]
      /\ net' = [net EXCEPT ![<<s, t>>] = IF end[<<t, s>>] = "down" THEN net[<<s, t>>]
                                          ELSE net[<<s, t>>] \o B]
  BY DEF Register, RegisterLink
<1>3. LinkTells(<<s, t>>, end, net, chan) /\ LinkTells(<<t, s>>, end, net, chan) /\ Reached(end, chan)
  BY <1>1 DEF Followed
<1>4. /\ net[<<s, t>>] = <<>> /\ chan[t].mem \in SUBSET User
      /\ \A u \in chan[t].mem : Home[u] \notin Behind[<<t, s>>]
  BY <1>1, <1>2, <1>3 DEF LinkTells, TypeOK, Copy
<1>5. \A u \in c.mem : Home[u] \in Behind[<<t, s>>]
  <2> SUFFICES ASSUME NEW u \in c.mem, Home[u] # s PROVE Home[u] \in Behind[<<t, s>>]
    BY <1>1
  <2>1. PICK k \in Link : k[1] = s /\ end[k] = "up" /\ Home[u] \in Behind[k]
    BY <1>1, <1>3 DEF Reached
  <2>2. k = <<s, k[2]>>
    BY <2>1, LinkFacts
  <2>3. k[2] # t
    BY <1>2, <2>1, <2>2
  <2>4. Behind[k] \subseteq Behind[<<t, s>>]
    BY <1>1, <2>1, <2>3, LinkFacts
  <2> QED
    BY <2>1, <2>4
<1>6. /\ B \in Seq(Message)
      /\ \A u \in User, K \in SUBSET User : u \notin K => (After(B, u, K) <=> u \in c.mem)
      /\ \A i \in 1 .. Len(B) : /\ B[i].cmd \in {"NJOIN", "NMODE"}
                                /\ B[i].cmd = "NJOIN" => B[i].users = c.mem
  <2>1. c \in Copy /\ (c.ts = 0 => c.mem = {})
    BY <1>1 DEF TypeOK, NoneOnNone
  <2> QED
    BY <2>1, BurstType, BurstMembers
<1> HIDE DEF B
<1>7. /\ end'[<<s, t>>] = "up" /\ end'[<<t, s>>] = end[<<t, s>>] /\ net'[<<t, s>>] = net[<<t, s>>]
      /\ net'[<<s, t>>] = IF end[<<t, s>>] = "down" THEN <<>> ELSE B
      /\ \A k \in Link : k # <<s, t>> /\ k # <<t, s>> => end'[k] = end[k] /\ net'[k] = net[k]
  <2>1. <<>> \o B = B
    BY <1>6
  <2> QED
    BY <1>1, <1>2, <1>4, <2>1 DEF TypeOK, LinksOK
<1>8. LinkTells(<<s, t>>, end', net', chan')
  <2>1. \A i \in 1 .. Len(B) : Outward(B[i], <<s, t>>)
    BY <1>1, <1>5, <1>6 DEF Outward
  <2>2. \A i \in 1 .. Len(net'[<<s, t>>]) : Outward(net'[<<s, t>>][i], <<s, t>>)
    <3>1. CASE end[<<t, s>>] = "down"
      BY <1>7, <3>1
    <3>2. CASE end[<<t, s>>] # "down"
      BY <1>7, <2>1, <3>2
    <3> QED
      BY <3>1, <3>2
  <2>3. Live(<<s, t>>, end') => net'[<<s, t>>] = B
    BY <1>1, <1>7 DEF Live
  <2>4. Live(<<s, t>>, end') => \A u \in User : Home[u] \in Behind[<<t, s>>] =>
           (After(net'[<<s, t>>], u, chan[t].mem) <=> u \in chan[s].mem)
    BY <1>4, <1>6, <2>3
  <2>5. end'[<<t, s>>] = "down" => net'[<<s, t>>] = <<>>
    BY <1>7
  <2> QED
    BY <1>1, <1>2, <1>4, <1>7, <2>2, <2>4, <2>5 DEF LinkTells
<1>9. LinkTells(<<t, s>>, end', net', chan')
  <2>1. Live(<<t, s>>, end') => Live(<<t, s>>, end)
    BY <1>1, <1>2, <1>7 DEF Live
  <2> QED
    BY <1>1, <1>2, <1>3, <1>7, <2>1 DEF LinkTells
<1>10. ASSUME NEW l \in Link, l # <<s, t>>, l # <<t, s>> PROVE LinkTells(l, end', net', chan')
  <2>1. LinkTells(l, end, net, chan)
    BY DEF Followed
  <2>2. \A k \in Link : k # <<s, t>> /\ k # <<t, s>> => end'[k] = end[k] /\ net'[k] = net[k]
    BY <1>7
  <2> QED
    BY <1>2, <1>10, <2>1, <2>2, RestTells
<1>11. \A l \in Link : end[l] = "up" => end'[l] = "up"
  BY <1>7
<1>12. Reached(end', chan')
  BY <1>2, <1>3, <1>11 DEF Reached
<1> QED
  BY <1>2, <1>8, <1>9, <1>10, <1>12 DEF Followed

(* server_split at one end of a link.                                      *)
LEMMA CloseFollowed ==
  ASSUME TypeOK, TypeOK', NoneOnNone, Followed(end, net, chan),
         NEW s, NEW t, <<s, t>> \in Link, Close(s, t)
  PROVE  NoneOnNone' /\ Followed(end', net', chan')
<1> DEFINE c == chan[s]
           G == Behind[<<s, t>>]
           d == Forget(c, G)
           m == NQuit(<<s, t>>)
           out == IF end[<<s, t>>] = "up" THEN <<m>> ELSE <<>>
<1>1. /\ <<t, s>> \in Link /\ <<s, t>> # <<t, s>> /\ s \in Server /\ t \in Server /\ s # t
      /\ Rev(<<s, t>>) = <<t, s>> /\ Rev(<<t, s>>) = <<s, t>>
      /\ <<s, t>>[1] = s /\ <<s, t>>[2] = t /\ <<t, s>>[1] = t /\ <<t, s>>[2] = s
  BY LinkFacts DEF Rev
<1>2. /\ end[<<s, t>>] # "down"
      /\ end' = [end EXCEPT ![<<s, t>>] = "down"]
      /\ net' = [l \in Link |-> IF l = <<t, s>> THEN <<>>
                                ELSE IF Sent(s, t, out, l) THEN net[l] \o out
                                ELSE net[l]]
      /\ chan' = IF end[<<s, t>>] = "up" THEN [chan EXCEPT ![s] = d] ELSE chan
  BY DEF Close, CloseLink
<1>3. LinkTells(<<s, t>>, end, net, chan) /\ LinkTells(<<t, s>>, end, net, chan) /\ Reached(end, chan)
  BY <1>1 DEF Followed
<1>4. /\ m.cmd = "NQUIT" /\ m.link = <<s, t>> /\ m \in Message
  BY DEF NQuit, Message
<1>5. d.mem = {u \in c.mem : Home[u] \notin G} /\ (d.ts = 0 => d.mem = {})
  BY <1>1, ForgetMembers DEF TypeOK, NoneOnNone
<1> HIDE DEF d, m
<1>6. /\ out \in Seq(Message) /\ (end[<<s, t>>] # "up" => out = <<>>)
      /\ end[<<s, t>>] = "up" => out = <<out[1]>> /\ out # <<>> /\ out[1] = m
  BY <1>4
<1> HIDE DEF out
<1>7. \A x \in Server : x # s => chan'[x] = chan[x]
  BY <1>1, <1>2 DEF TypeOK
<1>8. chan'[s].mem = {u \in c.mem : Home[u] \notin G}
  <2>1. CASE end[<<s, t>>] = "up"
    BY <1>1, <1>2, <1>5, <2>1 DEF TypeOK
  <2>2. CASE end[<<s, t>>] # "up"
    <3>1. \A u \in c.mem : Home[u] \notin G
      BY <1>1, <1>3, <2>2 DEF LinkTells
    <3>2. chan'[s] = c
      BY <1>2, <2>2
    <3> QED
      BY <3>1, <3>2
  <2> QED
    BY <2>1, <2>2
<1>9. NoneOnNone'
  <2>1. end[<<s, t>>] = "up" => chan'[s] = d
    BY <1>1, <1>2 DEF TypeOK
  <2>2. end[<<s, t>>] # "up" => chan'[s] = c
    BY <1>2
  <2> QED
    BY <1>1, <1>5, <1>7, <2>1, <2>2 DEF NoneOnNone
<1>10. ActsBy(s, t, out)
  <2>1. \A u \in User : (u \in c.mem) # (u \in chan'[s].mem) => Side(s, t, Home[u])
    BY <1>1, <1>8 DEF Side
  <2>2. out # <<>> => out[1] = m /\ Aside(out[1], s, t)
    BY <1>1, <1>4, <1>6 DEF Aside
  <2>3. Says(out, c.mem, chan'[s].mem)
    <3>1. CASE end[<<s, t>>] = "up"
      <4>1. \A u : ~Gains(m, u) /\ (Loses(m, u) <=> Home[u] \in G)
        BY <1>4 DEF Gains, Loses
      <4>2. \A u \in User : Makes(m, u, c.mem, chan'[s].mem)
        BY <1>8, <4>1 DEF Makes
      <4> QED
        BY <1>6, <3>1, <4>2 DEF Says
    <3>2. CASE end[<<s, t>>] # "up"
      BY <1>2, <1>6, <3>2 DEF Says
    <3> QED
      BY <3>1, <3>2
  <2> QED
    BY <1>1, <1>6, <1>7, <2>1, <2>2, <2>3 DEF ActsBy
<1>11. /\ end'[<<s, t>>] = "down" /\ \A l \in Link : l # <<s, t>> => end'[l] = end[l]
       /\ net'[<<t, s>>] = <<>> /\ net'[<<s, t>>] = net[<<s, t>>]
  <2>1. ~Sent(s, t, out, <<s, t>>)
    BY <1>1 DEF Sent
  <2> QED
    BY <1>1, <1>2, <2>1 DEF TypeOK, LinksOK
<1>12. Relays(s, t, out)
  <2> SUFFICES ASSUME NEW l \in Link, l # <<s, t>>, l # <<t, s>>
               PROVE  net'[l] = IF out # <<>> /\ l[1] = s /\ Live(l, end) THEN net[l] \o out ELSE net[l]
    BY DEF Relays
  <2>1. l[1] = s => l[2] # t
    BY LinkFacts
  <2>2. Sent(s, t, out, l) <=> out # <<>> /\ l[1] = s /\ Live(l, end)
    BY <2>1 DEF Sent, Live
  <2> QED
    BY <1>2, <2>2
<1>13. LinkTells(<<t, s>>, end', net', chan')
  <2>1. \A i \in 1 .. Len(<<>>) : FALSE
    OBVIOUS
  <2>2. \A u \in chan'[s].mem : Home[u] \notin G
    BY <1>8
  <2>3. ~Live(<<t, s>>, end')
    BY <1>1, <1>11 DEF Live
  <2> QED
    BY <1>1, <1>11, <2>1, <2>2, <2>3 DEF LinkTells
<1>14. LinkTells(<<s, t>>, end', net', chan')
  <2>1. end'[<<t, s>>] = end[<<t, s>>] /\ chan'[t] = chan[t]
    BY <1>1, <1>7, <1>11
  <2>2. ~Live(<<s, t>>, end')
    BY <1>11 DEF Live
  <2> QED
    BY <1>1, <1>3, <1>11, <2>1, <2>2 DEF LinkTells
<1>15. ASSUME NEW l \in Link, l # <<s, t>>, l # <<t, s>> PROVE LinkTells(l, end', net', chan')
  <2>1. Rev(l) \in Link /\ Rev(Rev(l)) = l
    BY LinkFacts
  <2>2. Rev(l) # <<s, t>>
    BY <1>1, <1>15, <2>1
  <2>3. end'[l] = end[l] /\ end'[Rev(l)] = end[Rev(l)] /\ LinkTells(l, end, net, chan)
    BY <1>11, <1>15, <2>1, <2>2 DEF Followed
  <2> QED
    BY <1>10, <1>12, <1>15, <2>3, OtherTells
<1>16. Reached(end', chan')
  <2>1. ASSUME NEW x \in Server, NEW u \in chan'[x].mem, Home[u] # x
        PROVE  \E l \in Link : l[1] = x /\ end'[l] = "up" /\ Home[u] \in Behind[l]
    <3>1. u \in chan[x].mem /\ (x = s => Home[u] \notin G)
      BY <1>7, <1>8, <2>1
    <3>2. PICK l \in Link : l[1] = x /\ end[l] = "up" /\ Home[u] \in Behind[l]
      BY <1>3, <2>1, <3>1 DEF Reached
    <3>3. l # <<s, t>>
      BY <1>1, <3>1, <3>2
    <3> QED
      BY <1>11, <3>2, <3>3
  <2> QED
    BY <2>1 DEF Reached
<1> QED
  BY <1>9, <1>13, <1>14, <1>15, <1>16 DEF Followed

-----------------------------------------------------------------------------
(* Always.                                                                 *)

MemberInv == TypeOK /\ (~kicked => NoneOnNone /\ Followed(end, net, chan))

LEMMA MemberInit == Init => MemberInv
<1> SUFFICES ASSUME Init PROVE MemberInv
  OBVIOUS
<1>1. TypeOK
  BY InitType
<1>2. \A s \in Server : chan[s].mem = {}
  BY DEF Init, NoChan
<1>3. ASSUME NEW l \in Link PROVE LinkTells(l, end, net, chan)
  <2>1. net[l] = <<>> /\ chan[l[1]].mem = {} /\ chan[l[2]].mem = {}
    BY <1>2, LinkFacts DEF Init, LinkInit
  <2>2. \A i \in 1 .. Len(<<>>) : FALSE
    OBVIOUS
  <2>3. \A u \in User : After(<<>>, u, {}) <=> u \in {}
    BY AfterNothing
  <2> QED
    BY <2>1, <2>2, <2>3 DEF LinkTells
<1>4. NoneOnNone /\ Reached(end, chan)
  BY <1>2 DEF NoneOnNone, Reached
<1> QED
  BY <1>1, <1>3, <1>4 DEF MemberInv, Followed

LEMMA MemberStep ==
  ASSUME MemberInv, [Next]_vars
  PROVE  MemberInv'
<1>1. TypeOK /\ TypeOK'
  BY TypeStep DEF MemberInv
<1> SUFFICES ASSUME ~kicked' PROVE NoneOnNone' /\ Followed(end', net', chan')
  BY <1>1 DEF MemberInv
<1>2. ASSUME NEW u \in User, ClientStep(u) PROVE ~kicked
  BY <1>2 DEF ClientStep, Create, Join, Part, Kick, SetMode, SetOp, Issue
<1>3. ASSUME NEW l \in Link, LinkStep(l[1], l[2]) PROVE ~kicked
  BY <1>3 DEF LinkStep, Receive, Open, Register, Close
<1>4. ~kicked
  BY <1>2, <1>3 DEF Next, vars
<1>5. NoneOnNone /\ Followed(end, net, chan)
  BY <1>4 DEF MemberInv
<1>6. ASSUME NEW u \in User, ClientStep(u) PROVE NoneOnNone' /\ Followed(end', net', chan')
  BY <1>1, <1>5, <1>6, ClientStepFollowed
<1>7. ASSUME NEW l \in Link, LinkStep(l[1], l[2]) PROVE NoneOnNone' /\ Followed(end', net', chan')
  <2> DEFINE s == l[1]
             t == l[2]
  <2>1. <<s, t>> \in Link /\ <<t, s>> \in Link
    BY LinkFacts DEF Rev
  <2>2. chan' = chan => NoneOnNone'
    BY <1>5 DEF NoneOnNone
  <2>3. Receive(s, t) \/ Open(s, t) \/ Register(s, t) \/ Close(s, t)
    BY <1>7 DEF LinkStep
  <2> HIDE DEF s, t
  <2>4. CASE Receive(s, t)
    BY <1>1, <1>5, <2>1, <2>4, ReceiveFollowed
  <2>5. CASE Open(s, t)
    BY <1>1, <1>5, <2>1, <2>2, <2>5, OpenFollowed
  <2>6. CASE Register(s, t)
    BY <1>1, <1>5, <2>1, <2>2, <2>6, RegisterFollowed
  <2>7. CASE Close(s, t)
    BY <1>1, <1>5, <2>1, <2>7, CloseFollowed
  <2> QED
    BY <2>3, <2>4, <2>5, <2>6, <2>7
<1>8. CASE UNCHANGED vars
  <2>1. chan' = chan /\ end' = end /\ net' = net
    BY <1>8 DEF vars, links
  <2> QED
    BY <1>5, <2>1 DEF NoneOnNone
<1> QED
  BY <1>6, <1>7, <1>8 DEF Next

(* At a link, members are at home on one side or the other.                *)
LEMMA NobodyBeyond ==
  ASSUME Reached(end, chan), NEW l \in Link, NEW u \in chan[l[1]].mem
  PROVE  Home[u] \in Behind[l] \/ Home[u] \in Behind[Rev(l)]
<1> DEFINE s == l[1]
<1>1. /\ s \in Server /\ l = <<s, l[2]>> /\ Rev(l) \in Link /\ Rev(l)[1] = l[2] /\ Rev(l)[2] = s
      /\ s \in Behind[Rev(l)]
  BY LinkFacts
<1>2. \A k \in Link : k[1] = s /\ k[2] # l[2] => Behind[k] \subseteq Behind[Rev(l)]
  BY <1>1, LinkFacts, ZenonT(60)
<1>3. Home[u] = s \/ \E k \in Link : k[1] = s /\ Home[u] \in Behind[k]
  BY <1>1 DEF Reached
<1>4. ASSUME NEW k \in Link, k[1] = s, Home[u] \in Behind[k]
      PROVE  Home[u] \in Behind[l] \/ Home[u] \in Behind[Rev(l)]
  <2>1. k = <<k[1], k[2]>>
    BY LinkFacts
  <2>2. k[2] = l[2] => k = l
    BY <1>1, <1>4, <2>1
  <2> QED
    BY <1>2, <1>4, <2>2
<1> QED
  BY <1>1, <1>3, <1>4

LEMMA MembersAgreeThen == MemberInv => MembersAgree
<1> SUFFICES ASSUME MemberInv, ~kicked, NEW l \in Link, Settled(l)
             PROVE  chan[l[1]].mem = chan[l[2]].mem
  BY DEF MembersAgree
<1>1. TypeOK /\ Followed(end, net, chan)
  BY DEF MemberInv
<1>2. /\ l[1] \in Server /\ l[2] \in Server /\ Rev(l) \in Link
      /\ Rev(Rev(l)) = l /\ Rev(l)[1] = l[2] /\ Rev(l)[2] = l[1]
  BY LinkFacts
<1>3. net[l] = <<>> /\ net[Rev(l)] = <<>> /\ Live(l, end) /\ Live(Rev(l), end)
  BY <1>2 DEF Settled, Idle, Live
<1>4. ASSUME NEW k \in Link, net[k] = <<>>, Live(k, end),
             NEW u \in User, Home[u] \in Behind[Rev(k)]
      PROVE  u \in chan[k[2]].mem <=> u \in chan[k[1]].mem
  <2>1. After(<<>>, u, chan[k[2]].mem) <=> u \in chan[k[1]].mem
    BY <1>1, <1>4 DEF Followed, LinkTells
  <2> QED
    BY <2>1, AfterNothing
<1>5. ASSUME NEW u \in User PROVE u \in chan[l[1]].mem <=> u \in chan[l[2]].mem
  <2>1. CASE Home[u] \in Behind[Rev(l)]
    BY <1>3, <1>4, <2>1
  <2>2. CASE Home[u] \in Behind[l]
    BY <1>2, <1>3, <1>4, <2>2
  <2>3. CASE Home[u] \notin Behind[l] /\ Home[u] \notin Behind[Rev(l)]
    <3>1. u \notin chan[l[1]].mem
      BY <1>1, <2>3, NobodyBeyond DEF Followed
    <3>2. u \notin chan[l[2]].mem
      BY <1>1, <1>2, <2>3, NobodyBeyond DEF Followed
    <3> QED
      BY <3>1, <3>2
  <2> QED
    BY <2>1, <2>2, <2>3
<1>6. chan[l[1]].mem \subseteq User /\ chan[l[2]].mem \subseteq User
  BY <1>1, <1>2 DEF TypeOK, Copy
<1> QED
  BY <1>5, <1>6

(* MembersAgree, for every network: whatever joins, parts, bursts, relays  *)
(* and broken links cross, until somebody is kicked, servers whose link is *)
(* up and quiet have the same members (ms_njoin, ms_part, server_split).   *)
THEOREM MembersAlwaysAgree == Spec => []MembersAgree
<1>1. Init => MemberInv
  BY MemberInit
<1>2. MemberInv /\ [Next]_vars => MemberInv'
  BY MemberStep
<1>3. MemberInv => MembersAgree
  BY MembersAgreeThen
<1> QED
  BY <1>1, <1>2, <1>3, PTL DEF Spec
=============================================================================
