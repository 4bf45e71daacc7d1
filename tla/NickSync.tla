------------------------------ MODULE NickSync ------------------------------
(***************************************************************************)
(* Users and their nicknames as the servers of a network know them.        *)
(*                                                                         *)
(* A server introduces its users by NUSER, with a nickname and the time    *)
(* the user took it; a nickname is changed by NICK.  Two users may take    *)
(* one nickname at the same time on different servers.  A server that gets *)
(* the NUSER of a nickname it has already, held since no later than the    *)
(* newcomer, gives the newcomer another one and tells the newcomer's side  *)
(* by NBOUNCE; otherwise it lets both have it and waits for the other side *)
(* to come to the opposite conclusion and bounce.                          *)
(*                                                                         *)
(* Covered: lclient_login and lclient_register, NICK and QUIT of local     *)
(* clients, NUSER, NICK, NBOUNCE, QUIT, NQUIT and bursts of links that     *)
(* understand CAP_UID, where users are named by an identifier that never   *)
(* changes.  A user that quits does not come back: it would be another     *)
(* user with another identifier.                                           *)
(***************************************************************************)
EXTENDS ServerLinks, FiniteSets

CONSTANTS
  User,
  Home,     \* user -> its server
  Name,     \* nicknames
  Choice,   \* the nicknames clients ask for
  Rotation, \* nickname -> its first letter moved to the end
  MaxTS,    \* timestamps are 1 .. MaxTS
  Stamp,    \* server -> what its clock may say, among 1 .. MaxTS
  Waits,    \* lc_cookie or lc_sauth is loaded: a login takes time
  Command   \* what users do once they are on: among "NICK" "QUIT"

NickAssumption ==
  /\ IsFiniteSet(User) /\ Home \in [User -> Server]
  /\ Choice \subseteq Name /\ Rotation \in [Name -> Name]
  /\ MaxTS \in Nat \ {0} /\ Stamp \in [Server -> SUBSET (1 .. MaxTS)]
  /\ Waits \in BOOLEAN
  /\ Command \subseteq {"NICK", "QUIT"}
ASSUME NickAssumption

Nobody == ""   \* no nickname
NameAssumption == Name \cap {Nobody, "new", "gone"} = {}
ASSUME NameAssumption

VARIABLES
  known,  \* server -> user -> what client_list says of it
  login   \* user -> "new", "gone", or the nickname checked at its login

vars == <<known, login, links>>

Entry   == [name : Name, ts : 1 .. MaxTS]
NoEntry == [name |-> Nobody, ts |-> 0]
Record(n, ts) == [name |-> n, ts |-> ts]

NUser(u, n, ts)   == [cmd |-> "NUSER", of |-> u, name |-> n, ts |-> ts]
Nick(u, n, ts)    == [cmd |-> "NICK", of |-> u, name |-> n, ts |-> ts]
NBounce(u, n, ts) == [cmd |-> "NBOUNCE", of |-> u, name |-> n, ts |-> ts]
Quit(u)           == [cmd |-> "QUIT", of |-> u]

Message ==
  [cmd : {"NUSER", "NICK", "NBOUNCE"}, of : User, name : Name, ts : 1 .. MaxTS]
  \cup {Quit(u) : u \in User}
  \cup {NQuit(l) : l \in Link}

TypeOK ==
  /\ known \in [Server -> [User -> Entry \cup {NoEntry}]]
  /\ login \in [User -> Name \cup {"new", "gone"}]
  /\ LinksOK(Message)

-----------------------------------------------------------------------------
\* client_find_nick: one of the users that have the nickname.
Has(c, n)    == {u \in User : c[u].name = n}
InUse(c, n)  == Has(c, n) # {}

\* client_nick_rotate, which comes no further than the first rotation, or
\* client_nick_random.
Others(c, n) ==
  IF ~InUse(c, Rotation[n]) THEN {Rotation[n]}
  ELSE {m \in Name : ~InUse(c, m)}

\* What a handler does: the users it knows then, what it relays, and what
\* goes back over the link the message came from.
Does(c, out, back) == [users |-> c, relay |-> out, back |-> back]
Drop(c)            == Does(c, <<>>, <<>>)

With(c, u, n, ts) == [c EXCEPT ![u] = Record(n, ts)]

\* Not the code, but a slip it could have: the newcomer's side is not told of
\* the new nickname.
NUserSilent(c, m, now) ==
  IF c[m.of] # NoEntry THEN {Drop(c)}
  ELSE IF \E v \in Has(c, m.name) : c[v].ts <= m.ts
  THEN {Does(With(c, m.of, n, now), <<NUser(m.of, n, now)>>, <<>>) :
          n \in Others(c, m.name)}
  ELSE {Does(With(c, m.of, m.name, m.ts), <<m>>, <<>>)}

\* ms_nuser, by a server whose clock says now.  (A user known already would
\* be answered by KILL: IntroducedOnce says that does not happen.)
OnNUser(c, m, now) ==
  IF c[m.of] # NoEntry
  THEN {Drop(c)}
  ELSE IF \E v \in Has(c, m.name) : c[v].ts <= m.ts
  THEN {Does(With(c, m.of, n, now), <<NUser(m.of, n, now)>>,
             <<NBounce(m.of, n, now)>>) : n \in Others(c, m.name)}
  ELSE {Does(With(c, m.of, m.name, m.ts), <<m>>, <<>>)}

\* ms_nick does not look whether the nickname is in use, and client_nick
\* relays the time of this server; only then is the sender's kept here.
OnNick(c, m, now) ==
  IF c[m.of] = NoEntry THEN {Drop(c)}
  ELSE {Does(With(c, m.of, m.name, m.ts), <<Nick(m.of, m.name, now)>>, <<>>)}

\* ms_nbounce does not look either; client_set_name replaces the timestamp.
OnNBounce(c, m, now) ==
  IF c[m.of] = NoEntry THEN {Drop(c)}
  ELSE {Does(With(c, m.of, m.name, now), <<m>>, <<>>)}

OnQuit(c, m) ==
  IF c[m.of] = NoEntry THEN {Drop(c)}
  ELSE {Does([c EXCEPT ![m.of] = NoEntry], <<m>>, <<>>)}

\* Not the code: the users behind a link outlive it.
ForgetNothing(c, Gone) == c

\* server_split: the users behind a link are forgotten.
Forget(c, Gone) == [u \in User |-> IF Home[u] \in Gone THEN NoEntry ELSE c[u]]

OnNQuit(c, m) == {Does(Forget(c, Behind[m.link]), <<m>>, <<>>)}

Handle(c, m, now) ==
  CASE m.cmd = "NUSER"   -> OnNUser(c, m, now)
    [] m.cmd = "NICK"    -> OnNick(c, m, now)
    [] m.cmd = "NBOUNCE" -> OnNBounce(c, m, now)
    [] m.cmd = "QUIT"    -> OnQuit(c, m)
    [] m.cmd = "NQUIT"   -> OnNQuit(c, m)

-----------------------------------------------------------------------------
(* Local clients.                                                          *)

\* client_new_local: the nickname is not looked at again.
Enter(u, n, now) ==
  /\ known' = [known EXCEPT ![Home[u]] = With(@, u, n, now)]
  /\ SendAll(Home[u], Home[u], <<NUser(u, n, now)>>)

\* lclient_login; lclient_register follows at once if nothing has to wait.
Login(u, n, now) ==
  /\ MayAct(Home[u])
  /\ login[u] = "new" /\ ~InUse(known[Home[u]], n)
  /\ login' = [login EXCEPT ![u] = n]
  /\ IF Waits THEN UNCHANGED <<known, net>> ELSE Enter(u, n, now)
  /\ UNCHANGED <<end, sessions>>

\* lc_cookie_done or the last answer of servauth: lclient_register.
LoginDone(u, now) ==
  /\ MayAct(Home[u])
  /\ Waits /\ login[u] \in Name /\ known[Home[u]][u] = NoEntry
  /\ Enter(u, login[u], now)
  /\ UNCHANGED <<login, end, sessions>>

\* m_nick, client_nick.
ChangeNick(u, n, now) ==
  LET s == Home[u]
  IN  /\ "NICK" \in Command /\ MayAct(s) /\ ("nick" \in Calm => Quiet)
      /\ known[s][u] # NoEntry /\ ~InUse(known[s], n)
      /\ known' = [known EXCEPT ![s] = With(@, u, n, now)]
      /\ SendAll(s, s, <<Nick(u, n, now)>>)
      /\ UNCHANGED <<login, end, sessions>>

\* m_quit, client_vexit; or the connection goes before the login is done.
Leave(u) ==
  LET s == Home[u]
  IN  /\ "QUIT" \in Command /\ MayAct(s)
      /\ login[u] \in Name
      /\ known' = [known EXCEPT ![s][u] = NoEntry]
      /\ login' = [login EXCEPT ![u] = "gone"]
      /\ SendAll(s, s, IF known[s][u] = NoEntry THEN <<>> ELSE <<Quit(u)>>)
      /\ UNCHANGED <<end, sessions>>

ClientStep(u) ==
  \/ \E n \in Choice, now \in Stamp[Home[u]] :
       Login(u, n, now) \/ ChangeNick(u, n, now)
  \/ \E now \in Stamp[Home[u]] : LoginDone(u, now)
  \/ Leave(u)

-----------------------------------------------------------------------------
(* Links.                                                                  *)

\* server_burst, client_burst: one NUSER for every user, in any order.
Orders(c) ==
  LET U == {u \in User : c[u] # NoEntry}
      n == Cardinality(U)
  IN  {f \in [1 .. n -> U] : \A i, j \in 1 .. n : i # j => f[i] # f[j]}

Burst(c, order) ==
  [i \in 1 .. Len(order) |-> NUser(order[i], c[order[i]].name, c[order[i]].ts)]

Receive(s, t) ==
  /\ CanRead(s, t)
  /\ \E now \in Stamp[s] :
       \E r \in Handle(known[s], Head(net[<<t, s>>]), now) :
         /\ known' = [known EXCEPT ![s] = r.users]
         /\ ReadAndSend(s, t, r.relay, r.back)
  /\ UNCHANGED <<login, end, sessions>>

Open(s, t) == OpenLink(s, t) /\ UNCHANGED <<known, login>>

Register(s, t) ==
  /\ \E order \in Orders(known[s]) : RegisterLink(s, t, Burst(known[s], order))
  /\ UNCHANGED <<known, login>>

Close(s, t) ==
  /\ CloseLink(s, t)
  /\ known' = IF end[<<s, t>>] = "up"
              THEN [known EXCEPT ![s] = Forget(@, Behind[<<s, t>>])]
              ELSE known
  /\ UNCHANGED login

LinkStep(s, t) == Receive(s, t) \/ Open(s, t) \/ Register(s, t) \/ Close(s, t)

-----------------------------------------------------------------------------
Init ==
  /\ known = [s \in Server |-> [u \in User |-> NoEntry]]
  /\ login = [u \in User |-> "new"]
  /\ LinkInit

Next ==
  \/ \E u \in User : ClientStep(u)
  \/ \E l \in Link : LinkStep(l[1], l[2])

Spec == Init /\ [][Next]_vars

-----------------------------------------------------------------------------
(* Once nothing is under way, linked servers know the same users by the    *)
(* same nicknames.                                                         *)
NamesAgree ==
  \A l \in Link : Settled(l) =>
    \A u \in User : known[l[1]][u].name = known[l[2]][u].name

(* No server is told twice of a user it knows (ms_nuser would answer KILL, *)
(* and the user would be taken off for a mistake of the servers).          *)
IntroducedOnce ==
  \A l \in Link :
    /\ CanRead(l[2], l[1]) /\ Head(net[l]).cmd = "NUSER"
    => known[l[2]][Head(net[l]).of] = NoEntry
=============================================================================
