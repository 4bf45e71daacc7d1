---------------------------- MODULE LocalClients ----------------------------
(***************************************************************************)
(* The connections of clients to one server: accepted within the limits of *)
(* a connection class, logged in by NICK and USER in either order, kept    *)
(* alive by PING and PONG, and closed by either side.                      *)
(*                                                                         *)
(* One thread runs every handler to its end; a connection that is closed   *)
(* is unlinked and released in the same handler.  One timer at a time      *)
(* watches a connection: first it ends a login that takes too long, then   *)
(* it pings.  The modules lc_cookie and lc_sauth, which make a login wait, *)
(* are not loaded by conf/modules.conf.in and not modelled, nor are users  *)
(* of other servers (NickSync).                                            *)
(***************************************************************************)
EXTENDS Naturals, FiniteSets

CONSTANTS
  Conn,
  Address,    \* connection -> where it comes from
  Name,       \* what clients send as a nickname
  Valid,      \* the ones chars_valid_nick accepts
  MaxClients, \* of the class
  PerIP,      \* clients_per_ip of the class
  Blocks,     \* listen{} and connect{} blocks of the configuration
  Held        \* references without a connection: class_add's own, one of
              \* the class{} block and one of each oper{} block

ClassAssumption ==
  /\ IsFiniteSet(Conn) /\ Valid \subseteq Name
  /\ MaxClients \in Nat /\ PerIP \in Nat /\ Blocks \in Nat \ {0}
  /\ Held \in Nat \ {0, 1}
ASSUME ClassAssumption

Nobody == ""   \* no nickname yet; or an empty one, which is valid, too
NobodyAssumption == Nobody \notin Name
ASSUME NobodyAssumption

VARIABLES
  conn,  \* connection -> struct lclient
  refs   \* refcount of the class

vars == <<conn, refs>>

Lclient ==
  [type   : {"none", "unknown", "user"},
   name   : Name \cup {Nobody},
   user   : {"none", "valid", "invalid"},  \* the username of USER
   timer  : {"none", "login", "ping"},
   pinged : BOOLEAN,                       \* lag is -1: no PONG yet
   silent : BOOLEAN]                       \* the other side is not there any more

Closed ==
  [type |-> "none", name |-> Nobody, user |-> "none",
   timer |-> "none", pinged |-> FALSE, silent |-> FALSE]

Accepted == [Closed EXCEPT !.type = "unknown", !.timer = "login"]

Open  == {c \in Conn : conn[c].type # "none"}
Users == {c \in Conn : conn[c].type = "user"}

TypeOK ==
  /\ conn \in [Conn -> Lclient]
  /\ refs \in Nat
  /\ \A c \in Conn \ Open : conn[c] = Closed
  /\ \A c \in Users : conn[c].name \in Valid \cup {Nobody} /\ conn[c].user = "valid"

-----------------------------------------------------------------------------
\* Not the code: a connection that ends before its login keeps the class.
PutKeepsClass(c, r) ==
  /\ conn' = [conn EXCEPT ![c] = r]
  /\ refs' = IF r = Closed /\ conn[c].type = "user" THEN refs - 1 ELSE refs

\* lclient_vexit, client_vexit: a connection that ends gives its class back.
Put(c, r) ==
  /\ conn' = [conn EXCEPT ![c] = r]
  /\ refs' = IF r = Closed THEN refs - 1 ELSE refs

\* client_find_nick: only a client that is registered has a nickname, and an
\* empty one is not found.
InUse(n) == n # Nobody /\ \E c \in Users : conn[c].name = n

\* Not the code: the timer of the login is cancelled and none started.
RegisteredUntimed(r) == [r EXCEPT !.type = "user", !.timer = "none"]

\* lclient_register: the timer of the login makes room for the one that pings.
Registered(r) == [r EXCEPT !.type = "user", !.timer = "ping"]

\* Not the code: the nickname is not looked up, or not validated.
LoginUnchecked(r) ==
  IF r.name \notin Valid \cup {Nobody} THEN {r}
  ELSE IF r.user = "invalid" THEN {Closed}
  ELSE {Registered(r), Closed}

\* lclient_login, lclient_handshake, lclient_register: what becomes of a
\* connection that has sent both NICK and USER.  A k-line or g-line may end it.
Login(r) ==
  IF InUse(r.name) THEN {[r EXCEPT !.name = Nobody]}
  ELSE IF r.name \notin Valid \cup {Nobody} THEN {r}
  ELSE IF r.user = "invalid" THEN {Closed}
  ELSE {Registered(r), Closed}

-----------------------------------------------------------------------------
\* lclient_count: servers do not count, connections that may become one do.
FromSameIP(c) == {d \in Open : Address[d] = Address[c]}

Admit(c, r) ==
  /\ conn[c] = Closed
  /\ conn' = [conn EXCEPT ![c] = r]
  /\ refs' = refs + 1

RoomInClass   == refs <= MaxClients + Blocks
RoomOnAddress(c) == Cardinality(FromSameIP(c)) < PerIP

\* lclient_accept.  The refcount is compared with the blocks taken off.
Accept(c) == RoomInClass /\ RoomOnAddress(c) /\ Admit(c, Accepted)

Sends(c, type) == conn[c].type = type /\ ~conn[c].silent

\* mr_nick: another nickname is ignored while there is one.
UnregisteredNick(c, n) ==
  LET r == [conn[c] EXCEPT !.name = n]
  IN  /\ Sends(c, "unknown") /\ conn[c].name = Nobody
      /\ IF r.user = "none" THEN Put(c, r) ELSE \E q \in Login(r) : Put(c, q)

\* mr_user
UnregisteredUser(c, u) ==
  LET r == [conn[c] EXCEPT !.user = u]
  IN  /\ Sends(c, "unknown") /\ conn[c].user = "none"
      /\ IF r.name = Nobody THEN Put(c, r) ELSE \E q \in Login(r) : Put(c, q)

\* m_nick, client_set_name
Nick(c, n) ==
  /\ Sends(c, "user")
  /\ n \in Valid \cup {Nobody} /\ ~InUse(n)
  /\ Put(c, [conn[c] EXCEPT !.name = n])

\* m_pong, asked for or not
Pong(c) ==
  /\ Sends(c, "user")
  /\ Put(c, [conn[c] EXCEPT !.pinged = FALSE])

\* QUIT, KILL, a message an unregistered client may not send, a full receive
\* queue, a connection that is reset: client_exit or lclient_exit.
Exit(c) ==
  /\ c \in Open
  /\ Put(c, Closed)

\* External: the peer is gone and nothing tells.
FallSilent(c) ==
  /\ c \in Open /\ ~conn[c].silent
  /\ Put(c, [conn[c] EXCEPT !.silent = TRUE])

\* timer_run: lclient_exit before the login, lclient_ping after.
Expire(c) ==
  \/ conn[c].timer = "login" /\ Put(c, Closed)
  \/ conn[c].timer = "ping" /\ ~conn[c].pinged
     /\ Put(c, [conn[c] EXCEPT !.pinged = TRUE])
  \/ conn[c].timer = "ping" /\ conn[c].pinged /\ Put(c, Closed)

-----------------------------------------------------------------------------
Init ==
  /\ conn = [c \in Conn |-> Closed]
  /\ refs = Held

Next ==
  \E c \in Conn :
    \/ Accept(c)
    \/ \E n \in Name \cup {Nobody} : UnregisteredNick(c, n) \/ Nick(c, n)
    \/ \E u \in {"valid", "invalid"} : UnregisteredUser(c, u)
    \/ Pong(c)
    \/ Exit(c)
    \/ FallSilent(c)
    \/ Expire(c)

\* The main loop runs every timer that is due (ircd_loop, timer_run).
Fairness == \A c \in Conn : WF_vars(Expire(c))

Spec == Init /\ [][Next]_vars /\ Fairness

-----------------------------------------------------------------------------
(* No two registered clients have one nickname, however their NICK and     *)
(* USER messages interleave with the logins and exits of others.  (Any     *)
(* number of them can have the empty one, which is never found in use.)    *)
UniqueNicks ==
  \A c, d \in Users :
    conn[c].name = conn[d].name /\ conn[c].name # Nobody => c = d

(* The class knows how many connections it has, whichever of the ways a    *)
(* connection may end was taken; otherwise it would fill up for good.      *)
ClassCounts == refs = Held + Cardinality(Open)

(* A class takes max_clients and one more, the comparison being with what  *)
(* it had before; and one more for every block lclient_accept takes off a  *)
(* refcount it is not part of, but one less for every reference that is no *)
(* connection.  No more than clients_per_ip come from one address.         *)
ClassLimit   == Open # {} => Cardinality(Open) + Held <= MaxClients + Blocks + 1
AddressLimit == \A c \in Conn : Cardinality(FromSameIP(c)) <= PerIP
LimitsHold   == ClassLimit /\ AddressLimit

(* So the limits are kept by a count that stays right: a class neither     *)
(* fills up for good nor lets in more than it should (lclient_accept,      *)
(* class_pop, class_push).                                                 *)
ClassHolds == ClassCounts /\ LimitsHold

(* The connection of a peer that is gone is closed at last, whether it was *)
(* logging in, registered or waiting for a PONG.                           *)
SilentCloses ==
  \A c \in Conn : conn[c].silent ~> conn[c].type = "none"

(* A login ends in a registered client or a closed connection, even where  *)
(* the nickname was refused and can not be sent again.                     *)
LoginEnds ==
  \A c \in Conn : conn[c].type = "unknown" ~> conn[c].type # "unknown"

(* No connection waits for ever for somebody who says nothing.             *)
WaitsEnd == SilentCloses /\ LoginEnds
=============================================================================
