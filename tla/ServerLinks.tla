---------------------------- MODULE ServerLinks ----------------------------
(***************************************************************************)
(* The connections between the servers of a network.                       *)
(*                                                                         *)
(* Servers form a tree.  A link is a TCP connection: what s sends to t     *)
(* arrives in order or is lost with the connection.  Each end gives up a   *)
(* broken link in its own time (a read error, a ping timeout); both ends   *)
(* connect again only when both have.  After the handshake an end sends    *)
(* its whole state, the burst, and then every message it sends or relays.  *)
(*                                                                         *)
(* The modules that extend this one say what is in a burst, what a message *)
(* does, and what is forgotten with a link.                                *)
(***************************************************************************)
EXTENDS Naturals, Sequences

CONSTANTS
  Server,
  Link,        \* <<s, t>>: s has a connect{} block for t; symmetric, a tree
  Behind,      \* link <<s, t>> -> the servers s reaches over t
  Linked,      \* the links that are up in the initial state
  MaxSessions, \* how many times links are established
  MaxQueue,    \* clients and relays wait while a link has so many messages
  Calm         \* what happens only while nothing is under way: among "client"
               \* (clients act), "nick" (they change nicknames) and "link"
               \* (connections are made and lost)

Rev(l) == <<l[2], l[1]>>

LinkAssumption ==
  /\ Link \subseteq Server \X Server
  /\ Behind \in [Link -> SUBSET Server]
  /\ \A l \in Link : /\ l[1] # l[2] /\ Rev(l) \in Link
                     /\ l[1] \notin Behind[l] /\ l[2] \in Behind[l]
                     /\ Behind[l] \cap Behind[Rev(l)] = {}
                     /\ \A k \in Link : k[1] = l[2] /\ k[2] # l[1]
                                        => Behind[k] \subseteq Behind[l]
  /\ Linked \subseteq Link /\ \A l \in Linked : Rev(l) \in Linked
  /\ MaxSessions \in Nat /\ MaxQueue \in Nat \ {0}
  /\ Calm \subseteq {"client", "nick", "link"}
ASSUME LinkAssumption

VARIABLES
  end,      \* link <<s, t>> -> s's end: "down", "open" (handshake) or "up"
  net,      \* link <<s, t>> -> messages from s that t has not read
  sessions  \* links established so far

links == <<end, net, sessions>>

LinksOK(Message) ==
  /\ end \in [Link -> {"down", "open", "up"}]
  /\ net \in [Link -> Seq(Message)]
  /\ sessions \in 0 .. MaxSessions

LinkInit ==
  /\ end = [l \in Link |-> IF l \in Linked THEN "up" ELSE "down"]
  /\ net = [l \in Link |-> <<>>]
  /\ sessions = 0

NQuit(l) == [cmd |-> "NQUIT", link |-> l]

-----------------------------------------------------------------------------
(* Sending.                                                                *)

\* server_send: to every link that is up but the one the message came from.
\* What is written to a connection the peer has closed is lost.
Sent(s, from, out, l) ==
  /\ out # <<>> /\ l[1] = s /\ l[2] # from
  /\ end[l] = "up" /\ end[Rev(l)] # "down"

SendAll(s, from, out) ==
  net' = [l \in Link |-> IF Sent(s, from, out, l) THEN net[l] \o out ELSE net[l]]

\* The same after the message in front of <<from, s>> was read; back is what
\* client_send puts into the other direction of that link.
ReadAndSend(s, from, out, back) ==
  net' = [l \in Link |->
            IF l = <<from, s>> THEN Tail(net[l])
            ELSE IF Sent(s, from, out, l) THEN net[l] \o out
            ELSE IF Sent(s, s, back, l) /\ l[2] = from THEN net[l] \o back
            ELSE net[l]]

Room(s, from) ==
  \A l \in Link : l[1] = s /\ l[2] # from => Len(net[l]) < MaxQueue

CanRead(s, t) ==
  end[<<s, t>>] = "up" /\ net[<<t, s>>] # <<>> /\ Room(s, t)

Idle  == \A l \in Link : net[l] = <<>>
Quiet == Idle /\ \A l \in Link : end[l] # "open"

\* Nothing is under way, and both ends of l think it is up.
Settled(l) == Idle /\ end[l] = "up" /\ end[Rev(l)] = "up"

MayAct(s) == Room(s, s) /\ ("client" \in Calm => Quiet)

-----------------------------------------------------------------------------
(* Links come and go.                                                      *)

\* lclient_connect, server_login: both ends have given the last one up.
OpenLink(s, t) ==
  /\ sessions < MaxSessions
  /\ "link" \in Calm => Quiet
  /\ end[<<s, t>>] = "down" /\ end[<<t, s>>] = "down"
  /\ end' = [end EXCEPT ![<<s, t>>] = "open", ![<<t, s>>] = "open"]
  /\ net' = [net EXCEPT ![<<s, t>>] = <<>>, ![<<t, s>>] = <<>>]
  /\ sessions' = sessions + 1

\* server_register, server_burst: s got t's SERVER and sends what it knows.
RegisterLink(s, t, burst) ==
  /\ end[<<s, t>>] = "open"
  /\ end' = [end EXCEPT ![<<s, t>>] = "up"]
  /\ net' = [net EXCEPT ![<<s, t>>] =
               IF end[<<t, s>>] = "down" THEN @ ELSE @ \o burst]
  /\ UNCHANGED sessions

\* lclient_vexit, server_exit: s notices that the connection is gone.  What
\* it had not read is lost; the other links learn of it by NQUIT.
CloseLink(s, t) ==
  LET quit == IF end[<<s, t>>] = "up" THEN <<NQuit(<<s, t>>)>> ELSE <<>>
  IN  /\ end[<<s, t>>] # "down"
      /\ "link" \in Calm => Idle
      /\ end' = [end EXCEPT ![<<s, t>>] = "down"]
      /\ net' = [l \in Link |-> IF l = <<t, s>> THEN <<>>
                                ELSE IF Sent(s, t, quit, l) THEN net[l] \o quit
                                ELSE net[l]]
      /\ UNCHANGED sessions

\* The process of s ends; the others still read what it sent.
CutLinks(s) ==
  /\ end' = [l \in Link |-> IF l[1] = s THEN "down" ELSE end[l]]
  /\ net' = [l \in Link |-> IF l[2] = s THEN <<>> ELSE net[l]]
  /\ UNCHANGED sessions
=============================================================================
