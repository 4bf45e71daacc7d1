----------------------------- MODULE ServerTree -----------------------------
(***************************************************************************)
(* How the servers of a network come to know each other: NSERVER and NQUIT *)
(* over links that may at any time close a circle.                         *)
(*                                                                         *)
(* Every server keeps the others as a tree (server->deps): of each it      *)
(* knows the uplink (client->origin) and the link it came from             *)
(* (client->source).  There is no other means against circles than that a  *)
(* server which is told of one it knows drops the link it is told over.    *)
(* The links are connections that keep the order of messages; each end     *)
(* gives up a broken one in its own time.                                  *)
(***************************************************************************)
EXTENDS Naturals, Sequences, SequencesExt, FiniteSets, FiniteSetsExt

CONSTANTS
  Server,
  Link,         \* <<s, t>>: s may link to t; symmetric
  Paired,       \* links that are up at first, no two of one server
  MaxSessions   \* bound: how many times links are established

Rev(l) == <<l[2], l[1]>>
Nobody == "nobody"

ServerTreeAssumption ==
  /\ IsFiniteSet(Server)
  /\ Link \subseteq {l \in Server \X Server : l[1] # l[2]}
  /\ \A l \in Link : Rev(l) \in Link
  /\ Paired \subseteq Link
  /\ \A k \in Paired : Rev(k) \in Paired /\ \A l \in Paired : k[1] = l[1] => k = l
  /\ MaxSessions \in Nat /\ Nobody \notin Server
ASSUME ServerTreeAssumption

VARIABLES
  end,      \* link <<s, t>> -> s's end: "down", "open" (handshake) or "up"
  net,      \* link <<s, t>> -> messages from s that t has not read
  tree,     \* server -> server -> [up, via] as it knows it, or Unknown
  crashed,  \* servers that went through a null pointer
  sessions  \* links established so far

vars == <<end, net, tree, crashed, sessions>>

Unknown  == [up |-> Nobody, via |-> Nobody]
Me(s)    == [up |-> s, via |-> s]
NServer(up, name) == [cmd |-> "NSERVER", up |-> up, name |-> name]
NQuit(name)       == [cmd |-> "NQUIT", up |-> Nobody, name |-> name]

Known(T) == {v \in Server : T[v] # Unknown}

-----------------------------------------------------------------------------
\* Not the code: leaves what is behind the server.
BelowOne(T, v) == {v}

\* server_split: v and all that were introduced behind it.
Below(T, v) ==
  LET below[n \in 0 .. Cardinality(Server)] ==
        IF n = 0 THEN {v}
        ELSE LET b == below[n - 1] IN b \cup {w \in Known(T) : T[w].up \in b}
  IN  below[Cardinality(Server)]

Without(T, v) == [w \in Server |-> IF w \in Below(T, v) THEN Unknown ELSE T[w]]

\* server_send to every link but one.
Sent(E, s, but, l) == l[1] = s /\ l[2] # but /\ E[l] = "up" /\ E[Rev(l)] # "down"
Tell(N, s, but, msgs) ==
  [l \in Link |-> IF Sent(end, s, but, l) THEN N[l] \o msgs ELSE N[l]]

\* What s does: the messages, its tree, its ends.
Become(s, N, T, down) ==
  /\ end' = [l \in Link |-> IF l[1] = s /\ l[2] \in down THEN "down" ELSE end[l]]
  /\ net' = [l \in Link |-> IF l[2] = s /\ l[1] \in down THEN <<>> ELSE N[l]]
  /\ tree' = [tree EXCEPT ![s] = T]

\* Not the code: the others are not told.
ExitSilent(s, N, v, but) ==
  Become(s, N, Without(tree[s], v), {v} \cap {t \in Server : tree[s][v].via = t})

\* client_vexit of a server, server_exit: NQUIT, the split, and the end of
\* the link if it is ours.
Exit(s, N, v, but) ==
  Become(s, Tell(N, s, but, <<NQuit(v)>>), Without(tree[s], v),
         {v} \cap {t \in Server : tree[s][v].via = t})

-----------------------------------------------------------------------------
(* Messages.  N is the network without the message that is read.            *)
\* Not the code: takes a server it knows for a change of uplink.
OnNServerAgain(s, t, m, N) ==
  IF tree[s][m.up] = Unknown
  THEN crashed' = crashed \cup {s} /\ UNCHANGED <<end, tree>> /\ net' = N
  ELSE /\ Become(s, Tell(N, s, t, <<m>>),
                 IF m.name = s THEN tree[s]
                 ELSE [tree[s] EXCEPT ![m.name] = [up |-> m.up, via |-> t]], {})
       /\ UNCHANGED crashed

\* ms_nserver.
OnNServer(s, t, m, N) ==
  \/ /\ tree[s][m.name] # Unknown
     /\ Exit(s, N, t, t)
     /\ UNCHANGED crashed
  \/ /\ tree[s][m.name] = Unknown /\ tree[s][m.up] # Unknown
     /\ Become(s, Tell(N, s, t, <<m>>),
               [tree[s] EXCEPT ![m.name] = [up |-> m.up, via |-> t]], {})
     /\ UNCHANGED crashed
  \/ /\ tree[s][m.name] = Unknown /\ tree[s][m.up] = Unknown
     /\ crashed' = crashed \cup {s}
     /\ net' = N /\ UNCHANGED <<end, tree>>

\* ms_nquit, from whichever side it comes.
OnNQuit(s, t, m, N) ==
  /\ IF tree[s][m.name] = Unknown \/ m.name = s
     THEN net' = N /\ UNCHANGED <<end, tree>>
     ELSE Exit(s, N, m.name, t)
  /\ UNCHANGED crashed

Read(s, t) ==
  /\ end[<<s, t>>] = "up" /\ net[<<t, s>>] # <<>> /\ s \notin crashed
  /\ LET m == Head(net[<<t, s>>])
         N == [net EXCEPT ![<<t, s>>] = Tail(net[<<t, s>>])]
     IN  \/ m.cmd = "NSERVER" /\ OnNServer(s, t, m, N)
         \/ m.cmd = "NQUIT"   /\ OnNQuit(s, t, m, N)
  /\ UNCHANGED sessions

-----------------------------------------------------------------------------
(* Links                                                                   *)

\* server_introduce: all servers but the peer, behind their uplinks, in the
\* order they became known.
Bursts(T, s, t) ==
  {q \in SetToSeqs(Known(T) \ {s, t}) :
     \A i \in DOMAIN q : T[q[i]].up = s \/ \E j \in 1..i - 1 : q[j] = T[q[i]].up}

Introduced(T, q) == [i \in DOMAIN q |-> NServer(T[q[i]].up, q[i])]

OpenLink(s, t) ==
  /\ sessions < MaxSessions /\ crashed = {}
  /\ end[<<s, t>>] = "down" /\ end[<<t, s>>] = "down"
  /\ end' = [end EXCEPT ![<<s, t>>] = "open", ![<<t, s>>] = "open"]
  /\ net' = [net EXCEPT ![<<s, t>>] = <<>>, ![<<t, s>>] = <<>>]
  /\ sessions' = sessions + 1
  /\ UNCHANGED <<tree, crashed>>

\* mr_server, server_login, server_register, server_burst: s has got t's
\* SERVER.
Register(s, t) ==
  /\ end[<<s, t>>] = "open" /\ s \notin crashed
  /\ IF tree[s][t] # Unknown
     THEN /\ end' = [end EXCEPT ![<<s, t>>] = "down"]
          /\ net' = [net EXCEPT ![<<t, s>>] = <<>>]
          /\ UNCHANGED tree
     ELSE /\ tree' = [tree EXCEPT ![s][t] = [up |-> s, via |-> t]]
          /\ end' = [end EXCEPT ![<<s, t>>] = "up"]
          /\ \E q \in Bursts(tree[s], s, t) :
               net' = [Tell(net, s, t, <<NServer(s, t)>>) EXCEPT ![<<s, t>>] =
                         IF end[<<t, s>>] = "down" THEN net[<<s, t>>]
                         ELSE net[<<s, t>>] \o Introduced(tree[s], q)]
  /\ UNCHANGED <<crashed, sessions>>

\* lclient_vexit: SQUIT, a ping timeout, or s notices that t has gone.
Close(s, t) ==
  /\ end[<<s, t>>] # "down" /\ s \notin crashed
  /\ IF end[<<s, t>>] = "up" THEN Exit(s, net, t, t)
     ELSE Become(s, net, tree[s], {t})
  /\ UNCHANGED <<crashed, sessions>>

Noticed(s, t) == end[<<t, s>>] = "down" /\ Close(s, t)

Init ==
  /\ end = [l \in Link |-> IF l \in Paired THEN "up" ELSE "down"]
  /\ net = [l \in Link |-> <<>>]
  /\ tree = [s \in Server |-> [v \in Server |->
               IF v = s THEN Me(s)
               ELSE IF <<s, v>> \in Paired THEN [up |-> s, via |-> v] ELSE Unknown]]
  /\ crashed = {} /\ sessions = 0

Next == \E l \in Link : \/ Read(l[1], l[2]) \/ OpenLink(l[1], l[2])
                        \/ Register(l[1], l[2]) \/ Close(l[1], l[2])

\* As long as something has arrived, a handshake is on or the other end of
\* a link is gone, some server acts on it; which one first is open.
Spec == Init /\ [][Next]_vars
        /\ WF_vars(\E l \in Link : \/ Read(l[1], l[2]) \/ Register(l[1], l[2])
                                   \/ Noticed(l[1], l[2]))

-----------------------------------------------------------------------------
TypeOK ==
  /\ end \in [Link -> {"down", "open", "up"}]
  /\ \A l \in Link : \A i \in DOMAIN net[l] :
       net[l][i].name \in Server /\ (net[l][i].cmd = "NSERVER" => net[l][i].up \in Server)
  /\ tree \in [Server -> [Server -> [up : Server \cup {Nobody}, via : Server \cup {Nobody}]]]
  /\ crashed \subseteq Server /\ sessions \in 0..MaxSessions

(* What a server knows is a tree below itself: a server's uplink is known, *)
(* and over the same link; its own links are those that are up.  And no    *)
(* NSERVER reaches a server that does not know the uplink in it, which     *)
(* ms_nserver would go through a null pointer for, whatever NQUIT and      *)
(* NSERVER come from other sides.                                          *)
TreeOK ==
  /\ TypeOK
  /\ crashed = {}
  /\ \A s \in Server :
       /\ \A v \in Known(tree[s]) \ {s} :
            LET up == tree[s][v].up IN
            /\ tree[s][up] # Unknown
            /\ tree[s][v].via = IF up = s THEN v ELSE tree[s][up].via
       /\ Below(tree[s], s) = Known(tree[s])
       /\ \A l \in Link : l[1] = s =>
            (end[l] = "up" <=> tree[s][l[2]] = [up |-> s, via |-> l[2]])

Linked(s, t) == <<s, t>> \in Link /\ end[<<s, t>>] = "up"

Settled ==
  /\ \A l \in Link : net[l] = <<>> /\ end[l] # "open" /\ end[l] = end[Rev(l)]

(* When all is read everybody knows exactly the servers of its part of the *)
(* network, by links that make no circle: one fewer than the servers.      *)
Agreed ==
  Settled =>
    \A s \in Server :
      LET K == Known(tree[s])
      IN  /\ \A t \in K : Known(tree[t]) = K
          /\ \A t \in K, v \in Server \ K : ~Linked(t, v)
          /\ Cardinality({l \in Link : l[1] \in K /\ end[l] = "up"}) = 2 * (Cardinality(K) - 1)

(* However many links are closed as duplicates, NSERVER and NQUIT do not   *)
(* chase each other for ever.                                              *)
Settles == <>[]Settled
=============================================================================
