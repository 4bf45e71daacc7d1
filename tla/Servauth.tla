----------------------------- MODULE Servauth -----------------------------
(***************************************************************************)
(* The helper process of lib/servauth: it reads questions from the server, *)
(* answers from its caches or starts a lookup, a DNS query over UDP, an    *)
(* ident or a proxy connection, each with one timer, and answers when that *)
(* ends (query.c, dns.c, auth.c, proxy.c, cache.c, commands.c, control.c). *)
(* The table of queries, the descriptors and the caches are limited.       *)
(*                                                                         *)
(* A question that cannot be started ends the process, and so does what    *)
(* the code does not survive, a null pointer: then it is "dead".  Once the *)
(* control connection has been taken out of the poll table it neither      *)
(* reads nor answers any more: then it is "deaf".                          *)
(***************************************************************************)
EXTENDS Naturals, Sequences, SequencesExt, FiniteSetsExt

CONSTANTS
  Question,
  Kind,        \* question -> "forward", "reverse", "auth", "proxy"
  About,       \* question -> the name, or the address and the port
  Preset,      \* the address main calls localhost: 0.0.0.0 (net_addr_loopback)
  None,
  MaxQueries,
  MaxFd,       \* descriptors there are for sockets
  MaxUnread,   \* bound: lines in the control connection
  CacheSize

Slot   == 1 .. MaxQueries
Fd     == 1 .. MaxFd
Cached == {"reverse", "auth", "proxy"}
Verdict == {"found", "localhost", "none", "closed", "open", "denied", "na", "filtered", "timeout"}

ServauthAssumption ==
  /\ Kind \in [Question -> Cached \cup {"forward"}]
  /\ MaxQueries \in Nat \ {0} /\ MaxFd \in Nat /\ MaxUnread \in Nat /\ CacheSize \in Nat \ {0}
  /\ None \notin Question /\ \A q \in Question, v \in Verdict : <<q, v>> # None
ASSUME ServauthAssumption

VARIABLES
  unread,   \* questions in the control connection
  query,    \* servauth_queries
  io,       \* descriptor -> "none", "open", or "shut": closed by io_shutup only
  owner,    \* descriptor -> the query its callbacks are for, or 0
  cache,    \* kind -> its entries, and their places from old to new
  said,     \* the answer of the last step
  end,      \* "alive", "dead", "deaf"
  lost      \* a query has a descriptor that is not its own any more

vars == <<unread, query, io, owner, cache, said, end, lost>>

Idle == [ask |-> None, sock |-> 0, st |-> "idle"]

\* main, and its one cache_dns_put.  The time of that entry is the end of
\* time, until it is used: it is not in the order of age.
PresetFact == <<Preset, "localhost">>

Boot ==
  [unread |-> <<>>, query |-> [i \in Slot |-> Idle], io |-> [f \in Fd |-> "none"],
   owner |-> [f \in Fd |-> 0],
   cache |-> [k \in Cached |-> [at |-> IF k = "reverse" THEN <<PresetFact>> ELSE <<>>, age |-> <<>>]],
   said |-> None, end |-> "alive", lost |-> FALSE]

State == [unread |-> unread, query |-> query, io |-> io, owner |-> owner,
          cache |-> cache, said |-> None, end |-> end, lost |-> lost]

Become(outcomes) ==
  \E u \in outcomes :
    /\ unread' = u.unread /\ query' = u.query /\ io' = u.io /\ owner' = u.owner
    /\ cache' = u.cache /\ said' = u.said /\ end' = u.end /\ lost' = u.lost

Dead == [Boot EXCEPT !.end = "dead"]

-----------------------------------------------------------------------------
(* Descriptors.                                                            *)

\* io_destroy.
Close(u, f) == IF f = 0 THEN u ELSE [u EXCEPT !.io[f] = "none", !.owner[f] = 0]

\* io_shutup leaves the descriptor open.  One that was destroyed is at index
\* 0 of the poll table, where the control connection is.
Shut(u, f) ==
  IF u.io[f] = "none" THEN [u EXCEPT !.end = "deaf"]
  ELSE [u EXCEPT !.io[f] = "shut", !.owner[f] = 0]

FreeFds(u)  == {f \in Fd : u.io[f] = "none"}

\* net_socket, net_connect: under way, or failed at once, with the number
\* still in the query.
Connected(u, i, f) == [u EXCEPT !.query[i].sock = f, !.io[f] = "open", !.owner[f] = i]
Unconnected(u, i, f) == [u EXCEPT !.query[i].sock = f, !.lost = TRUE]

-----------------------------------------------------------------------------
(* Caches.                                                                 *)

\* cache_auth_pick, cache_dns_pick_reverse, cache_proxy_pick.
Found(c, key) == {i \in DOMAIN c.at : c.at[i][1] = key}
Place(c, i)   == CHOOSE n \in DOMAIN c.age : c.age[n] = i
Used(c, i)    ==
  [c EXCEPT !.age = Append(IF i \in Range(c.age) THEN RemoveAt(c.age, Place(c, i)) ELSE c.age, i)]

\* The order in which states of proxies are given up; "na" never is.
Worth(v) ==
  CASE v = "closed" -> 1 [] v = "denied" -> 2 [] v = "open" -> 3
    [] v = "filtered" -> 4 [] v = "timeout" -> 5 [] OTHER -> 0

\* cache_*_entry_new when the cache is full: the oldest of the first kind
\* there is one of.  Age by seconds, ties by place: here no two are equally old.
Victims(kind, c) ==
  LET worth(i)    == IF kind = "proxy" THEN Worth(c.at[i][2]) ELSE 1
      older(i, j) == i \in Range(c.age) /\ (j \in Range(c.age) => Place(c, i) < Place(c, j))
      before(i, j) == worth(i) < worth(j) \/ (worth(i) = worth(j) /\ older(i, j))
      may         == {i \in DOMAIN c.at : worth(i) > 0}
  IN  {i \in may : \A j \in may \ {i} : before(i, j)}

\* cache_auth_put, cache_dns_put, cache_proxy_put.  Nothing to give up is a
\* null pointer.
Put(u, kind, fact) ==
  LET c == u.cache[kind]
  IN  IF Len(c.at) < CacheSize
      THEN [u EXCEPT !.cache[kind] = [at |-> Append(c.at, fact), age |-> Append(c.age, Len(c.at) + 1)]]
      ELSE IF Victims(kind, c) = {} THEN Dead
      ELSE LET i == CHOOSE v \in Victims(kind, c) : TRUE
           IN  [u EXCEPT !.cache[kind] = Used([c EXCEPT !.at[i] = fact], i)]

-----------------------------------------------------------------------------
(* Queries.                                                                *)

KindOf(u, i) == Kind[u.query[i].ask]

\* query_free.  Not the code: the DNS socket stays.
FreeQueryOnly(u, i) ==
  LET f == u.query[i].sock
      v == IF f = 0 \/ KindOf(u, i) \in {"forward", "reverse"} THEN u ELSE Shut(u, f)
  IN  [v EXCEPT !.query[i] = Idle]
FreeQuery(u, i) ==
  LET f == u.query[i].sock
      v == IF f = 0 THEN u
           ELSE IF KindOf(u, i) \in {"forward", "reverse"} THEN Close(u, f) ELSE Shut(u, f)
  IN  [v EXCEPT !.query[i] = Idle]

\* query_dns_forward_done, query_dns_reverse_done, query_auth_done and
\* query_proxy_done: the answer, the cache, query_free.  An ident answer is
\* not kept.
Kept(u, i, v) ==
  LET q == u.query[i].ask
      keeps == Kind[q] \in {"reverse", "proxy"} \/ (Kind[q] = "auth" /\ v = "none")
  IN  IF keeps THEN Put(u, Kind[q], <<About[q], v>>) ELSE u
Released(w, i, answer) ==
  IF w.end = "dead" THEN w ELSE [FreeQuery(w, i) EXCEPT !.said = answer]
Done(u, i, v) == Released(Kept(u, i, v), i, <<u.query[i].ask, v>>)

\* io_handle_fd closes what its callback has shut.
DoneByEvent(u, i, v) ==
  LET f == u.query[i].sock
      w == Done(u, i, v)
  IN  IF w.end = "dead" THEN w ELSE Close(w, f)

\* A free descriptor for query i (net_socket, dns_socket), if there is one.
Sockets(u) == IF FreeFds(u) = {} THEN {} ELSE {Min(FreeFds(u))}

\* dns_start.  What cannot start waits for its timer; over TCP no answer is
\* ever read.
StartDns(u, i, st) ==
  LET v == [u EXCEPT !.query[i].st = st]
  IN  IF Sockets(u) = {} THEN {[u EXCEPT !.query[i].st = "tcp"]}
      ELSE UNION {{Connected(v, i, f), Unconnected(v, i, f)} : f \in Sockets(u)}

\* auth_lookup, proxy_connect.  What cannot start ends the process.
StartTcp(u, i) ==
  LET v == [u EXCEPT !.query[i].st = "connecting"]
  IN  {Dead} \cup {Connected(v, i, f) : f \in Sockets(u)}

\* query_start.
Start(u, i, q) ==
  LET v == [u EXCEPT !.query[i].ask = q]
  IN  IF Kind[q] \in {"forward", "reverse"} THEN StartDns(v, i, "udp") ELSE StartTcp(v, i)

-----------------------------------------------------------------------------
(* The server asks, and the helper reads (control_readable).               *)

Looking == {query[i].ask : i \in {j \in Slot : query[j].ask # None}}

Send(q) ==
  /\ end = "alive" /\ q \notin Range(unread) \cup Looking /\ Len(unread) < MaxUnread
  /\ Become({[State EXCEPT !.unread = Append(unread, q)]})

\* query_find; one more than there is room for is a null pointer.
Begin(u, q) ==
  LET free == {i \in Slot : u.query[i].ask = None}
  IN  IF free = {} THEN {Dead} ELSE Start(u, Min(free), q)

\* The answer from place i of cache k.
FromCache(u, q, k, i) ==
  {[u EXCEPT !.cache[k] = Used(u.cache[k], i), !.said = <<q, u.cache[k].at[i][2]>>]}

\* cmd_auth, cmd_dns_forward, cmd_dns_reverse, cmd_proxy.  Not the code: all
\* look in the cache of proxies first.
CommandAnyKind(u, q) ==
  LET hits == Found(u.cache["proxy"], About[q])
  IN  IF hits = {} THEN Begin(u, q) ELSE FromCache(u, q, "proxy", Min(hits))
Command(u, q) ==
  LET k    == Kind[q]
      hits == IF k \in Cached THEN Found(u.cache[k], About[q]) ELSE {}
  IN  IF hits = {} THEN Begin(u, q) ELSE FromCache(u, q, k, Min(hits))

Read ==
  /\ end = "alive" /\ unread # <<>>
  /\ Become(Command([State EXCEPT !.unread = Tail(unread)], Head(unread)))

-----------------------------------------------------------------------------
(* Sockets.                                                                *)

\* The callbacks of descriptor f are for query i, which is in state st.
Event(f, i, st) ==
  /\ end = "alive" /\ io[f] = "open" /\ owner[f] = i
  /\ query[i].st = st

IsProxy(i) == Kind[query[i].ask] = "proxy"

\* dns_event_rd.
DnsReply(f, i) ==
  /\ Event(f, i, "udp")
  /\ Become({Done(State, i, v) : v \in {"found", "none"}})

\* dns_want_tcp: dns_start again, if it can, and the old socket is forgotten.
DnsTruncated(f, i) ==
  /\ Event(f, i, "udp") /\ FreeFds(State) # {}
  /\ Become(StartDns([State EXCEPT !.owner[f] = 0], i, "tcp"))

\* auth_event_cn, proxy_event_cn.
Established(f, i) ==
  /\ Event(f, i, "connecting")
  /\ Become({[State EXCEPT !.query[i].st = IF IsProxy(i) THEN "writing" ELSE "reading"]})

Refused(f, i) ==
  /\ Event(f, i, "connecting") \/ (Event(f, i, "writing") /\ IsProxy(i))
  /\ Become({DoneByEvent(State, i, IF IsProxy(i) THEN "closed" ELSE "none")})

\* proxy_event_wr.
ProxyWrites(f, i) ==
  /\ Event(f, i, "writing")
  /\ Become({[State EXCEPT !.query[i].st = "reading"]})

\* auth_parse, which does not survive a line without a colon; proxy_event_rd.
Answered(f, i) ==
  /\ Event(f, i, "reading")
  /\ Become(IF IsProxy(i) THEN {DoneByEvent(State, i, v) : v \in {"open", "denied", "na"}}
            ELSE {Dead} \cup {DoneByEvent(State, i, v) : v \in {"found", "none"}})

\* io_handle_fd destroys the descriptor, auth_event_rd did nothing.
IdentEnds(f, i) ==
  /\ Event(f, i, "reading") /\ ~IsProxy(i)
  /\ Become({[Close(State, f) EXCEPT !.lost = TRUE]})

\* dns_timeout, auth_timeout, proxy_timeout.  The sockets of the last two
\* stay open.  Not the code: an ident query has no timer.
TimeoutNotIdent(i) ==
  /\ end = "alive" /\ query[i].ask # None /\ Kind[query[i].ask] # "auth"
  /\ Become({Done(State, i, IF ~IsProxy(i) THEN "none"
                            ELSE IF query[i].st = "connecting" THEN "filtered" ELSE "timeout")})
Timeout(i) ==
  /\ end = "alive" /\ query[i].ask # None
  /\ \E u \in {State}, v \in {IF ~IsProxy(i) THEN "none"
                             ELSE IF query[i].st = "connecting" THEN "filtered" ELSE "timeout"} :
     \E w \in {Kept(u, i, v)} : Become({Released(w, i, <<u.query[i].ask, v>>)})

-----------------------------------------------------------------------------
\* The server goes, or starts the helper again (sauth_launch).
Hangup == end = "alive" /\ Become({Dead})
Launch == end # "alive" /\ Become({Boot})

Init ==
  /\ unread = <<>> /\ query = Boot.query /\ io = Boot.io /\ owner = Boot.owner
  /\ cache = Boot.cache /\ said = None /\ end = "alive" /\ lost = FALSE

SocketStep(f, i) ==
  \/ DnsReply(f, i) \/ DnsTruncated(f, i) \/ Established(f, i) \/ Refused(f, i)
  \/ ProxyWrites(f, i) \/ Answered(f, i) \/ IdentEnds(f, i)

Next ==
  \/ Hangup \/ Launch \/ Read
  \/ \E q \in Question : Send(q)
  \/ \E f \in Fd, i \in Slot : SocketStep(f, i)
  \/ \E i \in Slot : Timeout(i)

\* servauth_loop runs the timers.
Spec == Init /\ [][Next]_vars /\ \A i \in Slot : WF_vars(Timeout(i))

-----------------------------------------------------------------------------
TypeOK ==
  /\ unread \in Seq(Question) /\ Len(unread) <= MaxUnread
  /\ query \in [Slot -> [ask : Question \cup {None}, sock : 0 .. MaxFd,
                         st : {"idle", "udp", "tcp", "connecting", "writing", "reading"}]]
  /\ io \in [Fd -> {"none", "open", "shut"}] /\ owner \in [Fd -> 0 .. MaxQueries]
  /\ \A k \in Cached : /\ Len(cache[k].at) <= CacheSize
                       /\ Range(cache[k].age) \subseteq DOMAIN cache[k].at
  /\ end \in {"alive", "dead", "deaf"} /\ lost \in BOOLEAN

(* No socket is in two hands: a query that has one is the one its events   *)
(* go to, and what has an owner is open (query_free, dns_close), as long   *)
(* as no connection has failed at once or ended without an answer (lost):  *)
(* such a query goes on with a number that may be another's by then.  Only *)
(* that can cost the helper its control connection.                        *)
SocketsOwned ==
  /\ TypeOK
  /\ ~lost => /\ end # "deaf"
              /\ \A i \in Slot, f \in Fd :
                   owner[f] = i <=> query[i].sock = f
              /\ \A f \in Fd : owner[f] # 0 => io[f] = "open"
              /\ \A i \in Slot : query[i].ask = None => query[i] = Idle

(* Each question gets one answer, by whichever of reply, refusal and       *)
(* timeout comes first, and an answer from a cache is the one a lookup of  *)
(* the same gave before, or the one main has put there (query_*_done,      *)
(* cache_*_pick).                                                          *)
Promise ==
  INSTANCE HelperPromise WITH
    Given <- {<<<<"reverse", Preset>>, "localhost">>},
    About <- [q \in Question |-> <<Kind[q], About[q]>>],
    asked   <- Range(unread),
    looking <- Looking,
    kept    <- UNION {{<<<<k, fact[1]>>, fact[2]>> : fact \in Range(cache[k].at)} : k \in Cached}
KeepsPromise == Promise!Spec

(* No lookup runs for ever, whatever the sockets do: its timer ends it     *)
(* (auth_lookup, dns_set_callback, proxy_connect), unless the process is   *)
(* deaf, or gone, which is the server's to notice.                         *)
AllAnswered ==
  \A i \in Slot : query[i].ask # None ~> query[i].ask = None \/ end = "deaf"
=============================================================================
