# chaosircd in TLA+

A specification of the core of chaosircd, an IRC server: what one server keeps
about connections, clients and channels, what the servers of a network do to
keep it the same everywhere, and the machinery below: timers, descriptors,
queues, outgoing connections and the process that looks names up. Every
definition is read off the C code; `PROJECT.json` names the lines of each. The
modules are checked with TLC on small instances and, in part, proved with TLAPS
for instances of any size.

## The system

The daemon is one process and one thread. Its main loop (`ircd_loop`,
src/ircd.c) polls descriptors, runs the timers that are due (`timer_run`) and
calls the handlers of what became readable. A handler runs to its end; there is
no concurrency inside a server. What is concurrent are the servers: they form a
tree, each link is a TCP connection, and all they share are messages; and a
helper process, servauth, that answers lookups over a pipe. What is hard inside
one server are callbacks: handlers and timers that change the list, table or
queue that is being walked, or free what somebody still points to.

| Component (source) | State | Operations | What makes it hard |
|---|---|---|---|
| Local connections (src/lclient.c, src/class.c, m_nick, m_user, m_pong) | `struct lclient`: type, name, user, ping timer, lag; refcount of its class | accept, NICK/USER, handshake, register, ping, exit | two exits that call each other; one timer slot for two timers; a nickname that is nobody's until registration; limits |
| Clients and nicknames (src/client.c, m_nuser, m_nick, m_nbounce, m_quit) | client list, nickname hash, timestamps | NUSER, NICK, NBOUNCE, QUIT, burst, split | the same nickname taken on two servers at once; bounces crossing other messages |
| Links (src/server.c, src/lclient.c) | each end of each link | login, register, burst, relay, exit | ends that notice a lost link at different times; messages lost with a link |
| The tree of servers (src/server.c, m_nserver, m_nquit, m_squit) | for each server its uplink and the link it came from | NSERVER, NQUIT, burst, split | links that close a circle; every server that sees a duplicate drops a link |
| Channels and members (src/channel.c, src/chanuser.c, m_join, m_part, m_kick, m_opart, m_njoin) | channel list; member, local member and invite lists; privileges | JOIN, PART, KICK, OPART, NJOIN, exit, split | a membership is in three lists; five handlers may end a channel |
| Admission (modules/chanmode, lib/src/hook.c) | hook table, invites, the verdict | the hooks of +i +b +d +e +I +l +k | each hook may overwrite the verdict of those before it, in load order |
| Channel state across servers (m_njoin, m_nmode, m_mode) | timestamp, members, operators, modes on every server | NJOIN, NMODE, MODE, relays, bursts | bursts that cross; MODE and KICK that race a merge |
| Mask lists (src/chanmode.c) | the masks of a list, the changes of a line | add, remove, apply, burst, NMODE | masks that cover masks are replaced while the list is walked; limits of a list and of a line |
| Server bans (m_gline, m_kline, lib/src/ini.c) | masks in a list, in sections in memory and in a file | GLINE, UNGLINE, burst, login, save, load | bans and logins in any order; restarts between saves; lists that grew apart |
| Outgoing connections (lib/src/connect.c) | status, timer, descriptor and query of a connect{} block | resolve, connect, timeout, retry, cancel | one timer slot for two purposes; the peer may link from its side |
| Lookups (lib/src/sauth.c, child.c, lc_sauth.c) | queries with timeouts, the helper process | ask, answer, time out, delete, relaunch | late answers; a helper that dies, and callbacks from within the walk over its queries |
| The helper (lib/servauth) | 256 queries, their sockets and timers, caches | DNS, ident and proxy lookups | each query ends by reply, refusal or timeout; limited tables |
| Byte queues (lib/src/queue.c, io.c) | blocks shared by queues | write, link, read, shift, zero, multicast | a shared block has the positions of all its queues in one place |
| Descriptors (lib/src/io.c, listen.c) | `io_list`, the array for poll | new, register, events, shut, destroy, handle | entries move under the walk; numbers come back |
| Timers (lib/src/timer.c, src/ircd.c, lc_mflood.c) | the sorted list | start, cancel, push, run, drift | callbacks, and lines that a callback runs, free timers the walk remembers; the clock is set |
| User modes, operators (src/usermode.c, oper.c, m_umode, m_oper) | a user's modes on every server, a list of users for each mode, an operator's type, block and place in the list | UMODE, OPER, NUSER, exit | one privilege kept in five places; relays drop what changes nothing here |
| Heaps (lib/src/mem.c) | blocks, free and used chunks, counters | alloc, realloc, free, collect | blocks are unmapped by what counters say; chunks grow in place |
| Topics, configuration, dispatch, formats | | | see "Not modelled" |

Interaction: the event loop calls `lclient_recv`, which parses lines and calls
message handlers; handlers call the core (`channel_join`, `client_exit`, ...),
the core calls the hooks modules registered, and everything a handler wants
others to know goes out by `server_send`, to all links but the one it came from.

## Modules

    JoinHooks ── JoinPolicy ──┬─ MCMembership ── MembershipProofs
        └─────── Membership ──┘
    ServerLinks ─┬─ ChanSync ──── MCChanSync, ChanSyncProofs
                 ├─ UserModes ─── MCMerge, with ChanSync
                 ├─ NickSync ──── MCNickSync; UsersProofs, with UserModes
                 ├─ MaskLists ─── MCMaskLists, with NetworkBans; MaskListsProofs
                 └─ NetworkBans ─ ClientsProofs, with LocalClients
    Networks: the small networks of these MC modules
    StrMatch ────── MaskLists
    ServerTree ──── MCServerTree, ServerTreeProofs
    LocalClients ── MCLocalClients
    Timers ─┬─ EventLoop ── MCEventLoop, LoopProofs
            └─ Connects ─┬─ Outgoing ── MCOutgoing, LoopProofs
    Lookups ─────────────┘
    Heaps ─(implements)─ HeapPromise              MCEventLoop, with EventLoop
    PollTable ───── LoopProofs, with EventLoop
    IOQueue ─(implements)─ ByteStreams            MCIOQueue
    Servauth ─(implements)─ HelperPromise         MCServauth, ServauthProofs

**JoinHooks** has one operator for each join hook of modules/chanmode: from the
verdict so far and what is true of the client and the channel to the next
verdict. **JoinPolicy** runs them as `hooks_call` does, in any order allowed by
`Before`; `Contract` is the part of the shipped order (conf/modules.conf.in) that
the promises rest on, so the runs say which load orders are safe.

**Membership** is one server's lists: where users are, members, local members,
channels of a user, privileges, modes, invites. One action for each handler that
changes them; each does all the deletions of its handler, because one handler is
one step of the daemon. Lists that the code keeps twice are two variables, so
that they can disagree. **MCMembership** adds an observer (`act`) of the command
and runs JoinPolicy beside it.

**ServerLinks** is what models of a network share: two ends for every link, each
`down`, `open` (handshake) or `up`, a queue in each direction, `server_send`, and
a link that breaks: one end at a time notices, loses what it had not read and
tells its other links by NQUIT. **ChanSync** adds a copy of one channel for every
server and the handlers of NJOIN, NMODE, MODE, PART, KICK and NQUIT; **NickSync**
what every server knows of every user and the handlers of NUSER, NICK, NBOUNCE,
QUIT and NQUIT. **MaskLists** adds one list of masks: how a line of MODE changes
is applied one by one, what each adds, bounces and removes, what members and
servers are told, and bursts. `Matches` says which mask covers which, and
`MaskOrder` what of an order that is: `str_match` takes a `*` of the mask it is
given as a character, so `a?` matches `a*` and `a*` matches `a?`, but only `a*`
matches `abc`. Matching is transitive where the last mask is `Plain`, that is,
without a `?` and without two stars in a row. **StrMatch** is `str_match` itself;
assumptions check it against its definition, and what `MaskOrder` says against
it, for all small texts. **UserModes** is usermode.c and what UMODE, OPER, NUSER and exits do
with it; three modes stand for all, one for each way a list of users is kept.
**MCMerge** runs it beside ChanSync. **NetworkBans** is m_gline.c on the same servers: the list, the
sections in memory and the file, logins and operators, shutdown and crash.

**ServerTree** is what ServerLinks takes as given: who is behind whom. Links
come up between any two servers, so circles close; `ms_nserver` drops a link
over which it is told of a server it knows.

**LocalClients** is the life of the connections of one server: accepted within
the class limits, logged in by NICK and USER in either order, pinged, closed.

**Timers** is the store of lib/src/timer.c, with blocks that are used again in
the order they were freed, so that a pointer kept too long comes to mean another
timer. **EventLoop** is the main loop with the timers of clients; where
lc_mflood's throttle timer runs a queued line (`RunLine`), any number of
registered clients may leave before it returns. **Connects**
is connect{} blocks with their timers in the same store; **Lookups** the queries
to the helper, the process, and the three lookups of a client; **Outgoing** puts
both together, as the address of a block is looked up by the same helper.

**PollTable** is `io_list`, `io_pfds` and the walk of `io_handle`, with the
handlers of a listener and of clients; `again` is the EAGAIN that a read which
filled its buffer exactly leaves behind. **IOQueue** is queue.c block by block;
**ByteStreams**, two private streams of bytes for each connection, is what it
must look like from outside, and `ActsAsStreams` says that it does.

**Heaps** is mem.c: a heap of equal chunks and one of chunks of any size, with
their blocks, gaps and counters. **HeapPromise** is what callers rely on: memory
that is nobody else's until it is given back; `ActsAsHeap` says that Heaps
implements it. **MCEventLoop** runs it beside the timers, which live in such a
heap.

**Servauth** is the helper process: its queries, descriptors, timers and caches,
the reverse cache with the entry `main` puts there (`PresetFact`).
**HelperPromise** says what Lookups relies on: one answer for each question, and
an answer that was not looked up repeats one that was, to a question about the
same, or is one the process starts with (`Given`); and `KeepsPromise` that Servauth
implements it.

Definitions marked "Not the code" in the modules are slips the code could have.
Nothing uses them; each breaks one property when it stands for the definition it
is named after, which shows that the property depends on the code.

## What the runs check

| Run | Instance | Shows |
|---|---|---|
| members_lists | 2 users, 2 channels, 1 other server, +i +P; all facts and all load orders within `Contract` for one JOIN | the lists agree and lead to nothing that is gone; the last one out ends a channel, except by KICK; +P channels outlive local members; +i, +l, bans and invites hold in each order (`VerdictHolds` is all four) |
| chans_race | 2 servers, 2 timestamps, 1 link | no takeover by a younger channel, whatever races the burst; members agree once nothing is under way, until a KICK crosses something |
| chans_merge | 3 servers in a row, one link made and lost twice in calm; 1 user, 3 modes, UMODE lines of 2 changes | both bursts leave equal copies, relayed correctly to the third server; users have the same modes everywhere, operators all or nothing of what makes one, and the lists of modes hold whom they should |
| nicks_agree | 3 users on 2 servers, a link lost and made again, nicknames changed in calm | servers agree who has which nickname; nobody is introduced twice |
| clients_login | 4 connections, 2 from one address, class of 3 with 2 references of its own, so three get in | unique nicknames, balanced class, limits; silent peers and stuck logins are dropped |
| io_streams | 2 connections, 6 blocks of 2 bytes, messages shorter and longer than a block | sizes, line counts, reference counts and events fit; the queues act as separate streams (refinement) |
| timers | 2 clients, 5 timers, one set of the clock, poll late by one; 3 regions, blocks of 2 chunks and of 12 bytes, chunks of 3 sizes | no pointer to a timer that is another's, none lost; the walk goes to a freed timer only where a line of the throttle freed it; called in time, never early; memory handed out is its holder's alone (refinement), and counters are right |
| poll_table | 4 descriptors: a listener and up to 3 clients | table and descriptors agree under all removals; all input is read, but for an end of file that a stale EAGAIN excuses |
| server_tree | 3 servers, all 3 links, 5 sessions | knowledge is a tree and agrees at rest; it comes to rest; no NSERVER with an unknown uplink |
| masks_agree | 2 servers, 4 masks, lists of 2, lines of 2 (3 with removals); 2 G-lines, 2 clients, 3 commands, 1 restart | lists keep their form and, of plain masks, agree; adding drops a mask only for one that stands in for it; bans hold, files follow, servers agree |
| outgoing | 1 block with a name, 1 client, 3 timers | timers, polled sockets and queries have one owner; blocks try again for ever; lookups end; only known cases stop the server |
| helper | 4 questions, 2 queries, 2 descriptors, caches of 1 | sockets stay with their queries; one answer each, from a lookup, a cache or the entry of main (refinement); lookups end |

**Bounds.** A link needs two servers, a relay a third; a collision needs two
users, a bounce into a used nickname a third; two timestamps give older, equal
and younger. `MaxSessions` bounds how often links are made, `MaxQueue` holds
clients and relays back while a link has that many messages: messages still cross
in both directions and a burst may exceed it. A run that needs calm says so in
`Calm`: `chans_merge` lets clients act and links change only while nothing is
under way, because `CopiesAgree` does not hold otherwise (below), `nicks_agree`
lets nicknames change only in calm. Handlers still meet all orders of the
messages of two bursts. In server_tree five sessions let each side of a closed
circle be dropped and made again. In io_streams the VIEW leaves out which free
block is which and the CONSTRAINT lets one connection receive: receive queues
share no blocks. In masks_agree two restarts or four commands were too many
states for one run; a row of three servers was checked separately for
`GLinesAgree`. Its four masks of a channel are two that match nothing else, one
with a `?` and a `*` above all. In timers two registered clients, one of them
throttled, need all five blocks; the clock is set in the behaviours that leave one
free. In poll_table `Fulls` names the one descriptor on which input may fill the
buffer exactly. In outgoing `FailAtOnce` is FALSE: a connect that fails at once
loses the retry timer (below). In helper the DNS questions are two reverse lookups, one
of them of the address that has a name from the start; a forward lookup, which
differs by having no cache, was checked in place of the first. With only one proxy
question the run does not meet two entries of the proxy cache between which the
verdict decides which one goes.
`MaxUnread` is 1 because the helper does nothing with lines it has not read.
`CHECK_DEADLOCK FALSE` is given where the bounds stop a run (sessions used up,
all users gone, hooks all run).

**Fairness** is that of the main loop, which comes round whatever peers do:
LocalClients assumes that a timer that is due is run (`WF` of `Expire(c)`), as
`timer_run` does at each pass; PollTable that the loop goes on (`WF_vars(Loop)`);
ServerTree that some end with something to read, register or notice does so;
Servauth that the timer of each query is run. Outgoing assumes that walks of
`timer_run` (or the restart after a stop) go on, that each timer that is due
again and again is called (`SF` of `Calls(n)`: a walk may end before it), that
queries expire and the death of the helper is noticed. Nothing is assumed of
clients, of answers, of links, or of the network.

## What is proved

`MembershipProofs`: first the promises of JoinPolicy in every load order that
contains `Contract`. The invariant `HookInv` says what the verdict must already be once the
hook that decides a promise has run (`InviteSettled`, `KeySettled`,
`LimitSettled`, `BanSettled`), which hook can have given each verdict
(`VerdictMeans`) and which hooks are still to run (`OrderKept`, where `Contract`
is used). It needs `InviteLedger` too: `cm_invex` may use up the invite, and
`cm_except` may then overwrite its verdict, before `cm_invite` runs; only the
masks that made this happen tell the later refusal from a missing invite.
`VerdictKept` puts the promises together; `BansAndInvitesKept` has `InviteSpent`.

Then, for any users, channels, servers and limits,
`IInv == TypeOK /\ LinksAgree /\ NoDangling /\ NoLeftovers` is an invariant of
Membership; persistent channels keep their local members, and an ordinary one goes
with its last member unless that was kicked (`LastOneOutClosesDoor`, of MCMembership's
specification, whose observer knows the command). None of the four
is inductive alone: that an exit takes all memberships of the user along rests
on `LinksAgree`, and that a new user is on no channel rests on `NoDangling`. All
handlers that remove are instances of the lemma `Removal`, those that add
members of `AdditionInv`.

`ClientsProofs`, first: for any finite set of connections and any limits,
`TypeOK`, `UniqueNicks`, `ClassCounts` and `LimitsHold` (the last two are what
`ClassHolds` states, theorem `ClassKept`). They are inductive
together; `refs \in Nat` needs that refs counts the open connections, and that a
connection in no state has no timer is what makes a timer safe. Everything that
happens to an accepted connection is a `Put`, and `PutIsSafe` says which are
safe. The assumptions are those in the modules: limits are natural numbers,
connections are finitely many, no name is empty.

`ChanSyncProofs`: `NoTakeover` for every tree of servers, set of users and
timestamps. It speaks of single steps and holds of a step from any well typed
state, so `TypeOK` is the whole invariant. The work is in `Handle`: lemmas say
what each message may do to a timestamp and to privileges, and `StepShape` that
every step is one `Handle` or leaves copies alone. `MembersAgree` needs the queues:
read in order, the messages on a link make the reader's members, of the users on
the sender's side, the sender's (`After`, `LinkTells`). It holds because a handler
relays exactly what it did to its own members (`Says`, `HandleActs`), because what
an end sends is of users on its own side (`Outward`) - so that what comes from the
other side does not disturb it -, because an end that is not up has no members
behind the link, to whom a burst then brings all (`BurstMembers`), and because a
member is local or behind a link that is up (`Reached`). `OnKick` keeps none of
this up, as it asks for the sender's privilege, and the servers may differ in
that: the invariant speaks of the time before the first KICK, as the property does.

`UsersProofs`: `IntroducedOnce` of NickSync, `OperatorsAgree`, `UsersListed` and
`ModesAgree` of UserModes, for any tree of servers, users, names and lines. All rest on who
knows whom, and there the invariant has to speak of what is on its way
(`Introduced`): what an end sends is of users on its side of the link; between
two introductions of a user in one queue there is his end (QUIT, or the NQUIT of
a link he is behind); and whoever the sender no longer knows has his end behind
his last introduction, so that the sender may introduce him again. An end that is
not up knows nobody behind the link, and everybody who is known is local or
behind a link that is up, which is why a burst is of the right users. The lemmas
on this (`Said`, `Heard`, `OpenLinkIs`, `RegisterLinkIs`, `CloseLinkIs`) ask of a
message only what it begins and ends, so both modules use them. In UserModes it
says that NUSER finds an empty place. What a server has of a user then is in order
(`Fits`) after every single change of a line: `usermode_parse` leaves no two
changes alike (`Unlike`) and none that changes nothing (`Real`), and no relayed
line has `+o` with an argument (`SentChange`), as a local one is bounced; without
any of these a user would be listed twice. `ModesAgree` adds what a queue owes:
read in order, its messages make of what the reader has of a user on the sender's side what the sender
has (`Turns`). A server says of each user what it did to its own copy (`TurnsBy`);
a line it sends has each mode once and none without effect (`Apt`), so the next
server, whose copy is by then the same, parses it to itself (`ParsedSame`), applies
all of it and relays it unchanged. A burst starts from nobody known.

`MaskListsProofs`: `ListsKept` and `DropsReplaced` for any masks, limits and tree
of servers. A line is run change by change, so `Sound` says what holds between
two changes: that who had seen the old list and replays what was told so far sees
the list there is now. Each operation keeps it (`DropSound`, `PutSound`,
`AddSound`), and `ApplyWithin` says that what every change keeps, the line keeps.
That additions replace what they drop rests on three things: the mask for which
others went, if it is then stopped itself, is matched by one that stays, and that
one stands in for those (`StandsFor`, by `MaskOrder`: if it is plain it matches
them, otherwise all plain masks that match it do); a list from which masks went
has room; and an NMODE only adds (`Message`).

`ClientsProofs`, second: `GLinesHold` for any masks, covering each other in any way
in which a mask covers itself. After a restart the list is uncovered only because the file was
when it was written; then `m_gline_loaddb` leaves it as the file has it
(`LoadedIsFile`). `IInv` adds that, and what messages carry.

`LoopProofs`, first: `PointersAgree` and `NeverEarly` for any clients, heap,
intervals and settings of the clock. `PointersAgree` is not inductive: why the
block that `timer_run` has remembered is never freed by a callback shows only in
the order of `timer_list`. A callback that runs no line frees one block at most, the ping timer
of its client, which is the timer being called or, when the throttle is called,
stands before it; `Has` keeps the kinds and the order of a client's timers, and
`Remembers` says that the walk has what stands behind. A line frees ping timers of
any clients. Either none of them is the block behind, and it keeps its place while
what stood between goes; or it is (`astray`), and then the freed block has no
references and is not on the list, so that the next step is the `Crash`. `NoneEarly` bounds real
time by the deadline both before and after `timer_drift` makes its correction,
which is why a clock set back does no harm. `Kept` says of each operation which
timers it may touch.

`CalledInTime`, which says how late a timer can be when the clock was set `steps`
times, rests on a second invariant beside `IInv`, `LateInv`: two numbers say how
late timers may be found by the next `timer_run` and by how much deadlines have
been moved too far, and settings of the clock pay for both. A timer that the walk
has been at is due again an interval later (`DueBy`); that the walk gets to all
of them, though callbacks and lines free timers around it, is `Walked` and
`BehindFacts`. `LateInv` speaks of servers that are not lost: after `astray` no
`timer_run` comes to its end.
The theorem is under `Punctual`: poll is late by no more than `TIMER_MAX_DRIFT`
(timer.c:866), or `timer_drift` moves all deadlines as if the clock had been set,
and by no more than an interval, as `timer_run` calls a timer once on its way.
A server that is stopped for longer is late by as much, for good.

`LoopProofs`, second: `TableAgrees` for any number of descriptors. The invariant is
on the table as a record, with a lemma for each operation of io.c. It needs the
way back from `io_pfds` to `io_list` (`Linked`), because an entry moves down with
the descriptor it names, and it is silent about a live descriptor that is not in
`io_pfds` while a handler runs: `io_handle` takes one out before it calls what
destroys it. That no more descriptors are live than there are entries is counted
by a bijection between the two.

`LoopProofs`, third: `Owned` and `StaysUp` of Outgoing for any connect{} blocks,
clients, lookups and services, when no connect() fails at once (`~FailAtOnce`:
otherwise the retry timer is lost, below). The invariant `OutInv` has two halves.
`ConnInv` says of each block that it has a timer just while it is to connect, of
the right kind, that no second timer names it, and that a polled socket it has lost
comes from a login that crossed (`Strays`); the lemmas go through the handlers as
the code calls them, and say at the end what a step may do to a query
(`QueryStep`). `LInv` says that a lookup waits for one query or for proxies only
(`Few`), that each query of a lookup is waited for and the other way round
(`Waited`), and that a lookup has a client that still waits or is gone (`Owns`).
A callback may launch the helper, delete and ask; `Busy` is what holds in its
middle and `Done1` what it leaves to other lookups. From that follows why
`sauth_recover` may remember the next query while it calls back for this one: a
failed lookup deletes no query but its own, unless a proxy is found
(`TellFacts`). `HelperOK` and `Later` do the same for the process: whatever a
callback launches, a relaunch timer or a child is there, and no callback brings
a process to its end. The two halves meet in `QueriesAgree`.

`ServerTreeProofs`: `TreeOK` and `Agreed` for any finite set of servers, links and sessions.
`TreeOK` says nothing of what is on its way, and is not inductive. `TreeInv` adds
that the lines on their way to a server, applied one after the other to what it
knows over the link, introduce only servers that are not there, under one that
is, and take away only what is there, and that they lead to what the sender knows
over its other links (`Leads`, `LinkOK`): so `ms_nserver` finds the uplink. That
NQUIT takes with it all that is behind a server, and nothing else, needs that the
tree holds nothing but what grows from its root (`Grown`), and that each branch
is known over one link. What an end sends to all but one, it sends to views that
differ by the same servers (`OtherLinks`). The lemmas are on views, that is,
functions from servers to uplinks: what a line makes of a view, what `Below`
finds (the smallest set closed under children), and how a change of one tree
shows in the views of all its links. `Agreed` follows from the same invariant,
and from `OverLinks` (who is known is known over a link): when nothing is on its
way, what one end heard is what the other told, so both know the same servers and
the same edges (`Alike`), and so does everybody in the tree, as each server has
its uplink as a neighbour (`AllAlike`). The links that are up then are the edges
of one tree, two for each server but its root (`EdgesCounted`, by bijections).

`ServauthProofs`: `SocketsOwned`, and the refinement of HelperPromise, step by
step. A step of the helper is an operation on its whole state, so the invariant
is `Sound(State)`, with a lemma for each operation, and `Shape` says which step
of the promise a step is. `SocketsOwned` needs that owned descriptors are open
(so the lowest free one is nobody's) and that the cache's order of use names
places of the cache, none twice (the entry of `main` is not in it until it is
used); the promise needs that no question is under way twice (`Single`).

The assumptions are those in the modules. They say that bounds are natural
numbers, sets of connections, users and (in ServerTree) servers finite, distinguished values distinct,
that links are symmetric and, as in a tree, nobody is behind both ends of a link
and who is behind a further link is behind those before it; in Servauth that no
pair of question and verdict is `None`, in EventLoop that every block of the heap
is free once at the start and intervals are positive; in Outgoing that timers and
client blocks are free once at the start, there are at least as many timers as blocks,
services are listed once, and the names that are asked for are those of blocks.

Some definitions are written so that they can be reasoned about: a freed timer or
a change that is replaced is taken out at its place (`RemoveAt`), a G-line by
`RemoveFirst`, and `CollectTimers`, `Loaded`, `Apply` and `Only` of MaskLists, and
`Parsed` and `Apply` of UserModes, `Below` of ServerTree, `AddAll` of Connects, and
`Without`, `CheckProxy` and `FailAll` of Lookups, are recursive functions. That such a function
exists and what it keeps is proved by the least counterexample (`LeastIn`), as the
prover cannot use induction theorems.

Model-checked only:

- Liveness (`WaitsEnd`, `InputIsRead`, `Settles`, `TriesAgain`, `LookupsGoOn`,
  `AllAnswered`), which is out of the prover's reach.
- That copies agree of which both sides of a link change (`CopiesAgree`,
  `NamesAgree`, `ListsAgree`, `GLinesAgree`): true when nothing is under way, for
  reasons that lie in all orders of the messages of two bursts. Who is on a channel
  or known at all is decided by one side of a link, so that one queue says what is
  owed; a timestamp, a mask or a nickname is decided by both queues together.
- `QueuesAgree`, `HeapsTidy` and the refinements `ActsAsStreams` and `ActsAsHeap`:
  they sum over sequences and sets (folds), so they need induction over data.

## Where code and documents disagree, and what the runs leave out

Found while modelling. Where a property leaves a case out, its definition says so
and the case is here.

Channels:

- A +I mask admits a banned client to a +i channel: cm_ban.c:93 stops when the
  join is already refused, and cm_invex.c lifts the refusal
  (`BanHoldsOutsideInvex` states what holds). `cm_except` overwrites the verdict
  of the invite, so an invited client that a +e mask matches is refused by a full
  or keyed channel.
- `hooks_call` passes four arguments; the kick hooks read more
  (chanuser.c:845), and what they find decides whether a halfop may kick an
  operator.
- `chanuser_is_owner` lets any local member OPART (m_opart.c:159); `m_invite`
  checks nothing of the sender; `ms_part` and `server_split` end persistent
  channels. A channel emptied by KICK is never deleted and, being empty, not sent
  in a burst.
- MODE carries no timestamp: one that races a merge leaves copies that differ,
  though rfc2810.txt:322 has servers keep one state; so does a link lost while
  two bursts merge in a row of three servers, and a KICK, since every server
  checks the kicker's privileges against its own copy. `ms_nmode` lowers a
  timestamp without taking anything away.
- chanmode.h:27 allows 16 modes in a line between servers, but `chanmode_parse`
  stops after IRCD_MODESPERLINE (chanmode.c:510): a line that removals made
  longer is read in part (`lost` in MaskLists).
- A ban removed by name removes masks that match either way round, so crossing
  changes of overlapping masks differ; `-b` is not normalised as `+b` is; a
  bounced `nick!user` mask loses its user part; `+k new` overwrites a key though
  it is bounced; `chanmode_drop` clears keys and limits without telling, and a
  burst does not have them; NMODE writes time stamps relative to the first mask
  and reads them cumulatively; `str_match` gives up after 512 turns.
- A `?` matches a `*` in a mask (str.c:1364), so an addition can lift a ban: of
  the list `abc!*@*`, `a?!*@*` the line `+b a*!*@*` drops the first, as the new
  mask matches it, and then bounces at the second, which matches the new mask but
  no client the first did (`DropsReplaced` says what holds). With such masks the
  order of additions decides what a list becomes, so lists of two servers may
  differ (`vague` in MaskLists).
- Copies of topics do not agree: `ms_ntopic` drops what it gets whenever there is
  a topic, NJOIN clears a topic but keeps its time, and TOPIC carries none.

Users, servers and bans:

- A bounce may pick a nickname whose NUSER is on its way: two users with one
  nickname, against rfc2813.txt:183. So may a NICK that crosses an NBOUNCE or
  another NICK (`ms_nick` and `ms_nbounce` look at nothing), equal timestamps,
  and the time between `lclient_login` and `lclient_register` when a login waits.
- `client_nick` relays its own clock where NICK came with the sender's, and
  `client_set_name` overwrites the timestamp of an NBOUNCE. `client_nick_rotate`
  builds the same rotation in every iteration.
- `lclient_handshake` says of an invalid nickname "let the user try again", but
  keeps it, and `mr_nick` ignores a second NICK while there is a name: the client
  waits for its login to time out. An empty nickname passes `chars_valid_nick`
  and is never found in use.
- `lclient_accept` subtracts all listen and connect blocks from a refcount they
  are not part of, but not what else is (`class_add`, `class_pop` of the class{}
  and of oper{} blocks), and compares with `>` (`LimitsHold` states what holds).
- `m_gline_savedb` opens its file truncated and `ini_save` writes nothing when
  nothing changed (ini.c:540, under the comment "Save all sections to an INI
  file"): a second save, or a shutdown after one, empties the file, and all bans
  are gone at the next start (`GLinesHold` allows the empty file). A change of a
  ban's reason is not written; a ban lifted during a split or before a crash
  comes back with the burst or the file.
- UNGLINE removes the first mask that covers the one it names, so servers whose
  lists differ, or that get it during a burst, end with different bans
  (`uneven`). `m_gline_find` takes 10.0.0.0/8 as covered by 10.0.0.0/16
  (m_gline.c:458) and refuses the broader ban, as it does where an entry's user has
  a `?` for the `*` of the new one. `GLinesAgree` is checked where masks that cover
  one another match the same clients. `ms_gline` relays without the
  reason; `mo_ungline` reads the entry it has freed. Operators are exempt, and
  stay when they are none any more until another GLINE (`former`).

Connections and timers:

- timer.c:1101 says "Safely walk through timer list as we may remove some timer",
  but the walk is safe only from the removal of the timer being called.
  lc_mflood's throttle timer runs a queued line (lc_mflood.c:273). If it is an
  operator's KILL or GLINE and ends the client whose ping timer is next, the walk
  goes to a freed block, finds no reference there, and `dlink_delete` goes through
  a null pointer (`Crash`, `astray`).
- An `io_queued_read` whose last `recv` would block, because the buffers before it
  were filled exactly, leaves EAGAIN in `io_list` (io.c:364). An end of file after
  it sets nothing, so `io_handle_fd` takes it for "not yet" (io.c:598): the
  descriptor is neither closed nor removed, and poll reports it for ever, which
  keeps the loop busy until a ping timeout, a failed write or a KILL ends the
  connection (`again`; `InputIsRead` leaves it out).
- A clock set forward makes timers early, because `timer_run` comes before
  `timer_drift` (ircd.c:458); `NeverEarly` leaves that out. A clock set back
  makes them late for good (`CalledInTime`).
- In connect.c a connect that fails at once loses its retry timer
  (`FailAtOnce`); `lclient_vexit` cancels and then retries, and the retry does
  nothing, though lclient.c:999 says "Maybe connect retry on servers"; a retry
  that a callback arms in the slot it runs in is pushed on by another interval.
  Where connect.c:709 says "Close underlying socket", `io_shutup` takes it out of
  the poll table and never closes it, so what times out or is cancelled
  (connect.c:556) keeps its socket and number (`shut`; `Owned` is of sockets that
  are polled, and that descriptors run out is not modelled).
  `server_login` sets the block's descriptor to -1 before the cancel
  (server.c:662), so a pending socket stays polled (`crossed`); a refused login leaves
  the block done. NXDOMAIN counts as an answer, and the block connects to
  0.0.0.0. Each refused connect of a block with a name leaks its query.
- lc_sauth never stores its query in the connection, so a lookup outlives its
  client and goes on with whoever has the block; late answers go through null
  pointers. A helper that dies again before its relaunch (3 seconds; sauth.h:49
  says 15) ends the server through a null pointer (`hp.child`). `StaysUp` leaves
  these out. A fork that fails is not tried again. lc_cookie and lc_sauth return
  nothing where `hooks_call` adds up results. The shipped configuration loads
  neither.
- In the helper, an ident peer that closes without a line destroys the
  descriptor; the timeout ten seconds later shuts the number, which may be
  another lookup's by then, or else has index 0, so that the control connection
  leaves the poll table: the process lives and reads nothing any more (`lost`,
  "deaf"; in builds that use poll). A DNS socket whose connect fails at once
  leaves the same stale number. Timeouts of ident and proxy lookups leave their
  sockets open, until there is no descriptor left, which ends the process
  ("shut", `Dead`). A truncated answer is asked for again over TCP, where nothing
  reads it. The 257th query, a proxy cache full of "n/a" and an ident reply
  without a colon are null pointers (`Dead`). Names that timed out are cached as
  having none, for ever. `main` means to make 127.0.0.1 known as localhost
  (servauth.c:239), but `net_addr_loopback` is never set to anything but
  NET_ADDR_ANY (net.c:74), so it is 0.0.0.0 that has the name (`Preset`).
- `conf_rehash` takes one off the count of every block right after `conf_read`,
  which only registers a callback (conf.c:420), and deletes what reaches 0: what
  the new file keeps is given its count back when it is read, later, and by the
  readings that come to their end only. `dlink_foreach` over a list from which
  the body deletes (conf.c:422) ends at the deleted block, as `dlink_delete`
  zeroes its node.
- `io_set_events` of a descriptor at end of file writes before the array
  (PollTable takes it to have no effect). `io_destroy` frees the blocks of a
  queue only if it is not empty.
- `UMODE -o x`, with an argument, ends the privileges of an operator
  (um_operator.c:100) but leaves +o shown (`usermode_apply` changes no bit where
  there is an argument); `oper_down` leaves `cptr->oper`, so that whoever gave +o
  up cannot OPER again in the session (m_oper.c:125). NUSER puts no remote
  operator into the list of mode o, while a relayed UMODE does (`UsersListed`
  says "at most"). `usermode_register` links users by `USERMODE_ON` where its
  comment says USERMODE_LIST_OFF (usermode.c:149): a mode loaded while users are
  on lists the wrong ones. A login over SSL sets bits of other modes
  (`(int)'p' - 0x40`, lclient.c:1238).
- In mem.c the end of a dynamic block is taken for a header further back than it
  is when a chunk is freed or resized (mem.c:596, mem.c:1073): the last chunk of
  a block may grow up to `sizeof(struct dblock)` behind it (`Top` in
  `ActsAsHeap` allows that; with `Top <- Payload` TLC finds it). The first chunk
  of an empty block is put there whatever its size; a chunk that is resized is
  not padded; `mem_dynamic_collect` leaves the byte counts of the heap.

## Not modelled

- Message text, numerics, logging; links without CAP_UID; keys, limits, halfops
  and +P across servers; topics; the backlog of persistent channels; refcounts of
  `chanuser_pop`/`push`; passwords and capabilities of servers.
- Modes of users that are loaded later, and how operators are configured.
- Message dispatch, configuration, listeners, services: tables that are built at
  start and looked up. A rehash is not modelled either.
- Select instead of poll, SSL, pipes and files, children that start by
  themselves; in the helper the user database, resolv.conf and the formats of
  packets.
- Lists, modules and hooks as data structures; destroying a heap. Where a freed block that
  is used again matters, the model of its user has it (Timers, Lookups).
- Formats and tools, and the graphics, font and HTML code in lib/ and the
  vendored libowfat (two thirds of the lines), have no part in the protocol and
  no state that outlives a call.

Each component is listed with its status and reason in `PROJECT.json`.

## Plan

1. **HeapsProofs**: the steps of the refinement to HeapPromise that do not sum.
2. Composition: LocalClients with NickSync (registration feeds NUSER), and
   Membership as what one server of ChanSync does to its copy.
