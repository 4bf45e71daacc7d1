----------------------------- MODULE PollTable -----------------------------
(***************************************************************************)
(* The file descriptors of lib/src/io.c: io_list, indexed by descriptor,   *)
(* and the array io_pfds that poll() sees, which io_handle walks while the *)
(* handlers it calls take entries out of it and put new ones in.           *)
(*                                                                         *)
(* The handlers are those of a listener (lib/src/listen.c) and of a local  *)
(* client (src/lclient.c).  The kernel gives out the lowest free           *)
(* descriptor, so a number comes back soon after it was closed.            *)
(***************************************************************************)
EXTENDS Integers, Sequences, SequencesExt, FiniteSets, FiniteSetsExt

CONSTANTS
  MaxFd,       \* bound: the highest descriptor
  Fulls        \* bound: descriptors on which input may fill the buffer exactly

MaxFdAssumption == MaxFd \in Nat \ {0}
ASSUME MaxFdAssumption

Listener == 1
Fd       == 1..MaxFd

VARIABLES
  t,        \* io_pfds and io_list
  stage,    \* "poll", "timers", "handle": what ircd_loop does next
  pos,      \* i of io_handle, counted from 1
  input,    \* what a connection has to read: "none", "line", "eof"
  again     \* connections whose io_list error is EAGAIN

pollVars == <<t, stage, pos, input, again>>

-----------------------------------------------------------------------------
(* io.c.  u.pfds is io_pfds, the other fields are io_list; index counts     *)
(* from 1, and 0 is the code's -1.                                          *)
Empty ==
  [pfds |-> <<>>, type |-> [f \in Fd |-> "none"], index |-> [f \in Fd |-> 0],
   events |-> [f \in Fd |-> {}], revents |-> [f \in Fd |-> {}], queued |-> {}]

\* Not the code: the first entry instead of the next one.
NewIoFirst(u, f, type) ==
  [u EXCEPT !.pfds = <<[fd |-> f, events |-> {}]>> \o u.pfds,
            !.index = [g \in Fd |-> IF g = f THEN 1
                                    ELSE IF u.index[g] > 0 THEN u.index[g] + 1 ELSE 0],
            !.type[f] = type, !.events[f] = {}, !.revents[f] = {}, !.queued = u.queued \ {f}]

\* io_new: wipes what was there, and io_add_fd.
NewIo(u, f, type) ==
  [u EXCEPT !.pfds = Append(u.pfds, [fd |-> f, events |-> {}]),
            !.index[f] = Len(u.pfds) + 1,
            !.type[f] = type, !.events[f] = {}, !.revents[f] = {}, !.queued = u.queued \ {f}]

\* Not the code: the entries that move keep their old index.
RemoveFdOnly(u, f) ==
  IF u.index[f] \notin DOMAIN u.pfds THEN u
  ELSE [u EXCEPT !.pfds = RemoveAt(u.pfds, u.index[f]), !.index[f] = 0]

\* Takes out whatever is at the index, and moves down what follows.
RemoveFd(u, f) ==
  LET moved == {u.pfds[j].fd : j \in u.index[f] + 1..Len(u.pfds)}
  IN  IF u.index[f] \notin DOMAIN u.pfds THEN u
      ELSE [u EXCEPT !.pfds = RemoveAt(u.pfds, u.index[f]),
                     !.index = [g \in Fd |-> IF g = f THEN 0
                                ELSE IF g \in moved THEN u.index[g] - 1 ELSE u.index[g]]]

\* With an index of -1 the code writes in front of io_pfds.
SetEvents(u, fs, e) ==
  [u EXCEPT !.events = [g \in Fd |-> IF g \in fs THEN u.events[g] \cup e ELSE u.events[g]],
            !.pfds = [j \in DOMAIN u.pfds |->
                        IF \E g \in fs : u.index[g] = j
                        THEN [u.pfds[j] EXCEPT !.events = u.pfds[j].events \cup e]
                        ELSE u.pfds[j]]]

UnsetEvents(u, f, e) ==
  [u EXCEPT !.events[f] = u.events[f] \ e,
            !.pfds = [j \in DOMAIN u.pfds |->
                        IF u.index[f] = j
                        THEN [u.pfds[j] EXCEPT !.events = u.pfds[j].events \ e]
                        ELSE u.pfds[j]]]

\* io_write to descriptors with a send queue.
Write(u, fs) == SetEvents([u EXCEPT !.queued = u.queued \cup fs], fs, {"w"})

\* io_queued_write that gets rid of everything.
Flush(u, f) == UnsetEvents([u EXCEPT !.queued = u.queued \ {f}], f, {"w"})

\* io_destroy with io_shutup: what is queued still goes out if it can, then
\* all about the descriptor is wiped.
Destroy(u, f) ==
  IF u.type[f] = "none" THEN u
  ELSE LET v == RemoveFd(u, f)
       IN  [v EXCEPT !.type[f] = "none", !.events[f] = {}, !.revents[f] = {},
                     !.queued = v.queued \ {f}, !.index[f] = 0]

-----------------------------------------------------------------------------
(* Handlers                                                                *)
Conns(u)  == {f \in Fd : u.type[f] = "conn"}
FreeFd(u) == {f \in Fd : u.type[f] = "none"}

\* Bound: everybody, like a channel all are in, or nobody.
Audience(fs) == {{}, fs}

\* lclient_exit: an ERROR to itself, its leaving to others, and io_destroy.
ExitOf(u, f, others) == Destroy(Write(u, others \cup {f}), f)

\* listen_accept, and lclient_accept with a class or without.
Accepted(u, ok) ==
  LET f == Min(FreeFd(u))
      v == SetEvents(NewIo(u, f, "conn"), {f}, {"r"})
  IN  IF ok THEN v ELSE Destroy(v, f)

\* Who wanted to connect may be gone before he is accepted.
HandleListener ==
  /\ \/ UNCHANGED t
     \/ /\ "r" \in t.revents[Listener] /\ FreeFd(t) # {}
        /\ \E ok \in BOOLEAN : t' = Accepted(t, ok)
  /\ UNCHANGED <<input, again>>

\* The send queue before the callback: all, some or nothing could be sent.
Written(u, f) ==
  IF "w" \notin u.revents[f] THEN {u}
  ELSE {Flush(u, f), u}

\* What a line makes lclient_recv do: send, leave, or make another leave.
Obeyed(u, f) ==
  LET sends == {Write(u, to) : to \in Audience(Conns(u))}
      exits == UNION {{ExitOf(u, g, to) : to \in Audience(Conns(u) \ {g})} : g \in Conns(u)}
  IN  sends \cup exits

\* End of file, or a write that fails: out of the table before lclient_recv
\* is called, which then exits.  Input that fills the buffer to the last byte
\* makes io_queued_read try once more, and leaves EAGAIN as the error until a
\* shorter read: an end of file is then taken for "not yet".
HandleConn(f) ==
  LET reads   == "r" \in t.revents[f]
      excused == input[f] = "eof" /\ f \in again
      hup     == reads /\ input[f] = "eof" /\ ~excused
      fails   == "w" \in t.revents[f] /\ f \in t.queued
      line    == reads /\ input[f] = "line"
  IN  /\ \/ /\ hup \/ fails
            /\ \E to \in Audience(Conns(t) \ {f}) : t' = ExitOf(RemoveFd(t, f), f, to)
         \/ /\ ~hup
            /\ \E v \in Written(t, f) :
                 IF line THEN t' \in Obeyed(v, f) ELSE t' = v
      /\ input' = [g \in Fd |-> IF (g = f /\ reads /\ ~excused) \/ t'.type[g] = "none"
                                THEN "none" ELSE input[g]]
      /\ \E filled \in SUBSET ({f} \cap Fulls) :
           again' = (IF line THEN (again \ {f}) \cup filled ELSE again) \cap Conns(t')

\* io_handle: i goes on by one whatever has happened to the array.
HandleFd ==
  /\ stage = "handle" /\ pos <= Len(t.pfds)
  /\ IF t.pfds[pos].fd = Listener THEN HandleListener ELSE HandleConn(t.pfds[pos].fd)
  /\ pos' = pos + 1
  /\ UNCHANGED stage

\* No event of this pass is looked at again: io_set_revents starts from 0.
HandleDone ==
  /\ stage = "handle" /\ pos > Len(t.pfds)
  /\ t' = [t EXCEPT !.revents = [f \in Fd |-> {}]]
  /\ stage' = "poll" /\ pos' = 1
  /\ UNCHANGED <<input, again>>

-----------------------------------------------------------------------------
(* The loop and the kernel                                                 *)
\* Somebody may always be there for the listener to accept.
Readable(f) == f = Listener \/ input[f] # "none"

\* io_poll; io_set_revents on every entry.
PollFds ==
  /\ stage = "poll"
  /\ \E writable \in {{}, t.queued} :
       t' = [t EXCEPT !.revents = [f \in Fd |->
              IF t.index[f] = 0 THEN t.revents[f]
              ELSE {e \in t.pfds[t.index[f]].events :
                      IF e = "r" THEN Readable(f) ELSE f \in writable}]]
  /\ stage' = "timers"
  /\ UNCHANGED <<pos, input, again>>

\* timer_run: a ping timeout ends a connection before its events are handled.
Timers ==
  /\ stage = "timers"
  /\ \/ UNCHANGED <<t, input, again>>
     \/ \E f \in Conns(t), to \in Audience(Conns(t)) :
          /\ t' = ExitOf(t, f, to \ {f})
          /\ input' = [input EXCEPT ![f] = "none"]
          /\ again' = again \ {f}
  /\ stage' = "handle"
  /\ UNCHANGED pos

Arrive(f, what) ==
  /\ stage = "poll" /\ f \in Conns(t) /\ input[f] = "none"
  /\ input' = [input EXCEPT ![f] = what]
  /\ UNCHANGED <<t, stage, pos, again>>

PollInit ==
  /\ t = SetEvents(NewIo(Empty, Listener, "listen"), {Listener}, {"r"})
  /\ stage = "poll" /\ pos = 1
  /\ input = [f \in Fd |-> "none"]
  /\ again = {}

Loop == HandleFd \/ HandleDone \/ PollFds \/ Timers

PollNext ==
  \/ HandleFd \/ HandleDone \/ PollFds \/ Timers
  \/ \E f \in Fd, what \in {"line", "eof"} : Arrive(f, what)

\* ircd_loop goes on.
PollSpec == PollInit /\ [][PollNext]_pollVars /\ WF_pollVars(Loop)

-----------------------------------------------------------------------------
PollTypeOK ==
  /\ stage \in {"poll", "timers", "handle"} /\ pos \in 1..MaxFd + 1
  /\ input \in [Fd -> {"none", "line", "eof"}] /\ again \subseteq Fd
  /\ t.index \in [Fd -> 0..MaxFd] /\ t.queued \subseteq Conns(t)
  /\ t.events \in [Fd -> SUBSET {"r", "w"}] /\ t.revents \in [Fd -> SUBSET {"r", "w"}]

(* io_pfds and io_list describe the same descriptors: each live one has    *)
(* one entry, knows where it is, and agrees with it about the events,      *)
(* after however many entries have moved (io_remove_fd).  Nobody's input    *)
(* goes unwatched, and nobody's output while it is queued.                  *)
TableAgrees ==
  /\ PollTypeOK
  /\ Len(t.pfds) = Cardinality(Conns(t)) + 1
  /\ \A f \in Conns(t) \cup {Listener} :
       /\ t.index[f] \in DOMAIN t.pfds
       /\ t.pfds[t.index[f]] = [fd |-> f, events |-> t.events[f]]
       /\ "r" \in t.events[f]
       /\ f \in t.queued => "w" \in t.events[f]

(* Though io_handle passes over the entry that moves into the place of one *)
(* removed, whatever can be read is read: entries only ever move down.     *)
(* Not an end of file behind input that filled the buffer: io_handle_fd    *)
(* takes it for EAGAIN, and keeps a connection that poll() reports for     *)
(* ever, until a ping timeout, a failed write or somebody's KILL ends it.  *)
InputIsRead ==
  \A f \in Fd \ {Listener} :
    (input[f] # "none") ~> (input[f] = "none" \/ (input[f] = "eof" /\ f \in again))
=============================================================================
