------------------------------ MODULE IOQueue ------------------------------
(***************************************************************************)
(* The byte queues of connections (lib/src/queue.c) and what lib/src/io.c  *)
(* does with them.                                                         *)
(*                                                                         *)
(* A queue is a list of blocks of a fixed size.  A message to many clients *)
(* is written once, and its blocks are linked to the send queue of each of *)
(* them; a block counts its queues.  A shared block cannot hold the read   *)
(* and write positions of all its queues, so each queue keeps those of its *)
(* first and its last block itself, twice when there is only one block.    *)
(*                                                                         *)
(* Bytes are members of a small set, one of them the newline.              *)
(***************************************************************************)
EXTENDS Integers, Sequences, FiniteSets, SequencesExt

CONSTANTS
  Conn,       \* connections (the file descriptors of clients and servers)
  Block,      \* blocks of queue_heap
  ChunkSize,  \* QUEUE_CHUNK_SIZE
  Message,    \* what is written at once: non-empty sequences of bytes
  MaxQueued,  \* bound: bytes in a queue before nothing more is written to it
  NL          \* the newline

ASSUME SizesAssumption == ChunkSize \in Nat \ {0} /\ MaxQueued \in Nat

VARIABLES
  data,   \* the bytes of each block
  info,   \* struct finfo of each block
  refs,   \* its refcount, 0 when it is free
  sendq,  \* the send queue of each connection, a struct fqueue
  recvq,  \* its receive queue
  wants   \* connections whose IO_WRITE event is requested

vars == <<data, info, refs, sendq, recvq, wants>>

Byte    == UNION {Range(m) : m \in Message}
NoInfo  == [head |-> 0, tail |-> 0, size |-> 0, lines |-> 0]
Empty   == [blocks |-> <<>>, size |-> 0, lines |-> 0,
            head |-> NoInfo, tail |-> NoInfo]         \* queue_zero
Blank   == [i \in 1..ChunkSize |-> NL]
Store   == [data |-> data, info |-> info, refs |-> refs]

Lines(s) == Cardinality({i \in DOMAIN s : s[i] = NL})

\* What a queue function works on: the store of blocks and one queue.
On(s, q) == [s |-> s, q |-> q]

-----------------------------------------------------------------------------
(* queue_write                                                             *)
LastOf(q)  == IF q.blocks = <<>> THEN "none" ELSE q.blocks[Len(q.blocks)]
FirstOf(q) == IF q.blocks = <<>> THEN "none" ELSE q.blocks[1]

\* Not the code: goes on in a block other queues have, too.
NeedsBlockShared(x) == x.q.blocks = <<>> \/ x.q.tail.tail = ChunkSize

NeedsBlock(x) ==
  \/ x.q.blocks = <<>>
  \/ x.q.tail.tail = ChunkSize
  \/ x.s.refs[LastOf(x.q)] > 1

\* The positions of the last block are put away before a new one is begun,
\* in the block itself only if no other queue has it.
AddBlock(x) ==
  LET b    == CHOOSE c \in Block : x.s.refs[c] = 0
      last == LastOf(x.q)
      kept == IF last # "none" /\ x.s.refs[last] = 1
              THEN [x.s.info EXCEPT ![last] = x.q.tail] ELSE x.s.info
      head == IF FirstOf(x.q) = last THEN x.q.tail ELSE x.q.head
  IN  On([x.s EXCEPT !.refs[b] = 1, !.info = kept],
         [x.q EXCEPT !.blocks = Append(@, b), !.head = head, !.tail = NoInfo])

WriteByte(x0, c) ==
  LET x == IF NeedsBlock(x0) THEN AddBlock(x0) ELSE x0
      n == IF c = NL THEN 1 ELSE 0
  IN  On([x.s EXCEPT !.data[LastOf(x.q)][x.q.tail.tail + 1] = c],
         [x.q EXCEPT !.tail.tail = @ + 1, !.tail.size = @ + 1,
                     !.tail.lines = @ + n, !.size = @ + 1, !.lines = @ + n])

Write(x0, msg) ==
  LET x == FoldLeft(WriteByte, x0, msg)
  IN  On([x.s EXCEPT !.info[LastOf(x.q)] = x.q.tail],
         [x.q EXCEPT !.head = IF FirstOf(x.q) = LastOf(x.q)
                              THEN x.q.tail ELSE @])

-----------------------------------------------------------------------------
(* queue_read, queue_gets, queue_cut, queue_map                            *)
\* A freed block keeps nothing: what was in it has no meaning any more.
Release(s, b) ==
  IF s.refs[b] > 1 THEN [s EXCEPT !.refs[b] = @ - 1]
  ELSE [s EXCEPT !.refs[b] = 0, !.info[b] = NoInfo, !.data[b] = Blank]

\* The first block leaves; the next one brings its own positions along.
DropHead(x) ==
  LET rest == Tail(x.q.blocks)
      s    == Release(x.s, x.q.blocks[1])
  IN  On(s, [x.q EXCEPT !.blocks = rest,
                        !.head = IF rest = <<>> THEN NoInfo
                                 ELSE s.info[rest[1]]])

\* Takes one byte off; a queue that ends is left without a block.
TakeByte(x0) ==
  LET x == IF x0.q.head.head = x0.q.head.tail THEN DropHead(x0) ELSE x0
      c == x.s.data[FirstOf(x.q)][x.q.head.head + 1]
      n == IF c = NL THEN 1 ELSE 0
  IN  IF x.q.blocks = <<>> THEN [x |-> x, got |-> <<>>]
      ELSE [x |-> On(x.s, [x.q EXCEPT
                     !.head.head = @ + 1, !.head.size = @ - 1,
                     !.head.lines = @ - n, !.size = @ - 1, !.lines = @ - n]),
            got |-> <<c>>]

\* "We dequeued from tail block, so we need to update tail information".
SyncTail(x) ==
  On(x.s, [x.q EXCEPT !.tail = IF Len(x.q.blocks) <= 1 THEN x.q.head ELSE @])

Read(x0, n) ==
  LET Step(a, i) ==
        IF a.x.q.blocks = <<>> THEN a
        ELSE LET t == TakeByte(a.x) IN [x |-> t.x, got |-> a.got \o t.got]
      all == FoldLeft(Step, [x |-> x0, got |-> <<>>], [i \in 1..n |-> i])
  IN  IF x0.q.blocks = <<>> THEN [x |-> x0, got |-> <<>>]
      ELSE [all EXCEPT !.x = SyncTail(all.x)]

\* Up to and with the next newline; nothing without one.
Gets(x0) ==
  LET Ended(got) == got # <<>> /\ got[Len(got)] = NL
      Step(a, i) ==
        IF a.x.q.blocks = <<>> \/ Ended(a.got) THEN a
        ELSE LET t == TakeByte(a.x) IN [x |-> t.x, got |-> a.got \o t.got]
      all == FoldLeft(Step, [x |-> x0, got |-> <<>>],
                      [i \in 1..x0.q.size + 1 |-> i])
  IN  IF x0.q.lines = 0 THEN [x |-> x0, got |-> <<>>]
      ELSE [all EXCEPT !.x = SyncTail(all.x)]


\* Drops n bytes, whole blocks by their positions and then byte by byte.
Cut(x0, n) ==
  LET Whole(a, i) ==
        IF a.x.q.blocks = <<>> \/ a.left < a.x.q.head.size THEN a
        ELSE [x |-> DropHead(On(a.x.s, [a.x.q EXCEPT
                      !.size = @ - a.x.q.head.size,
                      !.lines = @ - a.x.q.head.lines])),
              left |-> a.left - a.x.q.head.size]
      w    == FoldLeft(Whole, [x |-> x0, left |-> n],
                       [i \in 1..Len(x0.q.blocks) |-> i])
      q    == w.x.q
      part == [i \in 1..w.left |-> w.x.s.data[FirstOf(q)][q.head.head + i]]
  IN  SyncTail(On(w.x.s, [q EXCEPT
        !.head.head = @ + w.left, !.head.size = @ - w.left,
        !.size = @ - w.left,
        !.head.lines = @ - Lines(part), !.lines = @ - Lines(part)]))

\* The bytes of a queue, in order, by the positions a reader would use.
Content(s, q) ==
  LET At(i) == IF i = 1 THEN q.head ELSE s.info[q.blocks[i]]
      Piece(i) == SubSeq(s.data[q.blocks[i]], At(i).head + 1, At(i).tail)
  IN  FoldLeft(LAMBDA a, i : a \o Piece(i), <<>>,
               [i \in 1..Len(q.blocks) |-> i])

Map(s, q, n) == SubSeq(Content(s, q), 1, n)

-----------------------------------------------------------------------------
(* queue_link, queue_destroy                                               *)

Link(s, from, to) ==
  IF from.size = 0 THEN On(s, to)
  ELSE On([s EXCEPT !.refs = [b \in Block |-> @[b] +
                Cardinality({i \in DOMAIN from.blocks : from.blocks[i] = b})]],
          [blocks |-> to.blocks \o from.blocks,
           size   |-> to.size + from.size,
           lines  |-> to.lines + from.lines,
           head   |-> IF to.blocks = <<>> THEN from.head ELSE to.head,
           tail   |-> from.tail])

\* Not the code: the sender keeps its share.
DestroyNothing(s, q) == s

Destroy(s, q) == FoldLeft(Release, s, q.blocks)

-----------------------------------------------------------------------------
(* io.c                                                                    *)
Commit(s) == data' = s.data /\ info' = s.info /\ refs' = s.refs

\* Enough free blocks for a message of any length: the heap never runs out.
Room(msg) ==
  Cardinality({b \in Block : refs[b] = 0}) * ChunkSize >= Len(msg) + ChunkSize

Fits(q) == q.size < MaxQueued

\* Bytes arrived and io_queued_read puts them into the receive queue.
IoQueuedRead(fd, msg) ==
  /\ Fits(recvq[fd]) /\ Room(msg)
  /\ LET x == Write(On(Store, recvq[fd]), msg)
     IN  Commit(x.s) /\ recvq' = [recvq EXCEPT ![fd] = x.q]
  /\ UNCHANGED <<sendq, wants>>

IoGets(fd) ==
  /\ recvq[fd].lines > 0
  /\ LET r == Gets(On(Store, recvq[fd]))
     IN  Commit(r.x.s) /\ recvq' = [recvq EXCEPT ![fd] = r.x.q]
  /\ UNCHANGED <<sendq, wants>>

IoRead(fd, n) ==
  /\ recvq[fd].size > 0
  /\ LET r == Read(On(Store, recvq[fd]), n)
     IN  Commit(r.x.s) /\ recvq' = [recvq EXCEPT ![fd] = r.x.q]
  /\ UNCHANGED <<sendq, wants>>

IoWrite(fd, msg) ==
  /\ Fits(sendq[fd]) /\ Room(msg)
  /\ LET x == Write(On(Store, sendq[fd]), msg)
     IN  Commit(x.s) /\ sendq' = [sendq EXCEPT ![fd] = x.q]
  /\ wants' = wants \cup {fd}
  /\ UNCHANGED recvq

\* One message to several connections, from io_multi_start to io_multi_end.
IoMulti(fds, msg) ==
  /\ \A fd \in fds : Fits(sendq[fd])
  /\ Room(msg)
  /\ LET m == Write(On(Store, Empty), msg)
         LinkTo(a, fd) ==
           LET x == Link(a.s, m.q, a.sendq[fd])
           IN  [s |-> x.s, sendq |-> [a.sendq EXCEPT ![fd] = x.q]]
         all == FoldLeft(LinkTo, [s |-> m.s, sendq |-> sendq],
                         SetToSeq(fds))
     IN  Commit(Destroy(all.s, m.q)) /\ sendq' = all.sendq
  /\ wants' = wants \cup fds
  /\ UNCHANGED recvq

\* POLLOUT: k bytes of what is queued are taken by the system.
IoQueuedWrite(fd, k) ==
  /\ fd \in wants
  /\ k \in 1..Len(Map(Store, sendq[fd], sendq[fd].size))
  /\ LET x == Cut(On(Store, sendq[fd]), k)
     IN  /\ Commit(x.s)
         /\ sendq' = [sendq EXCEPT ![fd] = x.q]
         /\ wants' = IF x.q.size = 0 THEN wants \ {fd} ELSE wants
  /\ UNCHANGED recvq

\* io_destroy: what the system does not take at once is given up.  A queue
\* without bytes is not released, although queue_read and queue_gets leave
\* it the block they emptied: that block is never used again.
IoDestroy(fd) ==
  /\ LET s1 == IF recvq[fd].size > 0 THEN Destroy(Store, recvq[fd]) ELSE Store
         s2 == IF sendq[fd].size > 0 THEN Destroy(s1, sendq[fd]) ELSE s1
     IN  Commit(s2)
  /\ sendq' = [sendq EXCEPT ![fd] = Empty]
  /\ recvq' = [recvq EXCEPT ![fd] = Empty]
  /\ wants' = wants \ {fd}

Init ==
  /\ data = [b \in Block |-> Blank]
  /\ info = [b \in Block |-> NoInfo]
  /\ refs = [b \in Block |-> 0]
  /\ sendq = [fd \in Conn |-> Empty]
  /\ recvq = [fd \in Conn |-> Empty]
  /\ wants = {}

Next ==
  \/ \E fd \in Conn, msg \in Message : IoQueuedRead(fd, msg) \/ IoWrite(fd, msg)
  \/ \E fds \in SUBSET Conn \ {{}}, msg \in Message : IoMulti(fds, msg)
  \/ \E fd \in Conn, k \in 1..MaxQueued : IoRead(fd, k) \/ IoQueuedWrite(fd, k)
  \/ \E fd \in Conn : IoGets(fd) \/ IoDestroy(fd)

Spec == Init /\ [][Next]_vars

-----------------------------------------------------------------------------
Queues == Range(sendq) \cup Range(recvq)

TypeOK ==
  /\ data \in [Block -> [1..ChunkSize -> Byte \cup {NL}]]
  /\ refs \in [Block -> Nat]
  /\ wants \subseteq Conn
  /\ \A q \in Queues : q.blocks \in Seq(Block) /\ q.size \in Nat /\ q.lines \in Nat

(* The counts io_queued_write and io_gets decide by are those of the bytes *)
(* a reader would get.                                                     *)
CountsAgree ==
  \A q \in Queues : LET c == Content(Store, q)
                   IN  q.size = Len(c) /\ q.lines = Lines(c)

(* No block is free or reused while a queue has it, and none is kept by a  *)
(* count too high, except the one block a closed connection leaves behind. *)
RefcountsExact ==
  \A b \in Block :
    LET Uses(f) == {<<fd, i>> \in Conn \X (1..MaxQueued + Cardinality(Block)) :
                      i \in DOMAIN f[fd].blocks /\ f[fd].blocks[i] = b}
        n == Cardinality(Uses(sendq)) + Cardinality(Uses(recvq))
    IN  refs[b] = n \/ (n = 0 /\ refs[b] = 1)

(* io_poll waits to write exactly where there is something to send: bytes  *)
(* without the event would never leave, the event without bytes would make *)
(* the loop spin.                                                          *)
SendersWatched == wants = {fd \in Conn : sendq[fd].size > 0}

(* The queues are sound: sizes, line counts and reference counts fit the   *)
(* bytes, and io_poll waits for those who have some to send.               *)
QueuesAgree == TypeOK /\ CountsAgree /\ RefcountsExact /\ SendersWatched
=============================================================================
