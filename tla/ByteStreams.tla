---------------------------- MODULE ByteStreams ----------------------------
(***************************************************************************)
(* What the queues of lib/src/queue.c promise: every connection has two    *)
(* streams of bytes.  What is written to several connections is appended   *)
(* to each of them, what is read is the oldest, and nothing that happens   *)
(* to one connection touches the streams of another.                       *)
(***************************************************************************)
EXTENDS Naturals, Sequences

CONSTANTS Conn, Message, NL

VARIABLES out, in   \* [Conn -> sequence of bytes]

Init == out = [c \in Conn |-> <<>>] /\ in = [c \in Conn |-> <<>>]

Send(cs, msg) ==
  /\ out' = [c \in Conn |-> IF c \in cs THEN out[c] \o msg ELSE out[c]]
  /\ UNCHANGED in

Receive(c, msg) ==
  /\ in' = [in EXCEPT ![c] = @ \o msg]
  /\ UNCHANGED out

From(s, n) == SubSeq(s, n + 1, Len(s))

Flush(c) ==
  /\ \E n \in 1..Len(out[c]) : out' = [out EXCEPT ![c] = From(@, n)]
  /\ UNCHANGED in

\* Some bytes, or a line.
Take(c) ==
  /\ \E n \in 1..Len(in[c]) : in' = [in EXCEPT ![c] = From(@, n)]
  /\ UNCHANGED out

Close(c) ==
  /\ out' = [out EXCEPT ![c] = <<>>]
  /\ in' = [in EXCEPT ![c] = <<>>]

Next ==
  \/ \E cs \in SUBSET Conn \ {{}}, msg \in Message : Send(cs, msg)
  \/ \E c \in Conn, msg \in Message : Receive(c, msg)
  \/ \E c \in Conn : Flush(c) \/ Take(c) \/ Close(c)

Spec == Init /\ [][Next]_<<out, in>>
=============================================================================
