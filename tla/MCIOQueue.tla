----------------------------- MODULE MCIOQueue -----------------------------
(* Messages shorter than, as long as and longer than a block of two bytes. *)
EXTENDS IOQueue

Messages == {<<"b">>, <<"a", "b", NL>>}

\* Bound: one connection at a time has received anything.
OneReceives == \A c, d \in Conn : recvq[c].blocks # <<>> /\ recvq[d].blocks # <<>> => c = d

\* States that differ only in which block is which, or in bytes nobody will
\* read, are one state.
View ==
  LET Seqs    == [fd \in Conn |-> sendq[fd].blocks \o recvq[fd].blocks]
      all     == FoldLeft(LAMBDA a, fd : a \o Seqs[fd], <<>>, SetToSeq(Conn))
      Rank(b) == CHOOSE i \in DOMAIN all : all[i] = b /\ \A j \in 1..i-1 : all[j] # b
      Look(q) ==
        <<[i \in DOMAIN q.blocks |-> Rank(q.blocks[i])], q.head, q.tail, q.size, q.lines,
          Content(Store, q), [i \in DOMAIN q.blocks |->
            IF i = 1 THEN refs[q.blocks[i]] ELSE <<refs[q.blocks[i]], info[q.blocks[i]]>>]>>
  IN  <<[fd \in Conn |-> <<Look(sendq[fd]), Look(recvq[fd])>>], wants,
        Cardinality({b \in Block : refs[b] = 0})>>

(* What the queues are for: they behave as a stream in each direction.     *)
(* In particular a line a server relays reaches every link whole and in    *)
(* order (io_multi_link), whatever the others have already sent.           *)
Streams == INSTANCE ByteStreams WITH
  out <- [fd \in Conn |-> Content(Store, sendq[fd])],
  in  <- [fd \in Conn |-> Content(Store, recvq[fd])]
ActsAsStreams == Streams!Spec

=============================================================================
