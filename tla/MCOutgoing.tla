----------------------------- MODULE MCOutgoing -----------------------------
(* One block to connect, one connection at a time.                         *)
EXTENDS Outgoing
CONSTANTS t1, t2, t3, a, b1, p1, p2
Timer3   == <<t1, t2, t3>>
OneBlock == <<b1>>
OnePort  == <<p1>>
TwoPorts == <<p1, p2>>
=============================================================================
