----------------------------- MODULE MCChanSync -----------------------------
(* ChanSync on the networks of Networks.                                   *)
EXTENDS ChanSync, Networks
=============================================================================
