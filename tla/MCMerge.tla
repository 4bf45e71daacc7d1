------------------------------ MODULE MCMerge ------------------------------
(* The channel of ChanSync and the users of UserModes on the same row of   *)
(* servers, in behaviours of their own.                                    *)
EXTENDS ChanSync, UserModes, Networks

RowClient == [u \in {"a"} |-> "A"]

VARIABLE part

EitherInit ==
  /\ Init /\ UserInit
  /\ part \in {"channel", "users"}

Either ==
  \/ part = "channel" /\ Next /\ UNCHANGED <<umode, listed, oper, part>>
  \/ part = "users" /\ UserNext /\ UNCHANGED <<chan, kicked, part>>

EitherSpec == EitherInit /\ [][Either]_<<vars, userVars, part>>
=============================================================================
