------------------------------ MODULE Outgoing ------------------------------
(***************************************************************************)
(* The connect{} blocks and the helper together: connect_resolve asks the  *)
(* helper for an address (Lookups), connect_sauth goes on with the answer, *)
(* connect_cancel and connect_timeout delete the query.                    *)
(***************************************************************************)
EXTENDS Connects, Lookups

ASSUME OutgoingAssumption == Asker = Named

outVars == <<connectVars, lookupVars>>

NameOf(n) == <<n, "name">>

\* What a step of connect.c does to the queries.
Asks(n)  == cn'[n].status = "resolving" /\ cn[n].status # "resolving"
Drops(n) == cn[n].query /\ ~cn'[n].query
Queries ==
  \/ \E n \in Conn : Asks(n) /\ AskName(NameOf(n), cn'[n].query)
  \/ \E n \in Conn : ~Asks(n) /\ Drops(n) /\ DropName(NameOf(n))
  \/ (\A n \in Conn : ~Asks(n) /\ ~Drops(n)) /\ UNCHANGED lookupVars

Connects == ~down /\ ConnectStep /\ Queries
Lookups  == HelperStep /\ UNCHANGED connectVars

\* connect_sauth for a name that was found.
NameFound(n) == Answered(n) /\ Answer(NameOf(n), FALSE)

\* The server starts again with its configuration.
Restarts ==
  /\ Restart
  /\ tm' = AddAll.st /\ cn' = AddAll.cn /\ tour' = Idle
  /\ out' = [n \in Conn |-> 0] /\ held' = [n \in Conn |-> 0]
  /\ shut' = {} /\ linked' = {} /\ crossed' = {}

OutInit == ConnectInit /\ LookupInit
OutNext == Connects \/ Lookups \/ Restarts \/ \E n \in Conn : NameFound(n)

\* The loop walks the timers, the timer of a block becomes due if it stays
\* listed, and what ended is read.
Walks     == ~down /\ Walk /\ UNCHANGED lookupVars
Calls(n)  == ~down /\ (\E s \in Slot : tm.at[s].arg = n /\ Call(s)) /\ Queries
Expires   == OldestExpires /\ UNCHANGED connectVars
Noticed   == Notices /\ UNCHANGED connectVars
Fairness ==
  /\ WF_outVars(Walks \/ Restarts) /\ \A n \in Conn : SF_outVars(Calls(n))
  /\ WF_outVars(Expires) /\ WF_outVars(Noticed)
OutSpec == OutInit /\ [][OutNext]_outVars /\ Fairness

-----------------------------------------------------------------------------
(* A query the helper may still answer, or that still runs out, is the     *)
(* query of a block that waits for it, whatever was answered, cancelled or *)
(* timed out in between (connect_cancel, connect_timeout, sauth_delete):   *)
(* nothing calls back a block that went on to something else.              *)
QueriesAgree ==
  ~down => \A n \in Named :
    /\ cn[n].query => NameOf(n) \in Range(qs.list)
    /\ NameOf(n) \in qs.asked \cup qs.timed => cn[n].query /\ cn[n].status = "resolving"

(* Timers, sockets, queries and clients have one owner each, or none.      *)
(* connect.c, sauth.c and lc_sauth.c hold pointers to each other's blocks  *)
(* and let go of them in their own time.                                   *)
Owned == ConnectsOwned /\ LookupsOwned /\ QueriesAgree

(* A block that is to connect does so again and again until it is linked   *)
(* or cancelled, whether the helper answers its lookups or not             *)
(* (connect_retry, connect_timeout), unless the server goes down.          *)
TriesAgain ==
  \A n \in Conn :
    /\ cn[n].active /\ cn[n].status = "idle" ~> cn[n].status # "idle" \/ ~cn[n].active \/ down
    /\ cn[n].status = "resolving" ~> cn[n].status # "resolving"
=============================================================================
