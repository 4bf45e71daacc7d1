---------------------------- MODULE MCMembership ----------------------------
(***************************************************************************)
(* For TLC: Membership with an observer, beside JoinPolicy.                *)
(*                                                                         *)
(* Some properties are about which command ended a channel; act records it *)
(* for the step just taken and nothing reads it but the properties.        *)
(*                                                                         *)
(* The hooks of one JOIN run without a break, so a behaviour is either one *)
(* walk through the hooks, whatever they find, or one of the lists, with   *)
(* the outcome of each walk chosen by Membership's Join.                   *)
(***************************************************************************)
EXTENDS Membership, JoinPolicy, TLC

VARIABLE act   \* the command, or "other"

MCInit == Init /\ JoinInit /\ act = "other"

Untouched == exists = {} /\ \A u \in User : where[u] = Nowhere

Lists ==
  \/ (LocalStep \/ RemoteStep \/ UserStep) /\ act' = "other"
  \/ \E u \in User, c \in Channel, T \in SUBSET User : Kick(u, c, T) /\ act' = "KICK"
  \/ \E u \in User, c \in Channel : OPart(u, c) /\ act' = "OPART"
  \/ \E u, v \in User, c \in Channel : Invite(u, v, c) /\ act' = "INVITE"

MCNext ==
  \/ Untouched /\ JoinNext /\ UNCHANGED <<vars, act>>
  \/ facts = {} /\ ~wasInvited /\ pending = Hook /\ Lists /\ UNCHANGED joinVars

MCSpec == MCInit /\ [][MCNext]_<<vars, joinVars, act>>

Symmetry == Permutations(User) \cup Permutations(Channel)

-----------------------------------------------------------------------------
(* An ordinary channel that loses its last member is deleted in the same   *)
(* step, whether by PART, QUIT, OPART or netsplit; only KICK forgets it    *)
(* (chanuser_kick ends with chanuser_delete).                              *)
LastOneOutClosesDoor ==
  [][ \A c \in Channel :
        /\ members[c] # {} /\ members'[c] = {} /\ "P" \notin modes'[c]
        => c \notin exists' \/ act' = "KICK" ]_<<vars, act>>

=============================================================================
