----------------------------- MODULE JoinPolicy -----------------------------
(***************************************************************************)
(* The admission check of a JOIN, hook by hook.                            *)
(*                                                                         *)
(* hooks_call (lib/src/hook.c) runs the callbacks in the order in which    *)
(* they were registered, and that is the order the configuration loads the *)
(* modules in.  Each hook may overwrite the verdict of those before it, so *)
(* what the channel modes promise together depends on the load order.      *)
(***************************************************************************)
EXTENDS JoinHooks

CONSTANT Before   \* <<g, h>> \in Before: module g is loaded before module h

Hook == {"cm_invite", "cm_ban", "cm_deny", "cm_except", "cm_invex",
         "cm_limit", "cm_key"}

BeforeAssumption == Before \subseteq Hook \X Hook
ASSUME BeforeAssumption

(* All that the five promises need of the load order: the invite is looked *)
(* at before the bans, and the bans and their exceptions before the limit  *)
(* and the key.  cm_invex may run anywhere, the other pairs in any order.  *)
Contract ==
  {"cm_invite"} \X {"cm_ban", "cm_deny"}
  \cup {"cm_ban", "cm_deny", "cm_except"} \X {"cm_limit", "cm_key"}

VARIABLES
  facts,     \* what is true of the client and the channel
  wasInvited,\* the client held an invite when it sent the JOIN
  invited,   \* chptr is in cptr->user->invites
  reply,     \* *reply
  pending    \* the hooks hooks_call has still to run

joinVars == <<facts, wasInvited, invited, reply, pending>>

JoinTypeOK ==
  /\ facts \subseteq Fact
  /\ wasInvited \in BOOLEAN /\ invited \in BOOLEAN
  /\ reply \in Reply
  /\ pending \subseteq Hook

\* The table of callbacks hooks_call walks.
Call(h, s, f) ==
  CASE h = "cm_invite" -> CmInvite(s, f)
    [] h = "cm_ban"    -> CmBan(s, f)
    [] h = "cm_deny"   -> CmDeny(s, f)
    [] h = "cm_except" -> CmExcept(s, f)
    [] h = "cm_invex"  -> CmInvex(s, f)
    [] h = "cm_limit"  -> CmLimit(s, f)
    [] h = "cm_key"    -> CmKey(s, f)

-----------------------------------------------------------------------------
JoinInit ==
  /\ facts \in SUBSET Fact
  /\ wasInvited \in BOOLEAN
  /\ invited = wasInvited
  /\ reply = "none"
  /\ pending = Hook

RunHook(h) ==
  /\ \A g \in pending : <<g, h>> \notin Before
  /\ LET s == Call(h, St(reply, invited), facts)
     IN  reply' = s.reply /\ invited' = s.invited
  /\ pending' = pending \ {h}
  /\ UNCHANGED <<facts, wasInvited>>

JoinNext == \E h \in pending : RunHook(h)

JoinSpec == JoinInit /\ [][JoinNext]_joinVars

-----------------------------------------------------------------------------
Done     == pending = {}
Admitted == Done /\ reply \notin Numeric
Refused  == Done /\ reply \in Numeric

(* A client enters a +i channel only with an invite or a matching +I mask. *)
(* The exception of cm_except comes after cm_invite and overrides a ban,   *)
(* never the missing invite; that is so only because cm_invite runs before *)
(* the ban hooks (src/modules/chanmode/cm_invite.c, cm_except.c).          *)
InviteOnlyHolds ==
  Admitted /\ "i" \in facts => wasInvited \/ "I" \in facts

(* A client with a wrong key enters only by an invite or a +I mask: a +e   *)
(* mask does not open the channel, because the bans and their exception    *)
(* are settled before cm_key_hook runs.                                    *)
KeyHolds ==
  Admitted /\ "k" \in facts => wasInvited \/ "I" \in facts

(* A full channel admits only invited clients and those a +I mask matches  *)
(* (cm_limit_hook), for the same reason.                                   *)
LimitHolds ==
  Admitted /\ "l" \in facts => wasInvited \/ "I" \in facts

(* The strongest ban the chain keeps: a banned client without an exception *)
(* is refused, save on a +i channel whose +I list matches it, where        *)
(* cm_ban_hook finds the join already refused and says nothing.            *)
BanHoldsOutsideInvex ==
  /\ Done
  /\ "b" \in facts /\ "e" \notin facts
  /\ ~ ({"i", "I"} \subseteq facts /\ ~wasInvited)
  => Refused

(* The verdict on a JOIN is the one the modes of the channel ask for,      *)
(* though each hook may overwrite that of the hooks before it              *)
(* (hooks_call): invite, key, limit and bans hold together.                *)
VerdictHolds == InviteOnlyHolds /\ KeyHolds /\ LimitHolds /\ BanHoldsOutsideInvex

(* An invite opens at most one join: once all the hooks that look at the   *)
(* invites ran and the join is admitted, none is left.                     *)
InviteSpent == Admitted => ~invited
=============================================================================
