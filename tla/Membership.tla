----------------------------- MODULE Membership -----------------------------
(***************************************************************************)
(* Who is on which channel, as one server knows it.                        *)
(*                                                                         *)
(* A membership is a chanuser block (src/chanuser.c) that hangs in three   *)
(* lists at once: the channel's members, the channel's local members, and  *)
(* the user's channels.  An invite block hangs in the channel's and in the *)
(* user's invites.  Every handler that removes a user, a channel or a link *)
(* must leave these lists telling the same story, and must delete the      *)
(* channel when it should.  Handlers run to completion one at a time (the  *)
(* daemon is one event loop), so each is one action.                       *)
(*                                                                         *)
(* Abstractions: names are identities; what an auto-op mask or a ban       *)
(* matches is chosen at the JOIN (JoinPolicy decides what follows from     *)
(* it); of two channel timestamps only their order is kept; messages sent  *)
(* to other servers are the subject of ChanSync.                           *)
(***************************************************************************)
EXTENDS Naturals, FiniteSets, JoinHooks

CONSTANTS
  User,         \* clients of type CLIENT_USER
  Channel,      \* channel names
  Server,       \* servers reached over links
  Me,           \* this server
  Nowhere,      \* location of a user that is not on the network
  Mode,         \* channel modes without argument, among "i" and "P"
  MaxChannels,  \* IRCD_MAXCHANNELS
  MaxTargets    \* IRCD_MAXTARGETS, targets of one KICK

NamesAssumption ==
  /\ Me \notin Server /\ Nowhere \notin Server /\ Me # Nowhere
  /\ Mode \subseteq {"i", "P"}
  /\ MaxChannels \in Nat /\ MaxTargets \in Nat
ASSUME NamesAssumption

Privilege == {"o", "h", "v"}

VARIABLES
  where,    \* user -> Me, the server it came with, or Nowhere
  exists,   \* channel_list
  members,  \* channel -> users of chptr->chanusers
  locals,   \* channel -> users of chptr->lchanusers
  chans,    \* user -> channels of cptr->user->channels
  flags,    \* channel -> user -> cuptr->flags
  modes,    \* channel -> chptr->modes
  invites   \* invite blocks, <<user, channel>>

vars == <<where, exists, members, locals, chans, flags, modes, invites>>

TypeOK ==
  /\ where   \in [User -> Server \cup {Me, Nowhere}]
  /\ exists  \subseteq Channel
  /\ members \in [Channel -> SUBSET User]
  /\ locals  \in [Channel -> SUBSET User]
  /\ chans   \in [User -> SUBSET Channel]
  /\ flags   \in [Channel -> [User -> SUBSET Privilege]]
  /\ modes   \in [Channel -> SUBSET Mode]
  /\ invites \subseteq User \X Channel

Init ==
  /\ where   = [u \in User |-> Nowhere]
  /\ exists  = {}
  /\ members = [c \in Channel |-> {}]
  /\ locals  = [c \in Channel |-> {}]
  /\ chans   = [u \in User |-> {}]
  /\ flags   = [c \in Channel |-> [u \in User |-> {}]]
  /\ modes   = [c \in Channel |-> {}]
  /\ invites = {}

-----------------------------------------------------------------------------
(* Helpers.                                                                *)

IsLocal(u)  == where[u] = Me
IsRemote(u) == where[u] \in Server
Online(u)   == IsLocal(u) \/ IsRemote(u)

Persistent(c) == "P" \in modes[c]

\* chanuser_new followed by the links of chanuser_add: the block of u on c
\* starts with the privileges p.
AddChanuser(u, c, p) ==
  /\ members' = [members EXCEPT ![c] = @ \cup {u}]
  /\ locals'  = [locals EXCEPT ![c] = IF IsLocal(u) THEN @ \cup {u} ELSE @]
  /\ chans'   = [chans EXCEPT ![u] = @ \cup {c}]
  /\ flags'   = [flags EXCEPT ![c][u] = p]

\* A chanuser_delete that forgets the list of local members.
DeleteKeepsLocals(blocks) ==
  /\ members' = [c \in Channel |-> {u \in members[c] : <<u, c>> \notin blocks}]
  /\ locals'  = locals
  /\ chans'   = [u \in User |-> {c \in chans[u] : <<u, c>> \notin blocks}]
  /\ flags'   = [c \in Channel |-> [u \in User |->
                   IF <<u, c>> \in blocks THEN {} ELSE flags[c][u]]]

\* chanuser_delete for every <<user, channel>> of blocks: out of all three
\* lists, and the block is gone.
DeleteChanusers(blocks) ==
  /\ members' = [c \in Channel |-> {u \in members[c] : <<u, c>> \notin blocks}]
  /\ locals'  = [c \in Channel |-> {u \in locals[c] : <<u, c>> \notin blocks}]
  /\ chans'   = [u \in User |-> {c \in chans[u] : <<u, c>> \notin blocks}]
  /\ flags'   = [c \in Channel |-> [u \in User |->
                   IF <<u, c>> \in blocks THEN {} ELSE flags[c][u]]]

BlocksOf(C)     == UNION {{<<u, c>> : u \in members[c]} : c \in C}
BlocksOfUser(u) == {<<u, c>> : c \in chans[u]}

\* The channels whose member list is empty once blocks are deleted.
Emptied(blocks) ==
  {c \in exists : /\ \E u \in members[c] : <<u, c>> \in blocks
                  /\ \A u \in members[c] : <<u, c>> \in blocks}

\* channel_delete for the channels of gone, after blocks were deleted:
\* channel_release frees the members and the invites that are left first.
DeleteChannels(gone, blocks) ==
  /\ DeleteChanusers(blocks \cup BlocksOf(gone))
  /\ exists' = exists \ gone
  /\ modes'  = [c \in Channel |-> IF c \in gone THEN {} ELSE modes[c]]

InvitesTo(C) == {iv \in invites : iv[2] \in C}

-----------------------------------------------------------------------------
(* Users come and go.                                                      *)

\* lclient_register: the connection becomes a client.
Register(u) ==
  /\ where[u] = Nowhere
  /\ where' = [where EXCEPT ![u] = Me]
  /\ UNCHANGED <<exists, members, locals, chans, flags, modes, invites>>

\* ms_nuser: a server introduces a user behind it.
Introduce(u, s) ==
  /\ where[u] = Nowhere
  /\ where' = [where EXCEPT ![u] = s]
  /\ UNCHANGED <<exists, members, locals, chans, flags, modes, invites>>

\* Not the code: client_vexit does not look at +P.
ExitClosesPersistent(u) ==
  /\ Online(u)
  /\ LET blocks == BlocksOfUser(u)
         gone   == Emptied(blocks)
     IN  /\ DeleteChannels(gone, blocks)
         /\ invites' = invites \ (InvitesTo(gone) \cup ({u} \X Channel))
  /\ where' = [where EXCEPT ![u] = Nowhere]

\* client_vexit for a user: QUIT, KILL, a closed connection, a ping timeout.
\* user_release drops the invites the user still holds.
Exit(u) ==
  /\ Online(u)
  /\ LET blocks == BlocksOfUser(u)
         gone   == {c \in Emptied(blocks) : ~Persistent(c)}
     IN  /\ DeleteChannels(gone, blocks)
         /\ invites' = invites \ (InvitesTo(gone) \cup ({u} \X Channel))
  /\ where' = [where EXCEPT ![u] = Nowhere]

\* server_split for the servers that were behind a lost link.  It tests only
\* the member count: a persistent channel goes as well.
Split(S) ==
  LET lost   == {u \in User : where[u] \in S}
      blocks == UNION {BlocksOfUser(u) : u \in lost}
      gone   == Emptied(blocks)
  IN  /\ lost # {}
      /\ DeleteChannels(gone, blocks)
      /\ invites' = invites \ (InvitesTo(gone) \cup (lost \X Channel))
      /\ where' = [u \in User |-> IF u \in lost THEN Nowhere ELSE where[u]]

-----------------------------------------------------------------------------
(* JOIN and NJOIN.                                                         *)

\* m_join, channel_join: the first user creates the channel and is given
\* every privilege (cm_op_hook, cm_halfop_hook, cm_voice_hook at HOOK_2ND).
JoinNew(u, c) ==
  /\ IsLocal(u) /\ Cardinality(chans[u]) # MaxChannels
  /\ c \notin exists
  /\ exists' = exists \cup {c}
  /\ modes' = [modes EXCEPT ![c] = {}]
  /\ AddChanuser(u, c, Privilege)
  /\ UNCHANGED <<where, invites>>

\* m_join, channel_join on a channel that is there: the verdict s of the
\* HOOK_1ST chain, then the privileges of the auto-op lists at HOOK_3RD.
JoinExisting(u, c, auto) ==
  /\ IsLocal(u) /\ Cardinality(chans[u]) # MaxChannels
  /\ c \in exists /\ c \notin chans[u]
  /\ \E s \in {ShippedChain(<<u, c>> \in invites, f) :
                 f \in {g \in SUBSET Fact : "i" \in g <=> "i" \in modes[c]}} :
       /\ invites' = IF s.invited THEN invites ELSE invites \ {<<u, c>>}
       /\ \/ ~Denied(s) /\ AddChanuser(u, c, auto)
          \/ Denied(s) /\ UNCHANGED <<members, locals, chans, flags>>
  /\ UNCHANGED <<where, exists, modes>>

\* ms_njoin: a server tells that the users U are on c.  age compares the
\* channel timestamp of the message with ours: an older one takes every
\* privilege and mode of ours away, with a newer one the prefixes pfx that
\* come along do not count.  chanuser_parse skips users that are unknown,
\* local or on the channel already, so U may be empty.
NJoin(c, age, U, pfx) ==
  LET new == c \notin exists
      cut == ~new /\ age = "older"
      usr == {u \in U : IsRemote(u) /\ c \notin chans[u]}
      given(u) == IF ~new /\ age = "newer" THEN {} ELSE pfx
  IN  /\ exists' = exists \cup {c}
      /\ members' = [members EXCEPT ![c] = @ \cup usr]
      /\ chans' = [u \in User |-> IF u \in usr THEN chans[u] \cup {c}
                                               ELSE chans[u]]
      /\ flags' = [flags EXCEPT ![c] = [u \in User |->
                     IF u \in usr THEN given(u)
                     ELSE IF cut THEN {} ELSE @[u]]]
      /\ modes' = [modes EXCEPT ![c] = IF new \/ cut THEN {} ELSE @]
      /\ UNCHANGED <<where, locals, invites>>

-----------------------------------------------------------------------------
(* PART, OPART and KICK.                                                   *)

\* A PART that leaves an empty channel behind.
PartLeavesChannel(u, c) ==
  /\ IsLocal(u) /\ c \in exists /\ c \in chans[u]
  /\ ~Persistent(c)
  /\ DeleteChanusers({<<u, c>>})
  /\ UNCHANGED <<where, exists, modes, invites>>

\* m_part.  chanuser_is_owner compares the user's privileges with those of
\* o, h and v the user has, so every local member counts as an owner and is
\* told to use OPART when the channel is persistent.
Part(u, c) ==
  /\ IsLocal(u) /\ c \in exists /\ c \in chans[u]
  /\ ~Persistent(c)
  /\ LET gone == Emptied({<<u, c>>})
     IN  /\ DeleteChannels(gone, {<<u, c>>})
         /\ invites' = invites \ InvitesTo(gone)
  /\ UNCHANGED where

\* ms_part: a PART from a server link; it does not look at +P.
PartRemote(u, c) ==
  /\ IsRemote(u) /\ c \in exists /\ c \in chans[u]
  /\ LET gone == Emptied({<<u, c>>})
     IN  /\ DeleteChannels(gone, {<<u, c>>})
         /\ invites' = invites \ InvitesTo(gone)
  /\ UNCHANGED where

\* m_opart and ms_opart end the channel for everybody.  The local form wants
\* a persistent channel and an "owner", which every member is (see Part).
OPart(u, c) ==
  /\ Online(u) /\ c \in exists /\ c \in chans[u]
  /\ IsLocal(u) => Persistent(c)
  /\ DeleteChannels({c}, {<<u, c>>})
  /\ invites' = invites \ InvitesTo({c})
  /\ UNCHANGED where

\* m_kick, chanuser_kick: the targets among T that are on the channel.  The
\* call sites of cm_op_kick and cm_halfop_kick pass six arguments, hooks_call
\* hands on four: the halfop hook reads whatever stands where the target
\* should be, so a halfop's kick may go through or not for any target.
\* Nothing deletes the channel when the last member is kicked.
Kick(u, c, T) ==
  /\ Online(u) /\ c \in exists /\ c \in chans[u]
  /\ T # {} /\ Cardinality(T) <= MaxTargets /\ \A t \in T : c \in chans[t]
  /\ flags[c][u] \cap {"o", "h"} # {}
  /\ DeleteChanusers(T \X {c})
  /\ UNCHANGED <<where, exists, modes, invites>>

-----------------------------------------------------------------------------
(* INVITE and MODE.                                                        *)

\* m_invite: whoever names an existing channel invites; user_invite keeps
\* one block per user and channel.  For a remote target it is passed on.
Invite(u, v, c) ==
  /\ Online(u) /\ c \in exists /\ IsLocal(v)
  /\ invites' = invites \cup {<<v, c>>}
  /\ UNCHANGED <<where, exists, members, locals, chans, flags, modes>>

\* chanmode_apply checks cmptr->need for local users only.  A server, and a
\* user behind one, is believed.
May(u, c, need) ==
  /\ c \in chans[u]
  /\ IsLocal(u) => flags[c][u] \cap need # {}

ModeNeed(m) == IF m = "P" THEN {"o"} ELSE {"o", "h"}
PrivNeed(p) == IF p = "o" THEN {"o"} ELSE {"o", "h"}

\* chanmode_bounce_simple with CHANMODE_ADD: by a member, or by a server
\* (MODE or NMODE over a link).
SetMode(c, m) ==
  /\ c \in exists /\ m \notin modes[c]
  /\ modes' = [modes EXCEPT ![c] = @ \cup {m}]
  /\ UNCHANGED <<where, exists, members, locals, chans, flags, invites>>

\* CHANMODE_DEL; cm_invite_bounce also throws the invites away.
UnsetMode(c, m) ==
  /\ c \in exists /\ m \in modes[c]
  /\ modes' = [modes EXCEPT ![c] = @ \ {m}]
  /\ invites' = IF m = "i" THEN invites \ InvitesTo({c}) ELSE invites
  /\ UNCHANGED <<where, exists, members, locals, chans, flags>>

\* chanuser_mode_bounce: +o, +h, +v and their removal on a member v.
SetPrivilege(c, v, p) ==
  /\ c \in exists /\ c \in chans[v]
  /\ flags' = [flags EXCEPT ![c][v] = IF p \in @ THEN @ \ {p} ELSE @ \cup {p}]
  /\ UNCHANGED <<where, exists, members, locals, chans, modes, invites>>

MemberMode(u, c) ==
  \/ \E m \in Mode : May(u, c, ModeNeed(m)) /\ SetMode(c, m)
  \/ \E m \in Mode : May(u, c, ModeNeed(m)) /\ UnsetMode(c, m)
  \/ \E v \in User, p \in Privilege :
       May(u, c, PrivNeed(p)) /\ SetPrivilege(c, v, p)

ServerMode(c) ==
  \/ \E m \in Mode : SetMode(c, m) \/ UnsetMode(c, m)
  \/ \E v \in User, p \in Privilege : SetPrivilege(c, v, p)

-----------------------------------------------------------------------------
Age    == {"older", "same", "newer"}

Prefix == {{}, {"o"}, Privilege}   \* prefixes a peer puts before a user

(* What the clients of this server do.                                     *)
LocalStep ==
  \/ \E u \in User : Register(u)
  \/ \E u \in User, c \in Channel :
       \/ JoinNew(u, c)
       \/ \E auto \in {{}, {"o"}} : JoinExisting(u, c, auto)
       \/ Part(u, c)

(* What a linked server reports.                                           *)
RemoteStep ==
  \/ \E u \in User, s \in Server : Introduce(u, s)
  \/ \E S \in (SUBSET Server) \ {{}} : Split(S)
  \/ \E u \in User, c \in Channel : PartRemote(u, c)
  \/ \E c \in Channel, age \in Age, U \in SUBSET User, pfx \in Prefix :
       NJoin(c, age, U, pfx)
  \/ \E c \in Channel : ServerMode(c)

(* What a user may do wherever it is connected.                            *)
UserStep ==
  \/ \E u \in User : Exit(u)
  \/ \E u \in User, c \in Channel : MemberMode(u, c)

KickStep   == \E u \in User, c \in Channel, T \in SUBSET User : Kick(u, c, T)
OPartStep  == \E u \in User, c \in Channel : OPart(u, c)
InviteStep == \E u, v \in User, c \in Channel : Invite(u, v, c)

Next ==
  LocalStep \/ RemoteStep \/ UserStep \/ KickStep \/ OPartStep \/ InviteStep

Spec == Init /\ [][Next]_vars

-----------------------------------------------------------------------------
(* A membership hangs in the channel's list, in its local list exactly if  *)
(* the user is local, and in the user's list: chanuser_add, ms_njoin,      *)
(* chanuser_delete and the four ways a channel or a user disappears agree. *)
LinksAgree ==
  \A c \in Channel :
    /\ \A u \in User : u \in members[c] <=> c \in chans[u]
    /\ locals[c] = {u \in members[c] : IsLocal(u)}

(* No list leads to freed memory: members are on the network and on a      *)
(* channel that exists, and an invite belongs to a live local user and to  *)
(* a live channel (channel_release, user_release, server_split).           *)
NoDangling ==
  /\ \A c \in Channel : members[c] # {} => c \in exists
  /\ \A c \in Channel : \A u \in members[c] : Online(u)
  /\ \A iv \in invites : iv[2] \in exists /\ IsLocal(iv[1])

(* Privileges and modes die with their block, so that a rejoin or a new    *)
(* channel of the same name starts clean (chanuser_new, channel_new).      *)
NoLeftovers ==
  /\ \A c \in Channel, u \in User : flags[c][u] # {} => u \in members[c]
  /\ \A c \in Channel : modes[c] # {} => c \in exists

(* The lists of chanuser.c and channel.c tell one story, lead to nothing   *)
(* that is gone and keep nothing of it, whoever leaves in whatever way.    *)
ListsInStep == LinksAgree /\ NoDangling /\ NoLeftovers

(* A persistent channel is never deleted while a user of this server is on *)
(* it, unless by OPART, which takes every member off at once: m_part turns *)
(* locals away, and client_vexit, ms_part, chanuser_kick keep the channel. *)
PersistentKeepsLocals ==
  [][ \A c \in Channel :
        c \in exists /\ Persistent(c) /\ c \notin exists'
        => OPartStep \/ locals[c] = {} ]_vars

=============================================================================
