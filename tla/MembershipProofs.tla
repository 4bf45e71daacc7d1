-------------------------- MODULE MembershipProofs --------------------------
(***************************************************************************)
(* The lists of Membership agree for any users, channels, servers and      *)
(* limits.  The four invariants are inductive only together: that a user   *)
(* who leaves takes all its memberships along (LinksAgree) is what keeps   *)
(* NoDangling, and that no unknown user is a member (NoDangling) is what   *)
(* lets Register and Introduce keep LinksAgree.                            *)
(*                                                                         *)
(* Every handler that removes something is an instance of one lemma,       *)
(* Removal; the handlers that add something are proved one by one.         *)
(*                                                                         *)
(* Last, what the hooks of a JOIN promise: HookInv and what follows it.    *)
(***************************************************************************)
EXTENDS MCMembership, TLAPS

IInv == TypeOK /\ LinksAgree /\ NoDangling /\ NoLeftovers

(* Init: nobody is on the network and no channel exists (ircd_init).       *)
LEMMA InitInv == Init => IInv
  BY DEF Init, IInv, TypeOK, LinksAgree, NoDangling, NoLeftovers, IsLocal,
         Online, IsRemote

-----------------------------------------------------------------------------
(* What the handlers that remove share: the blocks D leave all lists, the  *)
(* channels of gone go with all their members, modes and invites, and a    *)
(* user leaves the network only with all its memberships and invites.      *)
LEMMA Removal ==
  ASSUME IInv, NEW D, NEW gone,
         DeleteChanusers(D),
         BlocksOf(gone) \subseteq D,
         exists' = exists \ gone,
         modes' \in [Channel -> SUBSET Mode],
         \A c \in Channel : modes'[c] # {} => modes[c] # {} /\ c \notin gone,
         where' \in [User -> Server \cup {Me, Nowhere}],
         \A u \in User : where'[u] # where[u] =>
           where'[u] = Nowhere /\ BlocksOfUser(u) \subseteq D,
         invites' \subseteq invites,
         \A iv \in invites' : iv[2] \notin gone /\ where'[iv[1]] = where[iv[1]]
  PROVE  IInv'
<1> USE DEF DeleteChanusers
<1>0. /\ TypeOK /\ LinksAgree /\ NoDangling /\ NoLeftovers
  BY DEF IInv
<1>1. /\ members' \in [Channel -> SUBSET User]
      /\ locals' \in [Channel -> SUBSET User]
      /\ chans' \in [User -> SUBSET Channel]
      /\ flags' \in [Channel -> [User -> SUBSET Privilege]]
      /\ invites' \subseteq User \X Channel
      /\ exists' \subseteq Channel
  BY <1>0 DEF TypeOK, Privilege
<1>2. TypeOK'
  BY <1>1 DEF TypeOK
<1>3. \A c \in Channel, u \in User :
        u \in members'[c] <=> u \in members[c] /\ <<u, c>> \notin D
  BY <1>0 DEF TypeOK
<1>4. \A c \in Channel, u \in User : u \in members'[c] => where'[u] = where[u]
  BY <1>0, <1>3 DEF BlocksOfUser, LinksAgree
<1>5. LinksAgree'
  <2>1. \A c \in Channel, u \in User : u \in members'[c] <=> c \in chans'[u]
    BY <1>0, <1>3 DEF LinksAgree, TypeOK
  <2>2. \A c \in Channel, u \in User :
          u \in locals'[c] <=> u \in members'[c] /\ where'[u] = Me
    <3> SUFFICES ASSUME NEW c \in Channel, NEW u \in User
                 PROVE  u \in locals'[c] <=> u \in members'[c] /\ where'[u] = Me
      OBVIOUS
    <3>1. u \in locals'[c] <=> u \in locals[c] /\ <<u, c>> \notin D
      BY <1>0 DEF TypeOK
    <3>2. u \in locals[c] <=> u \in members[c] /\ where[u] = Me
      BY <1>0 DEF LinksAgree, IsLocal
    <3> QED
      BY <3>1, <3>2, <1>3, <1>4
  <2>3. \A c \in Channel : locals'[c] = {u \in members'[c] : where'[u] = Me}
    BY <2>2, <1>1
  <2> QED
    BY <2>1, <2>3 DEF LinksAgree, IsLocal
<1>6. NoDangling'
  <2>1. ASSUME NEW c \in Channel, NEW u \in User, u \in members'[c]
        PROVE  c \in exists' /\ Online(u)'
    <3>1. u \in members[c] /\ <<u, c>> \notin D /\ where'[u] = where[u]
      BY <2>1, <1>3, <1>4
    <3>2. c \notin gone
      BY <3>1 DEF BlocksOf
    <3>3. c \in exists /\ Online(u)
      BY <3>1, <1>0 DEF NoDangling
    <3> QED
      BY <3>1, <3>2, <3>3 DEF Online, IsLocal, IsRemote
  <2>2. ASSUME NEW iv \in invites'
        PROVE  iv[2] \in exists' /\ IsLocal(iv[1])'
    BY <2>2, <1>0 DEF NoDangling, IsLocal
  <2> QED
    BY <2>1, <2>2, <1>1 DEF NoDangling
<1>7. NoLeftovers'
  <2>1. ASSUME NEW c \in Channel, NEW u \in User, flags'[c][u] # {}
        PROVE  u \in members'[c]
    BY <2>1, <1>3, <1>0 DEF NoLeftovers, TypeOK
  <2>2. ASSUME NEW c \in Channel, modes'[c] # {}
        PROVE  c \in exists'
    BY <2>2, <1>0 DEF NoLeftovers
  <2> QED
    BY <2>1, <2>2 DEF NoLeftovers
<1> QED
  BY <1>2, <1>5, <1>6, <1>7 DEF IInv

-----------------------------------------------------------------------------
(* The handlers that remove.                                               *)

(* client_vexit, whether the user was on one channel, on many or on none.  *)
LEMMA ExitInv ==
  ASSUME IInv, NEW u \in User, Exit(u)
  PROVE  IInv'
<1> DEFINE blocks == BlocksOfUser(u)
           gone   == {c \in Emptied(blocks) : ~Persistent(c)}
<1> USE DEF DeleteChannels
<1>0. TypeOK
  BY DEF IInv
<1>1. /\ DeleteChanusers(blocks \cup BlocksOf(gone))
      /\ exists' = exists \ gone
      /\ modes' = [c \in Channel |-> IF c \in gone THEN {} ELSE modes[c]]
      /\ invites' = invites \ (InvitesTo(gone) \cup ({u} \X Channel))
      /\ where' = [where EXCEPT ![u] = Nowhere]
  BY DEF Exit
<1>2. modes' \in [Channel -> SUBSET Mode]
  BY <1>0, <1>1 DEF TypeOK
<1>3. \A c \in Channel : modes'[c] # {} => modes[c] # {} /\ c \notin gone
  BY <1>1
<1>4. /\ where' \in [User -> Server \cup {Me, Nowhere}]
      /\ \A v \in User : where'[v] # where[v] => v = u /\ where'[v] = Nowhere
  BY <1>0, <1>1 DEF TypeOK
<1>5. \A iv \in invites' : iv[2] \notin gone /\ where'[iv[1]] = where[iv[1]]
  BY <1>0, <1>1, <1>4 DEF TypeOK, InvitesTo
<1> HIDE DEF blocks, gone
<1>6. BlocksOfUser(u) \subseteq blocks
  BY DEF blocks
<1> QED
  BY <1>1, <1>2, <1>3, <1>4, <1>5, <1>6, Removal

(* server_split, for all users behind the lost link at once.               *)
LEMMA SplitInv ==
  ASSUME IInv, NEW S \in SUBSET Server, Split(S)
  PROVE  IInv'
<1> DEFINE lost   == {u \in User : where[u] \in S}
           blocks == UNION {BlocksOfUser(u) : u \in lost}
           gone   == Emptied(blocks)
<1> USE DEF DeleteChannels
<1>0. TypeOK
  BY DEF IInv
<1>1. /\ DeleteChanusers(blocks \cup BlocksOf(gone))
      /\ exists' = exists \ gone
      /\ modes' = [c \in Channel |-> IF c \in gone THEN {} ELSE modes[c]]
      /\ invites' = invites \ (InvitesTo(gone) \cup (lost \X Channel))
      /\ where' = [u \in User |-> IF u \in lost THEN Nowhere ELSE where[u]]
  BY DEF Split
<1>2. modes' \in [Channel -> SUBSET Mode]
  BY <1>0, <1>1 DEF TypeOK
<1>3. \A c \in Channel : modes'[c] # {} => modes[c] # {} /\ c \notin gone
  BY <1>1
<1>4. /\ where' \in [User -> Server \cup {Me, Nowhere}]
      /\ \A v \in User : where'[v] # where[v] => v \in lost /\ where'[v] = Nowhere
  BY <1>0, <1>1 DEF TypeOK
<1>5. \A iv \in invites' : iv[2] \notin gone /\ where'[iv[1]] = where[iv[1]]
  BY <1>0, <1>1, <1>4 DEF TypeOK, InvitesTo
<1>6. \A v \in lost : BlocksOfUser(v) \subseteq blocks
  OBVIOUS
<1> HIDE DEF blocks, gone, lost
<1> QED
  BY <1>1, <1>2, <1>3, <1>4, <1>5, <1>6, Removal

(* m_part, ms_part, m_opart and ms_opart: the user's block goes and, with  *)
(* it, the channels of gone.                                               *)
LEMMA PartingInv ==
  ASSUME IInv, NEW blocks, NEW gone,
         DeleteChannels(gone, blocks),
         invites' = invites \ InvitesTo(gone), UNCHANGED where
  PROVE  IInv'
<1> USE DEF DeleteChannels
<1>0. TypeOK
  BY DEF IInv
<1>1. modes' \in [Channel -> SUBSET Mode]
  BY <1>0 DEF TypeOK
<1>2. \A c \in Channel : modes'[c] # {} => modes[c] # {} /\ c \notin gone
  OBVIOUS
<1>3. where' \in [User -> Server \cup {Me, Nowhere}]
  BY <1>0 DEF TypeOK
<1>4. \A iv \in invites' : iv[2] \notin gone /\ where'[iv[1]] = where[iv[1]]
  BY <1>0 DEF TypeOK, InvitesTo
<1> QED
  BY <1>1, <1>2, <1>3, <1>4, Removal

(* chanuser_kick: blocks go, the channel and its invites stay.             *)
LEMMA KickInv ==
  ASSUME IInv, NEW u \in User, NEW c \in Channel,
         NEW T \in SUBSET User, Kick(u, c, T)
  PROVE  IInv'
<1>0. TypeOK /\ NoDangling
  BY DEF IInv
<1>1. DeleteChanusers(T \X {c}) /\ UNCHANGED <<where, exists, modes, invites>>
  BY DEF Kick
<1>2. BlocksOf({}) = {}
  BY DEF BlocksOf
<1>3. /\ modes' \in [Channel -> SUBSET Mode]
      /\ where' \in [User -> Server \cup {Me, Nowhere}]
  BY <1>0, <1>1 DEF TypeOK
<1> QED
  BY <1>1, <1>2, <1>3, Removal

-----------------------------------------------------------------------------
(* The handlers that add.                                                  *)

(* lclient_register, ms_nuser: the new user is on no channel, because none *)
(* of its name was on the network before.                                  *)
LEMMA ArriveInv ==
  ASSUME IInv, NEW u \in User, NEW s \in Server \cup {Me},
         where[u] = Nowhere, where' = [where EXCEPT ![u] = s],
         UNCHANGED <<exists, members, locals, chans, flags, modes, invites>>
  PROVE  IInv'
<1>0. TypeOK /\ LinksAgree /\ NoDangling /\ NoLeftovers
  BY DEF IInv
<1>1. ~Online(u)
  BY NamesAssumption DEF NamesAssumption, Online, IsLocal, IsRemote
<1>2. TypeOK'
  BY <1>0 DEF TypeOK
<1>3. \A v \in User : v # u => where'[v] = where[v]
  BY <1>0 DEF TypeOK
<1>4. \A c \in Channel : u \notin members[c]
  BY <1>0, <1>1 DEF NoDangling
<1>5. LinksAgree'
  <2>1. ASSUME NEW c \in Channel
        PROVE  locals'[c] = {v \in members'[c] : where'[v] = Me}
    <3>1. locals[c] = {v \in members[c] : where[v] = Me}
      BY <1>0 DEF LinksAgree, IsLocal
    <3>2. \A v \in members[c] : where'[v] = where[v]
      BY <1>0, <1>3, <1>4 DEF TypeOK
    <3> QED
      BY <3>1, <3>2
  <2>2. \A c \in Channel, v \in User : v \in members'[c] <=> c \in chans'[v]
    BY <1>0 DEF LinksAgree
  <2> QED
    BY <2>1, <2>2 DEF LinksAgree, IsLocal
<1>6. NoDangling'
  <2>1. ASSUME NEW c \in Channel, NEW v \in members'[c]
        PROVE  Online(v)'
    BY <1>0, <1>3, <1>4 DEF NoDangling, Online, IsLocal, IsRemote, TypeOK
  <2>2. ASSUME NEW iv \in invites'
        PROVE  iv[2] \in exists' /\ IsLocal(iv[1])'
    BY <1>0, <1>1, <1>3 DEF NoDangling, Online, IsLocal, TypeOK
  <2> QED
    BY <1>0, <2>1, <2>2 DEF NoDangling
<1>7. NoLeftovers'
  BY <1>0 DEF NoLeftovers
<1> QED
  BY <1>2, <1>5, <1>6, <1>7 DEF IInv

(* chanuser_new and chanuser_add, from channel_join or ms_njoin: users A,  *)
(* all on the network, become members of c; of the others no flags are     *)
(* added.  Every member stays one, and only local ones get the local link. *)
LEMMA AdditionInv ==
  ASSUME IInv, NEW c \in Channel, NEW A \in SUBSET User,
         NEW pfx \in [User -> SUBSET Privilege],
         \A u \in A : Online(u),
         \A u \in User \ A : pfx[u] = {} \/ pfx[u] = flags[c][u],
         exists' = exists \cup {c},
         members' = [members EXCEPT ![c] = @ \cup A],
         locals' = [locals EXCEPT ![c] = @ \cup {u \in A : IsLocal(u)}],
         chans' = [u \in User |-> IF u \in A THEN chans[u] \cup {c} ELSE chans[u]],
         flags' = [flags EXCEPT ![c] = pfx],
         modes' \in [Channel -> SUBSET Mode],
         \A d \in Channel : d # c => modes'[d] = modes[d],
         invites' \subseteq invites,
         UNCHANGED where
  PROVE  IInv'
<1>0. TypeOK /\ LinksAgree /\ NoDangling /\ NoLeftovers
  BY DEF IInv
<1>1. TypeOK'
  BY <1>0 DEF TypeOK
<1>2. \A d \in Channel, u \in User :
        u \in members'[d] <=> u \in members[d] \/ (d = c /\ u \in A)
  BY <1>0 DEF TypeOK
<1>3. LinksAgree'
  <2>1. \A d \in Channel, u \in User : u \in members'[d] <=> d \in chans'[u]
    BY <1>0, <1>2 DEF LinksAgree
  <2>2. \A d \in Channel, u \in User :
          u \in locals'[d] <=> u \in members'[d] /\ IsLocal(u)
    <3> SUFFICES ASSUME NEW d \in Channel, NEW u \in User
                 PROVE  u \in locals'[d] <=> u \in members'[d] /\ IsLocal(u)
      OBVIOUS
    <3>1. u \in locals[d] <=> u \in members[d] /\ IsLocal(u)
      BY <1>0 DEF LinksAgree
    <3>2. u \in locals'[d] <=> u \in locals[d] \/ (d = c /\ u \in A /\ IsLocal(u))
      BY <1>0 DEF TypeOK
    <3> QED
      BY <3>1, <3>2, <1>2
  <2>3. \A d \in Channel : locals'[d] = {u \in members'[d] : IsLocal(u)}
    BY <2>2, <1>1 DEF TypeOK
  <2> QED
    BY <2>1, <2>3 DEF LinksAgree, IsLocal
<1>4. NoDangling'
  <2>1. ASSUME NEW d \in Channel, NEW u \in members'[d]
        PROVE  d \in exists' /\ Online(u)'
    BY <1>0, <1>1, <1>2 DEF NoDangling, Online, IsLocal, IsRemote, TypeOK
  <2>2. ASSUME NEW iv \in invites'
        PROVE  iv[2] \in exists' /\ IsLocal(iv[1])'
    BY <1>0 DEF NoDangling, IsLocal
  <2> QED
    BY <2>1, <2>2 DEF NoDangling
<1>5. NoLeftovers'
  <2>1. ASSUME NEW d \in Channel, NEW u \in User, flags'[d][u] # {}
        PROVE  u \in members'[d]
    BY <2>1, <1>0, <1>2 DEF NoLeftovers, TypeOK
  <2>2. ASSUME NEW d \in Channel, modes'[d] # {}
        PROVE  d \in exists'
    BY <2>2, <1>0 DEF NoLeftovers
  <2> QED
    BY <2>1, <2>2 DEF NoLeftovers
<1> QED
  BY <1>1, <1>3, <1>4, <1>5 DEF IInv

(* A single user joins (chanuser_add): an instance of AdditionInv.         *)
LEMMA AddChanuserInv ==
  ASSUME IInv, NEW u \in User, NEW c \in Channel, NEW p \in SUBSET Privilege,
         IsLocal(u), AddChanuser(u, c, p),
         exists' = exists \cup {c},
         modes' \in [Channel -> SUBSET Mode],
         \A d \in Channel : d # c => modes'[d] = modes[d],
         invites' \subseteq invites,
         UNCHANGED where
  PROVE  IInv'
<1> DEFINE pfx == [flags[c] EXCEPT ![u] = p]
<1>0. TypeOK
  BY DEF IInv
<1>1. pfx \in [User -> SUBSET Privilege]
  BY <1>0 DEF TypeOK
<1>2. /\ \A v \in User \ {u} : pfx[v] = flags[c][v]
      /\ flags' = [flags EXCEPT ![c] = pfx]
  BY <1>0 DEF TypeOK, AddChanuser
<1>3. locals' = [locals EXCEPT ![c] = @ \cup {v \in {u} : IsLocal(v)}]
  <2>1. {v \in {u} : IsLocal(v)} = {u}
    OBVIOUS
  <2> QED
    BY <2>1 DEF AddChanuser
<1>4. chans' = [v \in User |-> IF v \in {u} THEN chans[v] \cup {c} ELSE chans[v]]
  BY <1>0 DEF TypeOK, AddChanuser
<1>5. members' = [members EXCEPT ![c] = @ \cup {u}]
  BY DEF AddChanuser
<1>6. \A v \in {u} : Online(v)
  BY DEF Online
<1> HIDE DEF pfx
<1> QED
  BY <1>1, <1>2, <1>3, <1>4, <1>5, <1>6, AdditionInv

(* ms_njoin: several users at once, and with an older timestamp it takes   *)
(* the privileges of everybody who was there.                              *)
LEMMA NJoinInv ==
  ASSUME IInv, NEW c \in Channel, NEW age \in Age, NEW U \in SUBSET User,
         NEW pfx \in Prefix, NJoin(c, age, U, pfx)
  PROVE  IInv'
<1> DEFINE new == c \notin exists
           cut == ~new /\ age = "older"
           usr == {u \in U : IsRemote(u) /\ c \notin chans[u]}
           got == IF ~new /\ age = "newer" THEN {} ELSE pfx
           fl  == [u \in User |-> IF u \in usr THEN got
                                  ELSE IF cut THEN {} ELSE flags[c][u]]
<1>0. TypeOK
  BY DEF IInv
<1>1. /\ exists' = exists \cup {c}
      /\ members' = [members EXCEPT ![c] = @ \cup usr]
      /\ chans' = [u \in User |-> IF u \in usr THEN chans[u] \cup {c}
                                               ELSE chans[u]]
      /\ UNCHANGED <<where, invites>>
  BY DEF NJoin
<1>2. flags' = [flags EXCEPT ![c] = fl]
  BY <1>0 DEF NJoin, TypeOK
<1>3. fl \in [User -> SUBSET Privilege]
  BY <1>0 DEF TypeOK, Prefix, Privilege
<1>4. \A u \in User \ usr : fl[u] = {} \/ fl[u] = flags[c][u]
  OBVIOUS
<1>5. usr \in SUBSET User /\ \A u \in usr : Online(u) /\ ~IsLocal(u)
  BY NamesAssumption DEF NamesAssumption, Online, IsLocal, IsRemote
<1>6. locals' = [locals EXCEPT ![c] = @ \cup {u \in usr : IsLocal(u)}]
  <2>1. {u \in usr : IsLocal(u)} = {}
    BY <1>5
  <2>2. locals' = locals
    BY DEF NJoin
  <2> QED
    BY <2>1, <2>2, <1>0 DEF TypeOK
<1>7. /\ modes' \in [Channel -> SUBSET Mode]
      /\ \A d \in Channel : d # c => modes'[d] = modes[d]
  BY <1>0 DEF NJoin, TypeOK
<1>8. invites' \subseteq invites
  BY <1>1
<1> HIDE DEF new, cut, usr, got, fl
<1> QED
  BY <1>1, <1>2, <1>3, <1>4, <1>5, <1>6, <1>7, <1>8, AdditionInv

(* m_join on a name that is free, and on a channel that is there.          *)
LEMMA JoinInv ==
  ASSUME IInv, NEW u \in User, NEW c \in Channel,
         \/ JoinNew(u, c)
         \/ \E auto \in {{}, {"o"}} : JoinExisting(u, c, auto)
  PROVE  IInv'
<1>0. TypeOK
  BY DEF IInv
<1>1. CASE JoinNew(u, c)
  <2>1. /\ modes' \in [Channel -> SUBSET Mode]
        /\ \A d \in Channel : d # c => modes'[d] = modes[d]
    BY <1>0, <1>1 DEF TypeOK, JoinNew
  <2>2. /\ exists' = exists \cup {c}
        /\ AddChanuser(u, c, Privilege)
        /\ IsLocal(u)
        /\ invites' \subseteq invites
        /\ UNCHANGED where
    BY <1>1 DEF JoinNew
  <2> QED
    BY <2>1, <2>2, AddChanuserInv
<1>2. CASE \E auto \in {{}, {"o"}} : JoinExisting(u, c, auto)
  <2>1. PICK auto \in SUBSET Privilege : JoinExisting(u, c, auto)
    BY <1>2 DEF Privilege
  <2>2. /\ IsLocal(u)
        /\ invites' \subseteq invites
        /\ c \in exists
        /\ UNCHANGED <<where, exists, modes>>
        /\ \/ AddChanuser(u, c, auto)
           \/ UNCHANGED <<members, locals, chans, flags>>
    BY <2>1 DEF JoinExisting
  <2>3. exists' = exists \cup {c} /\ modes' \in [Channel -> SUBSET Mode]
    BY <2>2, <1>0 DEF TypeOK
  <2>4. CASE AddChanuser(u, c, auto)
    BY <2>2, <2>3, <2>4, AddChanuserInv
  <2>5. CASE UNCHANGED <<members, locals, chans, flags>>
    BY <2>2, <2>5 DEF IInv, TypeOK, LinksAgree, NoDangling, NoLeftovers,
                      IsLocal, Online, IsRemote
  <2> QED
    BY <2>2, <2>4, <2>5
<1> QED
  BY <1>1, <1>2

(* m_invite, user_invite.                                                  *)
LEMMA InviteInv ==
  ASSUME IInv, NEW u \in User, NEW v \in User, NEW c \in Channel,
         Invite(u, v, c)
  PROVE  IInv'
<1>1. /\ invites' = invites \cup {<<v, c>>}
      /\ UNCHANGED <<where, exists, members, locals, chans, flags, modes>>
      /\ c \in exists /\ IsLocal(v)
  BY DEF Invite
<1>2. TypeOK' /\ LinksAgree' /\ NoLeftovers'
  BY <1>1 DEF IInv, TypeOK, LinksAgree, NoLeftovers, IsLocal
<1>3. NoDangling'
  BY <1>1 DEF IInv, NoDangling, Online, IsLocal, IsRemote
<1> QED
  BY <1>2, <1>3 DEF IInv

(* The three ways a mode changes, whoever asked for it.                    *)
LEMMA ModeInv ==
  ASSUME IInv, NEW c \in Channel,
         \/ \E m \in Mode : SetMode(c, m) \/ UnsetMode(c, m)
         \/ \E v \in User, p \in Privilege : SetPrivilege(c, v, p)
  PROVE  IInv'
<1>0. TypeOK /\ LinksAgree /\ NoDangling /\ NoLeftovers
  BY DEF IInv
<1>1. CASE \E m \in Mode : SetMode(c, m) \/ UnsetMode(c, m)
  <2>1. /\ c \in exists
        /\ invites' \subseteq invites
        /\ modes' \in [Channel -> SUBSET Mode]
        /\ \A d \in Channel : d # c => modes'[d] = modes[d]
        /\ UNCHANGED <<where, exists, members, locals, chans, flags>>
    BY <1>0, <1>1 DEF SetMode, UnsetMode, TypeOK
  <2>2. TypeOK' /\ LinksAgree' /\ NoLeftovers'
    BY <1>0, <2>1 DEF TypeOK, LinksAgree, NoLeftovers, IsLocal
  <2>3. NoDangling'
    BY <1>0, <2>1 DEF NoDangling, Online, IsLocal, IsRemote
  <2> QED
    BY <2>2, <2>3 DEF IInv
<1>2. CASE \E v \in User, p \in Privilege : SetPrivilege(c, v, p)
  <2>1. PICK v \in User, p \in Privilege : SetPrivilege(c, v, p)
    BY <1>2
  <2>2. /\ v \in members[c]
        /\ UNCHANGED <<where, exists, members, locals, chans, modes, invites>>
    BY <1>0, <2>1 DEF SetPrivilege, LinksAgree
  <2>3. TypeOK'
    BY <1>0, <2>1 DEF SetPrivilege, TypeOK
  <2>4. \A d \in Channel, w \in User :
          flags'[d][w] = flags[d][w] \/ w \in members[d]
    BY <1>0, <2>1, <2>2 DEF SetPrivilege, TypeOK
  <2>5. LinksAgree' /\ NoDangling' /\ NoLeftovers'
    BY <1>0, <2>2, <2>4 DEF LinksAgree, NoDangling, NoLeftovers, Online,
                            IsLocal, IsRemote
  <2> QED
    BY <2>3, <2>5 DEF IInv
<1> QED
  BY <1>1, <1>2

-----------------------------------------------------------------------------
(* Every handler keeps the four invariants.                                *)
LEMMA NextInv == IInv /\ [Next]_vars => IInv'
<1> SUFFICES ASSUME IInv, [Next]_vars
             PROVE  IInv'
  OBVIOUS
<1>1. CASE LocalStep
  <2>1. ASSUME NEW u \in User, Register(u)
        PROVE  IInv'
    BY <2>1, ArriveInv DEF Register
  <2>2. ASSUME NEW u \in User, NEW c \in Channel,
               JoinNew(u, c) \/ \E auto \in {{}, {"o"}} : JoinExisting(u, c, auto)
        PROVE  IInv'
    BY <2>2, JoinInv
  <2>3. ASSUME NEW u \in User, NEW c \in Channel, Part(u, c)
        PROVE  IInv'
    BY <2>3, PartingInv DEF Part
  <2> QED
    BY <1>1, <2>1, <2>2, <2>3 DEF LocalStep
<1>2. CASE RemoteStep
  <2>1. ASSUME NEW u \in User, NEW s \in Server, Introduce(u, s)
        PROVE  IInv'
    BY <2>1, ArriveInv DEF Introduce
  <2>2. ASSUME NEW S \in SUBSET Server, Split(S)
        PROVE  IInv'
    BY <2>2, SplitInv
  <2>3. ASSUME NEW u \in User, NEW c \in Channel, PartRemote(u, c)
        PROVE  IInv'
    BY <2>3, PartingInv DEF PartRemote
  <2>4. ASSUME NEW c \in Channel, NEW age \in Age, NEW U \in SUBSET User,
               NEW pfx \in Prefix, NJoin(c, age, U, pfx)
        PROVE  IInv'
    BY <2>4, NJoinInv
  <2>5. ASSUME NEW c \in Channel, ServerMode(c)
        PROVE  IInv'
    BY <2>5, ModeInv DEF ServerMode
  <2> QED
    BY <1>2, <2>1, <2>2, <2>3, <2>4, <2>5 DEF RemoteStep
<1>3. CASE UserStep
  <2>1. ASSUME NEW u \in User, Exit(u)
        PROVE  IInv'
    BY <2>1, ExitInv
  <2>2. ASSUME NEW u \in User, NEW c \in Channel, MemberMode(u, c)
        PROVE  IInv'
    BY <2>2, ModeInv DEF MemberMode
  <2> QED
    BY <1>3, <2>1, <2>2 DEF UserStep
<1>4. CASE KickStep
  BY <1>4, KickInv DEF KickStep
<1>5. CASE OPartStep
  BY <1>5, PartingInv DEF OPartStep, OPart
<1>6. CASE InviteStep
  BY <1>6, InviteInv DEF InviteStep
<1>7. CASE UNCHANGED vars
  BY <1>7 DEF vars, IInv, TypeOK, LinksAgree, NoDangling, NoLeftovers,
              Online, IsLocal, IsRemote
<1> QED
  BY <1>1, <1>2, <1>3, <1>4, <1>5, <1>6, <1>7 DEF Next

(* The four invariants hold in every reachable state.                      *)
THEOREM ListsAreConsistent == Spec => []IInv
<1> QED
  BY InitInv, NextInv, PTL DEF Spec

(* The variables keep their types (the blocks of chanuser.c and channel.c).*)
THEOREM TypeCorrect == Spec => []TypeOK
<1>1. IInv => TypeOK
  BY DEF IInv
<1> QED
  BY <1>1, ListsAreConsistent, PTL

(* The channel's members, its local members and the user's channels always *)
(* tell the same story (chanuser_add, chanuser_delete).                    *)
THEOREM MembershipAgrees == Spec => []LinksAgree
<1>1. IInv => LinksAgree
  BY DEF IInv
<1> QED
  BY <1>1, ListsAreConsistent, PTL

(* No member, no membership and no invite outlives its user or its channel *)
(* (client_vexit, server_split, channel_release, user_release).            *)
THEOREM NothingDangles == Spec => []NoDangling
<1>1. IInv => NoDangling
  BY DEF IInv
<1> QED
  BY <1>1, ListsAreConsistent, PTL

(* Privileges end with the membership, modes with the channel.             *)
THEOREM NothingIsLeftOver == Spec => []NoLeftovers
<1>1. IInv => NoLeftovers
  BY DEF IInv
<1> QED
  BY <1>1, ListsAreConsistent, PTL

(* Together: after every handler the three lists of a membership agree and *)
(* hold only what is there (LinksAgree, NoDangling, NoLeftovers).          *)
THEOREM ListsStayInStep == Spec => []ListsInStep
<1>1. IInv => ListsInStep
  BY DEF IInv, ListsInStep
<1> QED
  BY <1>1, ListsAreConsistent, PTL

-----------------------------------------------------------------------------
(* Persistent channels.                                                    *)

(* One step of any handler but OPART deletes a persistent channel only     *)
(* when no user of this server is on it.                                   *)
LEMMA PersistentStep ==
  ASSUME IInv, [Next]_vars, NEW c \in Channel,
         c \in exists, Persistent(c), c \notin exists'
  PROVE  OPartStep \/ locals[c] = {}
<1>0. TypeOK /\ LinksAgree
  BY DEF IInv
<1>1. ASSUME NEW blocks, c \in Emptied(blocks),
             \A u \in User : <<u, c>> \in blocks => IsRemote(u)
      PROVE  locals[c] = {}
  <2>1. \A u \in members[c] : IsRemote(u)
    BY <1>0, <1>1 DEF Emptied, TypeOK
  <2> QED
    BY <2>1, <1>0, NamesAssumption
    DEF NamesAssumption, LinksAgree, IsLocal, IsRemote, TypeOK
<1>2. CASE LocalStep
  <2>1. ASSUME NEW u \in User, NEW d \in Channel, Part(u, d)
        PROVE  FALSE
    <3>1. d # c
      BY <2>1 DEF Part
    <3>2. c \in Emptied({<<u, d>>})
      BY <2>1 DEF Part, DeleteChannels
    <3>3. members[c] \subseteq {}
      BY <3>1, <3>2 DEF Emptied
    <3> QED
      BY <3>2, <3>3 DEF Emptied
  <2> QED
    BY <1>2, <2>1 DEF LocalStep, Register, JoinNew, JoinExisting
<1>3. CASE RemoteStep
  <2>1. ASSUME NEW S \in SUBSET Server, Split(S)
        PROVE  locals[c] = {}
    <3> DEFINE lost   == {u \in User : where[u] \in S}
               blocks == UNION {BlocksOfUser(u) : u \in lost}
    <3>1. c \in Emptied(blocks)
      BY <2>1 DEF Split, DeleteChannels
    <3>2. \A u \in User : <<u, c>> \in blocks => IsRemote(u)
      BY DEF BlocksOfUser, IsRemote
    <3> HIDE DEF blocks
    <3> QED
      BY <1>1, <3>1, <3>2
  <2>2. ASSUME NEW u \in User, NEW d \in Channel, PartRemote(u, d)
        PROVE  locals[c] = {}
    <3>1. c \in Emptied({<<u, d>>}) /\ IsRemote(u)
      BY <2>2 DEF PartRemote, DeleteChannels
    <3> QED
      BY <1>1, <3>1
  <2>3. CASE \E d \in Channel : ServerMode(d)
    BY <2>3 DEF ServerMode, SetMode, UnsetMode, SetPrivilege
  <2>4. ASSUME NEW d \in Channel, NEW age \in Age, NEW U \in SUBSET User,
               NEW pfx \in Prefix, NJoin(d, age, U, pfx)
        PROVE  FALSE
    BY <2>4 DEF NJoin
  <2>5. ASSUME NEW u \in User, NEW s \in Server, Introduce(u, s)
        PROVE  FALSE
    BY <2>5 DEF Introduce
  <2> QED
    BY <1>3, <2>1, <2>2, <2>3, <2>4, <2>5 DEF RemoteStep
<1>4. CASE UserStep
  BY <1>4 DEF UserStep, Exit, DeleteChannels, MemberMode, SetMode, UnsetMode,
              SetPrivilege
<1>5. CASE KickStep
  BY <1>5 DEF KickStep, Kick
<1>6. CASE InviteStep
  BY <1>6 DEF InviteStep, Invite
<1> QED
  BY <1>2, <1>3, <1>4, <1>5, <1>6 DEF Next, vars

(* +P keeps a channel for the users of this server against everything but  *)
(* OPART: m_part, client_vexit, ms_part, server_split and chanuser_kick.   *)
THEOREM PersistentChannelsStay == Spec => PersistentKeepsLocals
<1>1. IInv /\ [Next]_vars
      => [\A c \in Channel :
            c \in exists /\ Persistent(c) /\ c \notin exists'
            => OPartStep \/ locals[c] = {}]_vars
  <2> SUFFICES ASSUME IInv, [Next]_vars, NEW c \in Channel,
                      c \in exists, Persistent(c), c \notin exists'
               PROVE  OPartStep \/ locals[c] = {}
    OBVIOUS
  <2> QED
    BY PersistentStep
<1> QED
  BY <1>1, ListsAreConsistent, PTL DEF Spec, PersistentKeepsLocals

-----------------------------------------------------------------------------
(* The last one out closes the door.                                       *)

\* Whoever is the last on an ordinary channel takes it along.
DoorStep(c) ==
  members[c] # {} /\ members'[c] = {} /\ "P" \notin modes'[c] => c \notin exists'

(* Blocks that leave a channel which stays empty are all it had.           *)
LEMMA AllGone ==
  ASSUME IInv, NEW blocks, NEW gone, DeleteChannels(gone, blocks),
         NEW c \in Channel, members[c] # {}, members'[c] = {}, c \in exists'
  PROVE  c \in Emptied(blocks) /\ c \notin gone /\ modes'[c] = modes[c]
<1>1. TypeOK /\ NoDangling
  BY DEF IInv
<1>2. c \in exists /\ c \notin gone /\ modes'[c] = modes[c]
  BY DEF DeleteChannels
<1>3. ASSUME NEW u \in members[c] PROVE <<u, c>> \in blocks
  <2>1. u \in User
    BY <1>1 DEF TypeOK
  <2>2. u \notin members'[c]
    OBVIOUS
  <2>3. <<u, c>> \in blocks \cup BlocksOf(gone)
    BY <2>1, <2>2 DEF DeleteChannels, DeleteChanusers
  <2>4. <<u, c>> \notin BlocksOf(gone)
    BY <1>2 DEF BlocksOf
  <2> QED
    BY <2>3, <2>4
<1> QED
  BY <1>2, <1>3 DEF Emptied

(* The handlers that remove members but KICK: PART, OPART, exits, splits.  *)
LEMMA PartDoor ==
  ASSUME IInv, NEW u \in User, NEW d \in Channel, NEW c \in Channel,
         DeleteChannels(Emptied({<<u, d>>}), {<<u, d>>})
  PROVE  DoorStep(c)
  BY AllGone DEF DoorStep

LEMMA ExitDoor ==
  ASSUME IInv, NEW u \in User, NEW c \in Channel, Exit(u)
  PROVE  DoorStep(c)
<1> DEFINE blocks == BlocksOfUser(u)
           gone   == {d \in Emptied(blocks) : ~Persistent(d)}
<1>1. DeleteChannels(gone, blocks)
  BY DEF Exit
<1>2. gone = {d \in Emptied(blocks) : "P" \notin modes[d]}
  BY DEF Persistent
<1> HIDE DEF blocks, gone
<1>3. SUFFICES ASSUME members[c] # {}, members'[c] = {}, c \in exists', "P" \notin modes'[c]
               PROVE  FALSE
  BY DEF DoorStep
<1>4. c \in Emptied(blocks) /\ c \notin gone /\ modes'[c] = modes[c]
  BY <1>1, <1>3, AllGone
<1> QED
  BY <1>2, <1>3, <1>4

LEMMA SplitDoor ==
  ASSUME IInv, NEW S, NEW c \in Channel, Split(S)
  PROVE  DoorStep(c)
<1> DEFINE blocks == UNION {BlocksOfUser(u) : u \in {u \in User : where[u] \in S}}
<1>1. DeleteChannels(Emptied(blocks), blocks)
  BY DEF Split
<1> HIDE DEF blocks
<1> QED
  BY <1>1, AllGone DEF DoorStep

LEMMA OPartDoor ==
  ASSUME IInv, NEW u \in User, NEW d \in Channel, NEW c \in Channel, OPart(u, d)
  PROVE  DoorStep(c)
<1>1. DeleteChannels({d}, {<<u, d>>})
  BY DEF OPart
<1>2. SUFFICES ASSUME members[c] # {}, members'[c] = {}, c \in exists'
               PROVE  FALSE
  BY DEF DoorStep
<1>3. c \in Emptied({<<u, d>>}) /\ c \notin {d}
  BY <1>1, <1>2, AllGone
<1> QED
  BY <1>3 DEF Emptied

(* All others keep the members there are.                                  *)
LEMMA StepDoor ==
  ASSUME IInv, LocalStep \/ RemoteStep \/ UserStep \/ OPartStep \/ InviteStep,
         NEW c \in Channel
  PROVE  DoorStep(c)
<1>1. TypeOK
  BY DEF IInv
<1>2. ASSUME members[c] \subseteq members'[c] PROVE DoorStep(c)
  BY <1>2 DEF DoorStep
<1>3. ASSUME NEW u \in User, NEW d \in Channel, NEW p, AddChanuser(u, d, p) PROVE DoorStep(c)
  <2>1. members[c] \subseteq members'[c]
    BY <1>1, <1>3 DEF AddChanuser, TypeOK
  <2> QED
    BY <1>2, <2>1
<1>4. ASSUME members' = members PROVE DoorStep(c)
  BY <1>2, <1>4
<1>5. CASE LocalStep
  <2>1. ASSUME NEW u \in User, Register(u) PROVE DoorStep(c)
    BY <1>4, <2>1 DEF Register
  <2>2. ASSUME NEW u \in User, NEW d \in Channel, JoinNew(u, d) PROVE DoorStep(c)
    BY <1>3, <2>2 DEF JoinNew
  <2>3. ASSUME NEW u \in User, NEW d \in Channel, NEW auto, JoinExisting(u, d, auto)
        PROVE  DoorStep(c)
    <3>1. AddChanuser(u, d, auto) \/ members' = members
      BY <2>3 DEF JoinExisting
    <3> QED
      BY <1>3, <1>4, <3>1
  <2>4. ASSUME NEW u \in User, NEW d \in Channel, Part(u, d) PROVE DoorStep(c)
    BY <2>4, PartDoor DEF Part
  <2> QED
    BY <1>5, <2>1, <2>2, <2>3, <2>4 DEF LocalStep
<1>6. CASE RemoteStep
  <2>1. ASSUME NEW u \in User, NEW s \in Server, Introduce(u, s) PROVE DoorStep(c)
    BY <1>4, <2>1 DEF Introduce
  <2>2. ASSUME NEW S, Split(S) PROVE DoorStep(c)
    BY <2>2, SplitDoor
  <2>3. ASSUME NEW u \in User, NEW d \in Channel, PartRemote(u, d) PROVE DoorStep(c)
    BY <2>3, PartDoor DEF PartRemote
  <2>4. ASSUME NEW d \in Channel, NEW age, NEW U, NEW pfx, NJoin(d, age, U, pfx)
        PROVE  DoorStep(c)
    <3>1. members[c] \subseteq members'[c]
      BY <1>1, <2>4 DEF NJoin, TypeOK
    <3> QED
      BY <1>2, <3>1
  <2>5. ASSUME NEW d \in Channel, ServerMode(d) PROVE DoorStep(c)
    BY <1>4, <2>5 DEF ServerMode, SetMode, UnsetMode, SetPrivilege
  <2> QED
    BY <1>6, <2>1, <2>2, <2>3, <2>4, <2>5 DEF RemoteStep
<1>7. CASE UserStep
  <2>1. ASSUME NEW u \in User, NEW d \in Channel, MemberMode(u, d) PROVE DoorStep(c)
    BY <1>4, <2>1 DEF MemberMode, SetMode, UnsetMode, SetPrivilege
  <2> QED
    BY <1>7, <2>1, ExitDoor DEF UserStep
<1>8. CASE OPartStep
  BY <1>8, OPartDoor DEF OPartStep
<1>9. CASE InviteStep
  BY <1>4, <1>9 DEF InviteStep, Invite
<1> QED
  BY <1>5, <1>6, <1>7, <1>8, <1>9

(* What runs for TLC takes no other steps than Membership.                 *)
LEMMA ObservedSteps == [MCNext]_<<vars, joinVars, act>> => [Next]_vars
  BY DEF MCNext, Lists, Next, KickStep, OPartStep, InviteStep

LEMMA ObservedInv == MCSpec => []IInv
<1>1. MCInit => IInv
  BY InitInv DEF MCInit
<1>2. IInv /\ [MCNext]_<<vars, joinVars, act>> => IInv'
  BY NextInv, ObservedSteps
<1> QED
  BY <1>1, <1>2, PTL DEF MCSpec

(* An ordinary channel whose last member parts, quits, is killed or splits *)
(* off, or whose owner ends it, is deleted in the same step (client_vexit, *)
(* m_part, ms_part, m_opart, server_split); after a KICK it stays.         *)
THEOREM LastOneClosesDoor == MCSpec => LastOneOutClosesDoor
<1>1. IInv /\ [MCNext]_<<vars, joinVars, act>>
      => [\A c \in Channel :
            /\ members[c] # {} /\ members'[c] = {} /\ "P" \notin modes'[c]
            => c \notin exists' \/ act' = "KICK"]_<<vars, act>>
  <2> SUFFICES ASSUME IInv, MCNext, NEW c \in Channel,
                      members[c] # {}, members'[c] = {}, "P" \notin modes'[c]
               PROVE  c \notin exists' \/ act' = "KICK"
    OBVIOUS
  <2>1. CASE UNCHANGED <<vars, act>>
    BY <2>1 DEF vars
  <2>2. CASE LocalStep \/ RemoteStep \/ UserStep \/ OPartStep \/ InviteStep
    BY <2>2, StepDoor DEF DoorStep
  <2>3. CASE Lists
    BY <2>2, <2>3 DEF Lists, OPartStep, InviteStep
  <2> QED
    BY <2>1, <2>3 DEF MCNext
<1> QED
  BY <1>1, ObservedInv, PTL DEF MCSpec, LastOneOutClosesDoor

-----------------------------------------------------------------------------
(* The promises of the channel modes hold in every load order that keeps   *)
(* the pairs of Contract, not only in the ones a configuration ships.      *)
(*                                                                         *)
(* TLC lets hooks run in every order Contract allows; here Before is any   *)
(* relation that contains it.  The invariant says, for each promise, what  *)
(* the verdict must already be once the hook that decides it has run, and  *)
(* that no hook still pending can take it back.                            *)
OrderKept ==
  /\ "cm_invite" \in pending => "cm_ban" \in pending /\ "cm_deny" \in pending
  /\ \A h \in {"cm_ban", "cm_deny", "cm_except"} :
       h \in pending => "cm_limit" \in pending /\ "cm_key" \in pending

\* Who may have given each verdict.
VerdictMeans ==
  /\ reply = "-I" => ~invited /\ "I" \in facts
  /\ reply = "-i" => wasInvited
  /\ reply = "-e" => "e" \in facts
  /\ reply = "ERR_INVITEONLYCHAN" =>
       "i" \in facts /\ (~wasInvited \/ {"e", "I"} \subseteq facts)
  /\ reply = "ERR_CHANNELISFULL" => "cm_limit" \notin pending
  /\ reply = "ERR_BADCHANNELKEY" => "cm_key" \notin pending

InviteLedger ==
  /\ invited => wasInvited /\ "cm_invite" \in pending
  /\ "cm_invite" \in pending => reply \in {"none", "-e", "-I"}
  /\ "cm_invite" \in pending /\ wasInvited /\ ~invited =>
       "I" \in facts /\ (reply = "-I" \/ "e" \in facts)

Outsider == ~wasInvited /\ "I" \notin facts

InviteSettled ==
  Outsider /\ "i" \in facts /\ "cm_invite" \notin pending
    => reply = "ERR_INVITEONLYCHAN"

LimitSettled ==
  Outsider /\ "l" \in facts /\ "cm_limit" \notin pending => reply \in Numeric

KeySettled ==
  Outsider /\ "k" \in facts /\ "cm_key" \notin pending => reply \in Numeric

BanSettled ==
  /\ "b" \in facts /\ "e" \notin facts /\ "cm_ban" \notin pending
  /\ ~ ({"i", "I"} \subseteq facts /\ ~wasInvited)
  => \/ reply \in {"ERR_BANNEDFROMCHAN", "ERR_DENIEDFROMCHAN"}
     \/ reply = "ERR_INVITEONLYCHAN" /\ "I" \notin facts

HookInv ==
  /\ JoinTypeOK
  /\ OrderKept
  /\ VerdictMeans
  /\ InviteLedger
  /\ InviteSettled
  /\ LimitSettled
  /\ KeySettled
  /\ BanSettled

-----------------------------------------------------------------------------
(* Init: hooks_call starts with no verdict and every hook to run.          *)
LEMMA HookInit == JoinInit => HookInv
  BY DEF JoinInit, HookInv, JoinTypeOK, OrderKept, VerdictMeans, InviteLedger,
         InviteSettled, LimitSettled, KeySettled, BanSettled, Reply, Numeric,
         Hook

(* What the contract says of a hook that runs: those that must come before *)
(* it have run.                                                            *)
LEMMA RunsInOrder ==
  ASSUME Contract \subseteq Before, NEW h \in Hook, RunHook(h)
  PROVE  /\ h \in {"cm_ban", "cm_deny"} => "cm_invite" \notin pending
         /\ h \in {"cm_limit", "cm_key"} =>
              /\ "cm_ban" \notin pending /\ "cm_deny" \notin pending
              /\ "cm_except" \notin pending
<1>1. \A g \in pending : <<g, h>> \notin Contract
  BY DEF RunHook
<1>2. \A x \in {"cm_ban", "cm_deny"} : <<"cm_invite", x>> \in Contract
  BY DEF Contract
<1>3. \A x \in {"cm_ban", "cm_deny", "cm_except"}, y \in {"cm_limit", "cm_key"} :
        <<x, y>> \in Contract
  BY DEF Contract
<1> QED
  BY <1>1, <1>2, <1>3

(* One step of the walk, hook by hook.                                     *)
LEMMA HookKeepsInv ==
  ASSUME Contract \subseteq Before, HookInv, NEW h \in pending, RunHook(h)
  PROVE  HookInv'
<1>1. h \in Hook
  BY DEF HookInv, JoinTypeOK
<1>2. /\ h \in {"cm_ban", "cm_deny"} => "cm_invite" \notin pending
      /\ h \in {"cm_limit", "cm_key"} =>
           /\ "cm_ban" \notin pending /\ "cm_deny" \notin pending
           /\ "cm_except" \notin pending
  BY <1>1, RunsInOrder
<1>3. /\ pending' = pending \ {h} /\ facts' = facts /\ wasInvited' = wasInvited
      /\ LET s == Call(h, St(reply, invited), facts)
         IN  reply' = s.reply /\ invited' = s.invited
  BY DEF RunHook
<1>4. OrderKept'
  BY <1>2, <1>3 DEF HookInv, OrderKept
<1> USE DEF HookInv, JoinTypeOK, OrderKept, VerdictMeans, InviteLedger, InviteSettled,
            LimitSettled, KeySettled, BanSettled, Outsider, Numeric, Reply,
            Call, St, Denied
<1>5. CASE h = "cm_invite"
  BY <1>2, <1>3, <1>4, <1>5 DEF CmInvite
<1>6. CASE h = "cm_ban"
  BY <1>2, <1>3, <1>4, <1>6 DEF CmBan
<1>7. CASE h = "cm_deny"
  BY <1>2, <1>3, <1>4, <1>7 DEF CmDeny
<1>8. CASE h = "cm_except"
  BY <1>2, <1>3, <1>4, <1>8 DEF CmExcept
<1>9. CASE h = "cm_invex"
  BY <1>2, <1>3, <1>4, <1>9, ZenonT(60) DEF CmInvex
<1>10. CASE h = "cm_limit"
  BY <1>2, <1>3, <1>4, <1>10 DEF CmLimit
<1>11. CASE h = "cm_key"
  BY <1>2, <1>3, <1>4, <1>11 DEF CmKey
<1> QED
  BY <1>1, <1>5, <1>6, <1>7, <1>8, <1>9, <1>10, <1>11 DEF Hook

(* The invariant holds throughout the walk, in every load order.           *)
LEMMA HookInductive ==
  ASSUME Contract \subseteq Before
  PROVE  JoinSpec => []HookInv
<1>1. HookInv /\ [JoinNext]_joinVars => HookInv'
  <2> SUFFICES ASSUME HookInv, [JoinNext]_joinVars PROVE HookInv'
    OBVIOUS
  <2>1. ASSUME NEW h \in pending, RunHook(h) PROVE HookInv'
    BY <2>1, HookKeepsInv
  <2>2. CASE UNCHANGED joinVars
    BY <2>2 DEF joinVars, HookInv, JoinTypeOK, OrderKept, VerdictMeans, InviteLedger,
                InviteSettled, LimitSettled, KeySettled, BanSettled, Outsider
  <2> QED
    BY <2>1, <2>2 DEF JoinNext
<1> QED
  BY <1>1, HookInit, PTL DEF JoinSpec

(* A +i channel admits only invited clients and those a +I mask matches,   *)
(* whatever the bans and exceptions say, if cm_invite runs before the bans *)
(* (cm_invite_hook against cm_except_hook).                                *)
THEOREM InviteOnlyKept ==
  ASSUME Contract \subseteq Before
  PROVE  JoinSpec => []InviteOnlyHolds
<1>1. HookInv => InviteOnlyHolds
  BY DEF HookInv, InviteSettled, Outsider, InviteOnlyHolds, Admitted, Done, Numeric
<1> QED
  BY <1>1, HookInductive, PTL

(* The limit and the key give way to an invite or a +I mask and to nothing *)
(* else, if cm_limit_hook and cm_key_hook run after the bans and their     *)
(* exceptions.                                                             *)
THEOREM LimitAndKeyKept ==
  ASSUME Contract \subseteq Before
  PROVE  JoinSpec => [](LimitHolds /\ KeyHolds)
<1>1. HookInv => LimitHolds /\ KeyHolds
  BY DEF HookInv, LimitSettled, KeySettled, Outsider, LimitHolds, KeyHolds,
         Admitted, Done
<1> QED
  BY <1>1, HookInductive, PTL

(* A banned client without an exception is refused, outside the +i case in *)
(* which cm_ban_hook says nothing; and an admitted client's invite is used *)
(* up (cm_invite_hook, cm_invex_hook).                                     *)
THEOREM BansAndInvitesKept ==
  ASSUME Contract \subseteq Before
  PROVE  JoinSpec => [](BanHoldsOutsideInvex /\ InviteSpent)
<1>1. HookInv => BanHoldsOutsideInvex /\ InviteSpent
  BY DEF HookInv, BanSettled, InviteLedger, BanHoldsOutsideInvex, InviteSpent,
         Refused, Admitted, Done, Numeric
<1> QED
  BY <1>1, HookInductive, PTL

(* The verdict on a JOIN is what all the modes of the channel together ask *)
(* for, in every load order that keeps the contract (hooks_call).          *)
THEOREM VerdictKept ==
  ASSUME Contract \subseteq Before
  PROVE  JoinSpec => []VerdictHolds
<1>1. InviteOnlyHolds /\ (LimitHolds /\ KeyHolds)
        /\ (BanHoldsOutsideInvex /\ InviteSpent) => VerdictHolds
  BY DEF VerdictHolds
<1> QED
  BY <1>1, InviteOnlyKept, LimitAndKeyKept, BansAndInvitesKept, PTL
=============================================================================
