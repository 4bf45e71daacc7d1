------------------------------ MODULE JoinHooks ------------------------------
(***************************************************************************)
(* The hooks of the channel mode modules on a JOIN to an existing channel. *)
(*                                                                         *)
(* channel_join (src/channel.c) calls every hook registered on it at       *)
(* HOOK_1ST with the address of one integer, reply.  A positive reply is a *)
(* numeric that refuses the join, 0 is "no opinion" ("none" here), and a   *)
(* negative one records which exception matched.  Each hook is a function  *)
(* of the state it reads, <<reply, does cptr hold an invite>>, and of what *)
(* is true of this client and this channel:                                *)
(*   "i" the channel is +i          "l" +l and the channel is full         *)
(*   "k" +k and the given key is missing or wrong                          *)
(*   "b", "d", "e", "I" a mask of that list matches the client.            *)
(***************************************************************************)

Fact    == {"i", "k", "l", "b", "d", "e", "I"}
Numeric == {"ERR_INVITEONLYCHAN", "ERR_BANNEDFROMCHAN", "ERR_DENIEDFROMCHAN",
            "ERR_CHANNELISFULL", "ERR_BADCHANNELKEY"}
Reply   == Numeric \cup {"none", "-i", "-e", "-I"}

-----------------------------------------------------------------------------
St(r, i)  == [reply |-> r, invited |-> i]
Denied(s) == s.reply \in Numeric

\* Not the code: an invite that stays, an exception that lifts any refusal.
InviteKept(s, f) ==
  IF \/ Denied(s) /\ s.reply \notin {"ERR_CHANNELISFULL", "ERR_BADCHANNELKEY"}
     \/ s.reply = "-I"
  THEN s
  ELSE IF s.invited THEN St("-i", TRUE)
  ELSE IF "i" \in f THEN St("ERR_INVITEONLYCHAN", FALSE)
  ELSE s

ExceptLiftsAll(s, f) == IF "e" \in f THEN St("-e", s.invited) ELSE s

-----------------------------------------------------------------------------
\* An outstanding invite is used up here, whatever the later hooks decide.
CmInvite(s, f) ==
  IF \/ Denied(s) /\ s.reply \notin {"ERR_CHANNELISFULL", "ERR_BADCHANNELKEY"}
     \/ s.reply = "-I"
  THEN s
  ELSE IF s.invited THEN St("-i", FALSE)
  ELSE IF "i" \in f THEN St("ERR_INVITEONLYCHAN", FALSE)
  ELSE s

CmBan(s, f) ==
  IF "b" \in f /\ ~Denied(s) /\ s.reply # "-e"
  THEN St("ERR_BANNEDFROMCHAN", s.invited) ELSE s

CmDeny(s, f) ==
  IF "d" \in f /\ ~Denied(s) /\ s.reply # "-e"
  THEN St("ERR_DENIEDFROMCHAN", s.invited) ELSE s

CmExcept(s, f) ==
  IF /\ "e" \in f
     /\ Denied(s) => s.reply \in {"ERR_BANNEDFROMCHAN", "ERR_DENIEDFROMCHAN"}
  THEN St("-e", s.invited) ELSE s

CmInvex(s, f) ==
  IF /\ "I" \in f
     /\ Denied(s) => s.reply \in {"ERR_INVITEONLYCHAN", "ERR_CHANNELISFULL",
                                  "ERR_BADCHANNELKEY"}
     /\ s.reply # "-i"
  THEN St("-I", FALSE) ELSE s

CmLimit(s, f) ==
  IF "l" \in f /\ ~Denied(s) /\ s.reply \notin {"-I", "-i"}
  THEN St("ERR_CHANNELISFULL", s.invited) ELSE s

CmKey(s, f) ==
  IF "k" \in f /\ ~Denied(s) /\ s.reply \notin {"-I", "-i"}
  THEN St("ERR_BADCHANNELKEY", s.invited) ELSE s

(* The whole chain in the order conf/modules.conf.in loads the modules.    *)
ShippedChain(i, f) ==
  LET s1 == CmDeny(CmBan(CmInvite(St("none", i), f), f), f)
      s2 == CmInvex(CmExcept(s1, f), f)
  IN  CmKey(CmLimit(s2, f), f)

=============================================================================
