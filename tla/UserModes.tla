----------------------------- MODULE UserModes -----------------------------
(***************************************************************************)
(* The modes of users: what UMODE and OPER do to a user's modes, to the    *)
(* lists usermode.c keeps for each mode and to the operator's privileges,  *)
(* and how the other servers follow.                                       *)
(*                                                                         *)
(* Three modes stand for all: "o" (operators; listed while on, on every    *)
(* server; takes an argument if there is one), "c" (listed while on, on    *)
(* the user's own server; for operators only) and "i" (also s, w and g;    *)
(* listed while off, on the user's own server).  "p" is refused to         *)
(* everybody and stays off.  Nicknames are NickSync's; a server knows a    *)
(* user here or does not.  Modules are loaded before there are users.      *)
(***************************************************************************)
EXTENDS ServerLinks, FiniteSets, SequencesExt

CONSTANTS
  Client,
  HomeOf,       \* client -> its server
  MaxUModes     \* bound: changes in a UMODE

UserModeAssumption ==
  IsFiniteSet(Client) /\ HomeOf \in [Client -> Server] /\ MaxUModes \in Nat \ {0}
ASSUME UserModeAssumption

VARIABLES
  umode,   \* server -> client -> the modes it has there, or Unknown
  listed,  \* server -> mode -> client -> how often it is in the list
  oper     \* client -> what its server knows of it as an operator

userVars == <<umode, listed, oper, links>>

UMode   == {"o", "c", "i"}
Unknown == {"unknown"}
Local(s, u) == HomeOf[u] = s

\* lclient->type, user->oper, client->oper and the online list of the block.
Oper   == [type : {"user", "oper"}, block : BOOLEAN, once : BOOLEAN, online : BOOLEAN]
NoOper == [type |-> "user", block |-> FALSE, once |-> FALSE, online |-> FALSE]

UChange == {c \in [what : {"+", "-"}, mode : UMode, arg : BOOLEAN] : c.arg => c.mode = "o"}

NUserMsg(u, M) == [cmd |-> "NUSER", of |-> u, modes |-> M]
UModeMsg(u, C) == [cmd |-> "UMODE", of |-> u, changes |-> C]
QuitMsg(u)     == [cmd |-> "QUIT", of |-> u]

UserTypeOK ==
  /\ umode \in [Server -> [Client -> (SUBSET UMode) \cup {Unknown}]]
  /\ listed \in [Server -> [UMode -> [Client -> Nat]]]
  /\ oper \in [Client -> Oper]

-----------------------------------------------------------------------------
(* One UMODE.  st is what s has of the user, and the changes made so far.  *)

\* usermode_change_add: of two changes alike, and there are no more, the last
\* stays.
Alike(C, c) == {i \in 1 .. Len(C) : C[i].mode = c.mode /\ C[i].arg = c.arg}
Added(C, c) ==
  Append(IF Alike(C, c) = {} THEN C ELSE RemoveAt(C, CHOOSE i \in Alike(C, c) : TRUE), c)

\* usermode_parse: what changes nothing is dropped, unless it has an argument.
Noted(C, c, M) ==
  IF ~c.arg /\ (c.what = "+") = (c.mode \in M) THEN C ELSE Added(C, c)

Parsed(M, L) ==
  LET Parse[i \in 0 .. Len(L)] == IF i = 0 THEN <<>> ELSE Noted(Parse[i - 1], L[i], M)
  IN  Parse[Len(L)]

\* Not the code: where the user is connected is not looked at.
KeepsAny(s, u, m) == TRUE

\* usermode_link_test, usermode_link, usermode_unlink.
Keeps(s, u, m) == m = "o" \/ Local(s, u)
ListMode(m)    == IF m = "i" THEN "-" ELSE "+"
Relinked(n, c) ==
  IF ListMode(c.mode) = c.what THEN n + 1 ELSE IF n = 0 THEN 0 ELSE n - 1

\* Not the code: the block is let go, the client keeps its type.
DownInPart(o) == [o EXCEPT !.block = FALSE, !.online = FALSE]

\* m_oper, oper_up
Up == [type |-> "oper", block |-> TRUE, once |-> TRUE, online |-> TRUE]

\* oper_down
Down(o) == [o EXCEPT !.type = "user", !.block = FALSE, !.online = FALSE]

\* um_oper_bounce and um_client_bounce.
Bounced(st, c, local, typed) ==
  /\ local /\ c.what = "+"
  /\ \/ c.mode = "o" /\ typed
     \/ c.mode = "c" /\ ~st.oper.block

ApplyOne(st, c, s, u, typed) ==
  IF Bounced(st, c, Local(s, u), typed) THEN st
  ELSE [modes |-> IF c.arg THEN st.modes
                  ELSE IF c.what = "+" THEN st.modes \cup {c.mode} ELSE st.modes \ {c.mode},
        in    |-> IF Keeps(s, u, c.mode) THEN [st.in EXCEPT ![c.mode] = Relinked(@, c)]
                  ELSE st.in,
        oper  |-> IF Local(s, u) /\ c.mode = "o" /\ c.what = "-" /\ st.oper.block
                  THEN Down(st.oper) ELSE st.oper,
        done  |-> Append(st.done, c)]

\* usermode_apply; typed: USERMODE_OPTION_PERMISSION.
Apply(s, u, o, C, typed) ==
  LET start == [modes |-> umode[s][u], in |-> [m \in UMode |-> listed[s][m][u]],
                oper |-> o, done |-> <<>>]
      After[i \in 0 .. Len(C)] ==
        IF i = 0 THEN start ELSE ApplyOne(After[i - 1], C[i], s, u, typed)
  IN  After[Len(C)]

\* usermode_make
Make(s, u, L, typed) == Apply(s, u, oper[u], Parsed(umode[s][u], L), typed)

Put(s, u, r) ==
  /\ umode'  = [umode EXCEPT ![s][u] = r.modes]
  /\ listed' = [listed EXCEPT ![s] = [m \in UMode |-> [listed[s][m] EXCEPT ![u] = r.in[m]]]]
  /\ oper'   = IF Local(s, u) THEN [oper EXCEPT ![u] = r.oper] ELSE oper

Told(u, C) == IF C = <<>> THEN <<>> ELSE <<UModeMsg(u, C)>>

-----------------------------------------------------------------------------
(* What clients do.                                                        *)

\* lclient_register: user_new, usermode_make of no modes, usermode_linkall_user,
\* client_introduce.
LogIn(u) ==
  LET s == HomeOf[u]
  IN  /\ Room(s, s) /\ umode[s][u] = Unknown
      /\ Put(s, u, [modes |-> {}, oper |-> NoOper,
                    in |-> [m \in UMode |-> listed[s][m][u]
                                            + IF ListMode(m) = "-" THEN 1 ELSE 0]])
      /\ SendAll(s, s, <<NUserMsg(u, {})>>)
      /\ UNCHANGED <<end, sessions>>

\* m_umode
UModeLine(u, L) ==
  LET s == HomeOf[u]
      r == Make(s, u, L, TRUE)
  IN  /\ Room(s, s) /\ umode[s][u] # Unknown
      /\ Put(s, u, r)
      /\ SendAll(s, s, Told(u, r.done))
      /\ UNCHANGED <<end, sessions>>

\* m_oper with the right password, oper_up, um_oper_up_hook.  It works once.
Opers(u) ==
  LET s == HomeOf[u]
      r == Apply(s, u, Up, <<[what |-> "+", mode |-> "o", arg |-> FALSE]>>, FALSE)
  IN  /\ Room(s, s) /\ umode[s][u] # Unknown
      /\ oper[u].type = "user" /\ ~oper[u].once
      /\ Put(s, u, r)
      /\ SendAll(s, s, Told(u, r.done))
      /\ UNCHANGED <<end, sessions>>

\* user_release takes the user out of each list once; client_release ends
\* what it was as an operator.
Forgotten(s, U) ==
  /\ umode'  = [umode EXCEPT ![s] = [u \in Client |-> IF u \in U THEN Unknown ELSE @[u]]]
  /\ listed' = [listed EXCEPT ![s] =
       [m \in UMode |-> [u \in Client |->
          IF u \in U /\ @[m][u] > 0 THEN @[m][u] - 1 ELSE @[m][u]]]]
  /\ oper' = [u \in Client |-> IF u \in U /\ Local(s, u) THEN NoOper ELSE oper[u]]

Quits(u) ==
  LET s == HomeOf[u]
  IN  /\ Room(s, s) /\ umode[s][u] # Unknown
      /\ Forgotten(s, {u})
      /\ SendAll(s, s, <<QuitMsg(u)>>)
      /\ UNCHANGED <<end, sessions>>

-----------------------------------------------------------------------------
(* What servers do.                                                        *)

\* Not the code: users from elsewhere start without modes.
NoModesIn(s, m) == {}

\* ms_nuser: usermode_make without links; usermode_linkall_user finds no list
\* that users from elsewhere belong to while a mode is off.
ModesIn(s, m) == m.modes

\* What users of the servers in Gone were known.
KnownOf(s, Gone) == {u \in Client : umode[s][u] # Unknown /\ HomeOf[u] \in Gone}

Hears(s, t) ==
  /\ CanRead(s, t)
  /\ LET m == Head(net[<<t, s>>])
     IN  \/ /\ m.cmd = "NUSER"
            /\ umode' = [umode EXCEPT ![s][m.of] = ModesIn(s, m)]
            /\ ReadAndSend(s, t, <<NUserMsg(m.of, ModesIn(s, m))>>, <<>>)
            /\ UNCHANGED <<listed, oper>>
         \/ /\ m.cmd = "UMODE" /\ umode[s][m.of] # Unknown
            /\ LET r == Make(s, m.of, m.changes, FALSE)
               IN  Put(s, m.of, r) /\ ReadAndSend(s, t, Told(m.of, r.done), <<>>)
         \/ /\ m.cmd = "QUIT" /\ umode[s][m.of] # Unknown
            /\ Forgotten(s, {m.of})
            /\ ReadAndSend(s, t, <<m>>, <<>>)
         \/ /\ m.cmd \in {"UMODE", "QUIT"} /\ umode[s][m.of] = Unknown
            /\ ReadAndSend(s, t, <<>>, <<>>)
            /\ UNCHANGED <<umode, listed, oper>>
         \/ /\ m.cmd = "NQUIT"
            /\ Forgotten(s, KnownOf(s, Behind[m.link]))
            /\ ReadAndSend(s, t, <<m>>, <<>>)
  /\ UNCHANGED <<end, sessions>>

\* client_burst
UserBurst(s) ==
  SetToSeq({NUserMsg(u, umode[s][u]) : u \in {v \in Client : umode[s][v] # Unknown}})

Connects(s, t)  == OpenLink(s, t) /\ UNCHANGED <<umode, listed, oper>>
Bursts(s, t)    == RegisterLink(s, t, UserBurst(s)) /\ UNCHANGED <<umode, listed, oper>>
Splits(s, t)    == CloseLink(s, t) /\ Forgotten(s, KnownOf(s, Behind[<<s, t>>]))

-----------------------------------------------------------------------------
UserInit ==
  /\ umode  = [s \in Server |-> [u \in Client |-> Unknown]]
  /\ listed = [s \in Server |-> [m \in UMode |-> [u \in Client |-> 0]]]
  /\ oper   = [u \in Client |-> NoOper]

UModeLines == UNION {[1 .. n -> UChange] : n \in 1 .. MaxUModes}

UserNext ==
  \/ \E u \in Client : \/ LogIn(u) \/ Opers(u) \/ Quits(u)
                       \/ \E L \in UModeLines : UModeLine(u, L)
  \/ \E l \in Link : \/ Hears(l[1], l[2]) \/ Connects(l[1], l[2])
                     \/ Bursts(l[1], l[2]) \/ Splits(l[1], l[2])

UserSpec == UserInit /\ LinkInit /\ [][UserNext]_userVars

-----------------------------------------------------------------------------
(* Properties.                                                             *)

\* When nothing is under way, both ends of a link have the same users with
\* the same modes: usermode_parse drops what changes nothing, so a relay that
\* had other modes would keep a change to itself.
ModesAgree ==
  \A l \in Link : Settled(l) => umode[l[1]] = umode[l[2]]

\* A client has the type of an operator, a block, and a place in the list
\* notices go to together or not at all; an operator is +o, and whoever gave
\* that up (UMODE -o, with an argument or without) is none.
OperatorsAgree ==
  \A u \in Client :
    /\ (oper[u].type = "oper") = oper[u].block
    /\ oper[u].block = oper[u].online
    /\ oper[u].block => oper[u].once /\ "o" \in umode[HomeOf[u]][u]

\* The lists have who they should, once: by "c" and "i" the users of the
\* server alone, by "o" only users who are +o.  (Not all: -o with an argument
\* takes a user out, and NUSER puts none in.)
UsersListed ==
  \A s \in Server, u \in Client :
    LET M == umode[s][u]
        here == Local(s, u) /\ M # Unknown
    IN  /\ listed[s]["c"][u] = IF here /\ "c" \in M THEN 1 ELSE 0
        /\ listed[s]["i"][u] = IF here /\ "i" \notin M THEN 1 ELSE 0
        /\ listed[s]["o"][u] <= IF "o" \in M THEN 1 ELSE 0
=============================================================================
