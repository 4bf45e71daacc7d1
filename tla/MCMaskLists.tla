---------------------------- MODULE MCMaskLists ----------------------------
(* Masks whose matching is what str_match says of their nicknames; and, on *)
(* the same links while the lists of the channel rest, bans of the network.*)
EXTENDS MaskLists, NetworkBans, Networks, StrMatch

Text(m) == CASE m = "ann" -> <<"a", "n", "n">> [] m = "amy" -> <<"a", "m", "y">>
             [] m = "a?"  -> <<"a", "?">>      [] m = "a*"  -> <<"a", "*">>
Matching == {p \in Mask \X Mask : p[1] = p[2] \/ p[2] = "a*" \/ p = <<"a*", "a?">>}
ASSUME MatchingIsStrMatch ==
  Matching = {p \in Mask \X Mask : StrMatch(Text(p[1]), Text(p[2]))}

\* str_match against its meaning, and it ends and reads nothing behind a NUL.
Texts(A, n) == UNION {[1 .. i -> A] : i \in 0 .. n}
ASSUME MatchIsGlob ==
  \A str \in Texts({"a", "b"}, 3), mask \in Texts({"a", "b", "*", "?"}, 3) \ {<<>>} :
    /\ MatchEnd(str, mask).result # "none"
    /\ StrMatch(str, mask) <=> Glob(str, mask)

\* What MaskLists says of plain masks is so of every small text.
PlainText(t) ==
  \A i \in DOMAIN t : t[i] # "?" /\ (i > 1 => <<t[i - 1], t[i]>> # <<"*", "*">>)
ASSUME PlainMasks == Plain = {m \in Mask : PlainText(Text(m))}
ASSUME PlainIsOrdered ==
  LET T     == Texts({"a", "*", "?"}, 3) \ {<<>>}
      plain == {t \in T : PlainText(t)}
      above == {p \in T \X T : StrMatch(p[1], p[2])}
  IN  /\ \A t \in T : <<t, t>> \in above
      /\ \A p \in above : \A n \in plain : <<p[2], n>> \in above => <<p[1], n>> \in above
      /\ \A p \in above \cap (plain \X plain) : <<p[2], p[1]>> \in above => p[1] = p[2]

\* One mask covers the other; clients match both.
Covering == {p \in Ban \X Ban : p[1] = p[2] \/ p[2] = "*"}
Hitting  == Client \X Ban

ListsRest ==
  /\ \A s \in Server : list[s] = <<>> /\ view[s] = {}
  /\ lost = {}
  /\ \A l \in Link : \A i \in DOMAIN net[l] : net[l][i] \in BanMessage

Either ==
  \/ Next /\ BanInit /\ UNCHANGED bans
  \/ BanNext /\ ListsRest /\ UNCHANGED <<list, view, lost>>

EitherInit == Init /\ BanInit

EitherSpec == EitherInit /\ [][Either]_<<vars, bans>>
=============================================================================
