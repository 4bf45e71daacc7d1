----------------------------- MODULE MaskLists -----------------------------
(***************************************************************************)
(* The mask lists of a channel (+b, +e, +I, +O ...): how MODE changes one, *)
(* what its members and the other servers are told, and what becomes of it *)
(* when servers join their lists.                                          *)
(*                                                                         *)
(* A mask that a mask of the list matches is not added; one that matches   *)
(* masks of the list takes their place, and their removal is told before   *)
(* it.  A line of a client may thus become a longer one.                   *)
(*                                                                         *)
(* One list; the channel has the same timestamp everywhere (else ChanSync) *)
(* and its operators, one of each server in User, are on it everywhere.    *)
(***************************************************************************)
EXTENDS ServerLinks, FiniteSets, FiniteSetsExt, SequencesExt

CONSTANTS
  User,
  Home,          \* user -> its server
  Mask,          \* in the form nick!user@host
  Matches,       \* {<<m, n>> : n, as a mask, matches m}
  Plain,         \* masks without "?" and without two stars in a row
  MaxBans,       \* IRCD_MAXBANS
  ModesPerLine,  \* IRCD_MODESPERLINE: changes taken from one MODE
  PerLine,       \* CHANMODE_PER_LINE: changes put into one message to a server
  MaxLine        \* bound: changes in a line of a client

MaskAssumption ==
  /\ Home \in [User -> Server]
  /\ Matches \subseteq Mask \X Mask
  /\ {MaxBans, ModesPerLine, PerLine, MaxLine} \subseteq Nat \ {0}
  /\ MaxLine <= ModesPerLine
ASSUME MaskAssumption

\* What str_match says of masks.  It takes a "*" of the left one as a
\* character, so "?" matches it, as if the star stood for one character only:
\* behind such a mask matching is not transitive, and masks that match each
\* other may differ.
MaskOrder ==
  /\ Plain \subseteq Mask
  /\ \A m \in Mask : <<m, m>> \in Matches
  /\ \A k, m \in Mask, n \in Plain : {<<k, m>>, <<m, n>>} \subseteq Matches => <<k, n>> \in Matches
ASSUME MaskOrder

VARIABLES
  list,  \* server -> its list, masks with who set them
  view,  \* server -> the masks a member there would name from what it saw
  lost   \* why lists may differ: "cut" (a line was), "full" (a list was),
         \* "crossed" (a line was typed while something was under way),
         \* "vague" (a mask was typed that is not plain)

vars == <<list, view, lost, links>>

Item       == [mask : Mask, by : User]
Masks(L)   == {L[i].mask : i \in DOMAIN L}
Matched(m, n) == <<m, n>> \in Matches

Plus(m, u)  == [what |-> "+", mask |-> m, by |-> u]
Minus(m, u) == [what |-> "-", mask |-> m, by |-> u]
Change      == [what : {"+", "-"}, mask : Mask, by : User]

ModeMsg(u, C) == [cmd |-> "MODE", by |-> u, changes |-> C]
NModeMsg(C)   == [cmd |-> "NMODE", changes |-> C]

-----------------------------------------------------------------------------
(* One change.  st is the list, the changes told so far and what was lost.  *)

\* chanmode_mask_add: after the others that the same user set.
InsertItem(L, item) ==
  LET ends == {i \in DOMAIN L : L[i].by = item.by /\ (i < Len(L) => L[i + 1].by # item.by)}
  IN  InsertAt(L, IF ends = {} THEN Len(L) + 1 ELSE Min(ends) + 1, item)

\* The entries of L with a mask of M, in their order.
Only(L, M) ==
  LET only[n \in 0 .. Len(L)] ==
        IF n = 0 THEN <<>>
        ELSE IF L[n].mask \in M THEN Append(only[n - 1], L[n]) ELSE only[n - 1]
  IN  only[Len(L)]

\* Masks of the list go; chanmode_change_insert tells of each before whatever
\* is told next.
Drop(st, gone, u) ==
  LET drops == Only(st.list, gone)
  IN  [st EXCEPT !.list = Only(st.list, Masks(st.list) \ gone),
                 !.told = st.told \o [i \in DOMAIN drops |-> Minus(drops[i].mask, u)]]

\* The masks m takes the place of, when none comes first that matches it.
Covered(L, m) ==
  LET over == {i \in DOMAIN L : Matched(m, L[i].mask)}
      stop == IF over = {} THEN Len(L) + 1 ELSE Min(over)
  IN  {L[i].mask : i \in {j \in 1 .. stop - 1 : Matched(L[j].mask, m)}}

Put(st, c) ==
  [st EXCEPT !.list = InsertItem(st.list, [mask |-> c.mask, by |-> c.by]),
             !.told = Append(st.told, c)]

\* Not the code: covered masks are told of after the new one; the room is
\* looked for before masks go; a mask is told of though there is no room.
Refused(st, c)      == \E n \in Masks(st.list) : Matched(c.mask, n)
AddMaskFirst(st, c) ==
  IF Refused(st, c) THEN st ELSE Drop(Put(st, c), Covered(st.list, c.mask), c.by)
AddMaskEarly(st, c) ==
  LET dropped == Drop(st, Covered(st.list, c.mask), c.by)
  IN  IF Refused(st, c) \/ Len(st.list) = MaxBans THEN dropped ELSE Put(dropped, c)
AddMaskTold(st, c)  ==
  LET dropped == Drop(st, Covered(st.list, c.mask), c.by)
  IN  IF Refused(st, c) THEN dropped
      ELSE IF Len(dropped.list) = MaxBans THEN [dropped EXCEPT !.told = Append(dropped.told, c)]
      ELSE Put(dropped, c)

\* chanmode_bounce_mask.
AddMask(st, c) ==
  LET dropped == Drop(st, Covered(st.list, c.mask), c.by)
  IN  IF \E n \in Masks(st.list) : Matched(c.mask, n) THEN dropped
      ELSE IF Len(dropped.list) = MaxBans THEN [dropped EXCEPT !.lost = st.lost \cup {"full"}]
      ELSE Put(dropped, c)

\* Whatever matches the mask or is matched by it.
DelMask(st, c) ==
  Drop(st, {n \in Masks(st.list) : Matched(c.mask, n) \/ Matched(n, c.mask)}, c.by)

\* chanmode_apply.
Apply(L, C) ==
  LET run[n \in 0 .. Len(C)] ==
        IF n = 0 THEN [list |-> L, told |-> <<>>, lost |-> {}]
        ELSE IF C[n].what = "+" THEN AddMask(run[n - 1], C[n])
        ELSE DelMask(run[n - 1], C[n])
  IN  run[Len(C)]

\* What a member makes of the changes it is told of, one by one.
Seen(V, C) ==
  LET seen[n \in 0 .. Len(C)] ==
        IF n = 0 THEN V
        ELSE IF C[n].what = "+" THEN seen[n - 1] \cup {C[n].mask}
        ELSE seen[n - 1] \ {C[n].mask}
  IN  seen[Len(C)]

\* s runs the changes C and tells its members.
Run(s, r, why) ==
  /\ list' = [list EXCEPT ![s] = r.list]
  /\ view' = [view EXCEPT ![s] = Seen(@, r.told)]
  /\ lost' = lost \cup r.lost \cup why

-----------------------------------------------------------------------------
(* Messages.                                                               *)

\* chanmode_assemble: at most PerLine changes in a message.
Lines(C) ==
  [i \in 1 .. (Len(C) + PerLine - 1) \div PerLine |->
     SubSeq(C, (i - 1) * PerLine + 1, Min({i * PerLine, Len(C)}))]
ModeLines(u, C) == [i \in DOMAIN Lines(C) |-> ModeMsg(u, Lines(C)[i])]
NModeLines(C)   == [i \in DOMAIN Lines(C) |-> NModeMsg(Lines(C)[i])]

\* chanmode_parse stops after so many changes.
Parsed(C)   == SubSeq(C, 1, Min({ModesPerLine, Len(C)}))
CutOff(C)   == IF Len(C) > ModesPerLine THEN {"cut"} ELSE {}

Vague(C) == IF \E i \in DOMAIN C : C[i].mask \notin Plain THEN {"vague"} ELSE {}

\* m_mode of a local operator.
Mode(u, C) ==
  LET s == Home[u]
      r == Apply(list[s], C)
  IN  /\ MayAct(s)
      /\ Run(s, r, Vague(C) \cup IF Quiet THEN {} ELSE {"crossed"})
      /\ SendAll(s, s, ModeLines(u, r.told))
      /\ UNCHANGED <<end, sessions>>

\* ms_mode.
OnMode(s, m) == Apply(list[s], Parsed(m.changes))

\* ms_nmode: what is relayed are the additions as they came, bounced or not.
OnNMode(s, m) == Apply(list[s], m.changes)

Receive(s, t) ==
  /\ CanRead(s, t)
  /\ LET m == Head(net[<<t, s>>])
     IN  \/ /\ m.cmd = "MODE"
            /\ LET r == OnMode(s, m)
               IN  /\ Run(s, r, CutOff(m.changes))
                   /\ ReadAndSend(s, t, ModeLines(m.by, r.told), <<>>)
         \/ /\ m.cmd = "NMODE"
            /\ Run(s, OnNMode(s, m), {})
            /\ ReadAndSend(s, t, NModeLines(m.changes), <<>>)
  /\ UNCHANGED <<end, sessions>>

\* chanmode_burst.
Burst(L) == NModeLines([i \in DOMAIN L |-> Plus(L[i].mask, L[i].by)])

\* Links come up; when one breaks no list changes, so none does here.
Open(s, t)     == OpenLink(s, t) /\ UNCHANGED <<list, view, lost>>
Register(s, t) == RegisterLink(s, t, Burst(list[s])) /\ UNCHANGED <<list, view, lost>>

-----------------------------------------------------------------------------
Init ==
  /\ list = [s \in Server |-> <<>>] /\ view = [s \in Server |-> {}]
  /\ lost = {} /\ LinkInit

\* The lines of a client.
Typed(u) ==
  UNION {[1 .. n -> {c \in Change : c.by = u}] : n \in 1 .. MaxLine}

Next ==
  \/ \E u \in User : \E C \in Typed(u) : Mode(u, C)
  \/ \E l \in Link : \/ Receive(l[1], l[2]) \/ Open(l[1], l[2])
                     \/ Register(l[1], l[2])

Spec == Init /\ [][Next]_vars

-----------------------------------------------------------------------------
TypeOK ==
  /\ list \in [Server -> Seq(Item)] /\ \A s \in Server : Len(list[s]) <= MaxBans
  /\ view \in [Server -> SUBSET Mask]
  /\ lost \subseteq {"cut", "full", "crossed", "vague"}

(* No mask of a list matches another one (chanmode_bounce_mask).           *)
NoneCovered ==
  \A s \in Server : \A i, j \in DOMAIN list[s] :
    Matched(list[s][i].mask, list[s][j].mask) => i = j

(* Who replays the MODE lines a server sends its members arrives at the    *)
(* list, though changes are inserted, bounced and refused while the line   *)
(* is run (chanmode_apply, chanmode_change_insert, chanmode_assemble).     *)
MembersTold == \A s \in Server : view[s] = Masks(list[s])

(* On every server the list keeps its form and its limit, and its members  *)
(* see it as it is, after whatever lines and bursts (chanmode_bounce_mask, *)
(* chanmode_apply).                                                        *)
ListsKept == TypeOK /\ NoneCovered /\ MembersTold

Agree == \A l \in Link : Settled(l) => Masks(list[l[1]]) = Masks(list[l[2]])

(* When all is read, linked servers have the same masks, if all masks were *)
(* plain, no line was cut, no list was full and none changed while a burst *)
(* or another line was under way: also when the lists grew apart before    *)
(* the link (chanmode_burst, ms_nmode, chanmode_introduce).                *)
ListsAgree == lost = {} => Agree

Adds(s) ==
  \/ \E u \in User : /\ Home[u] = s
                     /\ \E C \in Typed(u) : (\A i \in DOMAIN C : C[i].what = "+") /\ Mode(u, C)
  \/ \E l \in Link : /\ l[2] = s /\ net[l] # <<>> /\ Head(net[l]).cmd = "NMODE"
                     /\ Receive(s, l[1])

\* n stands in for m: it matches m or, being a mask with a "?", every plain
\* mask that matches n matches m too.
StandsFor(n, m) ==
  \/ Matched(m, n)
  \/ n \notin Plain /\ \A z \in Plain : Matched(n, z) => Matched(m, z)

(* Adding, or joining two lists, drops no mask but for another one that    *)
(* stands in for it; if that one is plain, the ban is not lifted.  A mask  *)
(* with a "?" can lift one: of the list "abc", "a?" the line +b a* leaves  *)
(* "a?", for a* drops abc and then bounces (chanmode_bounce_mask).         *)
DropsReplaced ==
  [][ \A s \in Server : list[s] # list'[s] /\ Adds(s) =>
        \A m \in Masks(list[s]) : \E n \in Masks(list'[s]) : StandsFor(n, m) ]_vars
=============================================================================
