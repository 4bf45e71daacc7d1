---------------------------- MODULE NetworkBans ----------------------------
(***************************************************************************)
(* G-lines: bans that operators set for the whole network (m_gline.c).     *)
(*                                                                         *)
(* Each server keeps a list of masks, looked through when a client logs in *)
(* and laid over its clients when a mask is added; it tells the other      *)
(* servers of every mask added or removed, and a new link of all of them.  *)
(* A mask that one of the list covers is not added.  The list survives the *)
(* server in a file: kept as sections in memory (ini.c), written out every *)
(* five minutes and when the module is unloaded, read when the server      *)
(* starts.                                                                 *)
(*                                                                         *)
(* K-lines (m_kline.c) are the same code without the other servers.  Not   *)
(* modelled: who set a mask, when and why (the reason gets lost at the     *)
(* second server), the socket filter, a server without the file, and the   *)
(* operators that type the commands.                                       *)
(***************************************************************************)
EXTENDS ServerLinks, SequencesExt

CONSTANTS
  Ban,        \* masks, user@host
  Covers,     \* <<b, c>>: who looks for b finds c (m_gline_find)
  Client,
  HomeOf,   \* client -> its server
  Hits,       \* <<c, b>>: client c matches mask b
  MaxGLines,  \* how many GLINE and UNGLINE operators type
  MaxStops    \* how many times servers stop

BanAssumption ==
  /\ Covers \subseteq Ban \X Ban /\ \A b \in Ban : <<b, b>> \in Covers
  /\ HomeOf \in [Client -> Server]
  /\ Hits \subseteq Client \X Ban
  /\ MaxGLines \in Nat /\ MaxStops \in Nat
ASSUME BanAssumption

VARIABLES
  glines,   \* server -> m_gline_list
  sections, \* server -> the sections of gline.ini in memory
  changed,  \* server -> ini->changed: what is in memory is to be written
  file,     \* server -> the sections in the file
  client,   \* client -> "none", "user", "oper", or "former" operator
  typed,    \* how many GLINE and UNGLINE were typed
  stops,    \* how many times a server stopped
  uneven    \* not in the code: whether an UNGLINE was typed while servers had
            \* different masks, or was under way while a server sent its burst

bans     == <<glines, sections, changed, file, client, typed, stops, uneven>>
banVars  == <<bans, links>>

GLineMsg(b)   == [cmd |-> "GLINE", ban |-> b]
UnGLineMsg(b) == [cmd |-> "UNGLINE", ban |-> b]
BanMessage    == [cmd : {"GLINE", "UNGLINE"}, ban : Ban]

Found(L, b)     == \E i \in DOMAIN L : <<b, L[i]>> \in Covers
Locals(s)       == {c \in Client : HomeOf[c] = s}
HitBy(c, L)     == \E i \in DOMAIN L : <<c, L[i]>> \in Hits

-----------------------------------------------------------------------------
(* The list.                                                               *)

\* m_gline_find: the first mask that covers b.
Find(L, b) == L[SelectInSeq(L, LAMBDA c : <<b, c>> \in Covers)]

\* m_gline_match: the users of s that match b go, operators stay.
Enforce(s, b) ==
  client' = [c \in Client |->
               IF c \in Locals(s) /\ client[c] \in {"user", "former"} /\ <<c, b>> \in Hits
               THEN "none" ELSE client[c]]

\* m_gline_add, m_gline_new: a mask that was not found.
Add(s, b) ==
  /\ glines' = [glines EXCEPT ![s] = Append(@, b)]
  /\ sections' = [sections EXCEPT ![s] = IF Contains(@, b) THEN @ ELSE Append(@, b)]
  /\ changed' = [changed EXCEPT ![s] = TRUE]
  /\ Enforce(s, b)

\* Not the code: the section is left in memory.
DeleteFromList(s, b) ==
  /\ glines' = [glines EXCEPT ![s] = RemoveFirst(@, b)]
  /\ changed' = [changed EXCEPT ![s] = TRUE]
  /\ UNCHANGED <<sections, client>>

\* m_gline_delete: the entry m_gline_find returned, the first with its mask,
\* and the first section of that name.
Delete(s, b) ==
  /\ glines' = [glines EXCEPT ![s] = RemoveFirst(@, b)]
  /\ sections' = [sections EXCEPT ![s] = RemoveFirst(@, b)]
  /\ changed' = [changed EXCEPT ![s] = @ \/ Contains(sections[s], b)]
  /\ UNCHANGED client

Store == <<glines, sections, changed>>

-----------------------------------------------------------------------------
(* Commands of operators.                                                  *)

Types(s) == MayAct(s) /\ typed < MaxGLines /\ typed' = typed + 1

\* mo_gline
GLine(s, b) ==
  /\ Types(s) /\ ~Found(glines[s], b)
  /\ Add(s, b)
  /\ SendAll(s, s, <<GLineMsg(b)>>)
  /\ UNCHANGED <<file, stops, uneven, end, sessions>>

SameMasks(s, t) == ToSet(glines[s]) = ToSet(glines[t])
Even ==
  Quiet /\ \A l \in Link : end[l] = "up" /\ end[Rev(l)] = "up" => SameMasks(l[1], l[2])

\* mo_ungline: the mask that is removed may be one that covers b.
UnGLine(s, b) ==
  /\ Types(s) /\ Found(glines[s], b)
  /\ LET c == Find(glines[s], b)
     IN  Delete(s, c) /\ SendAll(s, s, <<UnGLineMsg(c)>>)
  /\ uneven' = (uneven \/ ~Even)
  /\ UNCHANGED <<file, stops, end, sessions>>

-----------------------------------------------------------------------------
(* Messages of linked servers.                                             *)

\* ms_gline: what is enforced and relayed is the mask of the list.
OnGLine(s, t, b) ==
  IF Found(glines[s], b)
  THEN LET c == Find(glines[s], b)
       IN  Enforce(s, c) /\ UNCHANGED Store /\ ReadAndSend(s, t, <<GLineMsg(c)>>, <<>>)
  ELSE Add(s, b) /\ ReadAndSend(s, t, <<GLineMsg(b)>>, <<>>)

\* ms_ungline
OnUnGLine(s, t, b) ==
  IF Found(glines[s], b)
  THEN LET c == Find(glines[s], b)
       IN  Delete(s, c) /\ ReadAndSend(s, t, <<UnGLineMsg(c)>>, <<>>)
  ELSE UNCHANGED <<Store, client>> /\ ReadAndSend(s, t, <<>>, <<>>)

Hear(s, t) ==
  /\ CanRead(s, t)
  /\ LET m == Head(net[<<t, s>>])
     IN  \/ m.cmd = "GLINE"   /\ OnGLine(s, t, m.ban)
         \/ m.cmd = "UNGLINE" /\ OnUnGLine(s, t, m.ban)
         \/ m.cmd = "NQUIT"   /\ UNCHANGED <<Store, client>> /\ ReadAndSend(s, t, <<m>>, <<>>)
  /\ UNCHANGED <<file, typed, stops, uneven, end, sessions>>

\* Not the code: the first mask is left out.
GLineBurstRest(s) == [i \in 1 .. Len(glines[s]) - 1 |-> GLineMsg(glines[s][i + 1])]

\* m_gline_burst
GLineBurst(s) == [i \in DOMAIN glines[s] |-> GLineMsg(glines[s][i])]

Connect(s, t)    == OpenLink(s, t) /\ UNCHANGED bans
Introduce(s, t)  ==
  /\ RegisterLink(s, t, GLineBurst(s))
  /\ uneven' = (uneven \/ \E l \in Link : \E b \in Ban : Contains(net[l], UnGLineMsg(b)))
  /\ UNCHANGED <<Store, file, client, typed, stops>>
Disconnect(s, t) == CloseLink(s, t) /\ UNCHANGED bans

-----------------------------------------------------------------------------
(* Clients.                                                                *)

Becomes(c, type) ==
  /\ client' = [client EXCEPT ![c] = type]
  /\ UNCHANGED <<Store, file, typed, stops, uneven, links>>

\* m_gline_hook, from lclient_register.
LogIn(c) ==
  client[c] = "none" /\ ~HitBy(c, glines[HomeOf[c]]) /\ Becomes(c, "user")

Quit(c) == client[c] # "none" /\ Becomes(c, "none")

\* m_oper; oper_down, after which cptr->oper keeps the client from another OPER.
Oper(c)   == client[c] = "user" /\ Becomes(c, "oper")
Deoper(c) == client[c] = "oper" /\ Becomes(c, "former")

-----------------------------------------------------------------------------
(* The file.                                                               *)

\* ini_open empties the file, and ini_save writes nothing if nothing changed.
Written(s) == IF changed[s] THEN sections[s] ELSE <<>>

\* m_gline_cleanup, m_gline_savedb: every five minutes.
Save(s) ==
  /\ file' = [file EXCEPT ![s] = Written(s)]
  /\ changed' = [changed EXCEPT ![s] = FALSE]
  /\ UNCHANGED <<glines, sections, client, typed, stops, uneven, links>>

\* m_gline_loaddb, one section after the other: what a mask read before
\* covers is in the file only.
Loaded(F) ==
  LET load[n \in 0 .. Len(F)] ==
        IF n = 0 THEN <<>>
        ELSE IF Found(load[n - 1], F[n]) THEN load[n - 1]
        ELSE Append(load[n - 1], F[n])
  IN  load[Len(F)]

\* A server that starts has read its configuration and its files before it
\* has clients or links, and counts what it read as changed.
Restart(s, F) ==
  /\ stops < MaxStops /\ stops' = stops + 1
  /\ glines' = [glines EXCEPT ![s] = Loaded(F)]
  /\ sections' = [sections EXCEPT ![s] = F]
  /\ changed' = [changed EXCEPT ![s] = TRUE]
  /\ file' = [file EXCEPT ![s] = F]
  /\ client' = [c \in Client |-> IF c \in Locals(s) THEN "none" ELSE client[c]]
  /\ CutLinks(s)
  /\ UNCHANGED <<typed, uneven>>

\* The process dies; ircd_shutdown, m_gline_unload.
Crash(s)    == Restart(s, file[s])
Shutdown(s) == Restart(s, Written(s))

-----------------------------------------------------------------------------
BanInit ==
  /\ glines = [s \in Server |-> <<>>] /\ sections = glines /\ file = glines
  /\ changed = [s \in Server |-> TRUE]
  /\ client = [c \in Client |-> "none"]
  /\ typed = 0 /\ stops = 0 /\ uneven = FALSE

BanNext ==
  \/ \E s \in Server : \/ \E b \in Ban : GLine(s, b) \/ UnGLine(s, b)
                       \/ Save(s) \/ Crash(s) \/ Shutdown(s)
  \/ \E l \in Link : \/ Hear(l[1], l[2]) \/ Connect(l[1], l[2])
                     \/ Introduce(l[1], l[2]) \/ Disconnect(l[1], l[2])
  \/ \E c \in Client : LogIn(c) \/ Quit(c) \/ Oper(c) \/ Deoper(c)

BanSpec == BanInit /\ LinkInit /\ [][BanNext]_banVars

-----------------------------------------------------------------------------
(* The list has no mask that an earlier one covers, and is in memory a     *)
(* second time, in the same order, as what will be saved: whatever was     *)
(* typed here and elsewhere, burst, removed and read from the file         *)
(* (m_gline_add, m_gline_delete, m_gline_loaddb).                          *)
Uncovered(L) == \A i, j \in DOMAIN L : i < j => <<L[j], L[i]>> \notin Covers
ListIsSaved  == \A s \in Server : Uncovered(glines[s]) /\ sections[s] = glines[s]

(* Nobody who matches a mask of its server is logged in there, but those   *)
(* who are operators or were (m_gline_hook, m_gline_match).                *)
NobodyGLined ==
  \A c \in Client : client[c] = "user" => ~HitBy(c, glines[HomeOf[c]])

(* What is in memory and not in the file is noted as changed, unless the   *)
(* file is empty, which it is when saved again with nothing changed        *)
(* (ini_section_new, ini_section_remove, ini_save).                        *)
FileFollows ==
  \A s \in Server : changed[s] \/ file[s] \in {sections[s], <<>>}

GLinesHold == ListIsSaved /\ NobodyGLined /\ FileFollows

(* When all is read, servers that are linked keep the same masks out, if   *)
(* none was removed while they did not or while a link came up: also when  *)
(* they grew apart while they were not linked, when one was restarted with *)
(* an old list, and though each refuses what it has covered                *)
(* (m_gline_burst, ms_gline, ms_ungline).                                  *)
GLinesAgree ==
  ~uneven => \A l \in Link : Settled(l) =>
               \A b \in Ban : Found(glines[l[1]], b) = Found(glines[l[2]], b)
=============================================================================
