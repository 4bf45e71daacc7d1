--------------------------- MODULE ClientsProofs ---------------------------
(***************************************************************************)
(* Who may be connected: the safety of LocalClients for any finite number  *)
(* of connections, any addresses and nicknames and any limits of the       *)
(* class, and GLinesHold of NetworkBans, the lists of masks that keep      *)
(* clients out, for any masks on any tree of servers.                      *)
(*                                                                         *)
(* The invariants of the login run are inductive together: refs can only   *)
(* be a natural number because it counts the connections, and it counts    *)
(* them because a connection is closed in one step with its class given    *)
(* back.  All that happens to a connection after it was accepted is Put,   *)
(* so one lemma says when a Put is safe and the actions only have to show  *)
(* that theirs is.                                                         *)
(*                                                                         *)
(* What makes the list uncovered after a restart is that the file was      *)
(* when it was written: then m_gline_loaddb adds every section and leaves  *)
(* the list as the file has it (LoadedIsFile).  That is what IInv adds to  *)
(* GLinesHold, with the types of the lists and of the messages.            *)
(***************************************************************************)
EXTENDS LocalClients, NetworkBans, FiniteSetTheorems, SequenceTheorems,
        WellFoundedInduction, TLAPS

-----------------------------------------------------------------------------
(* Connections and their class.                                            *)

Inv == TypeOK /\ UniqueNicks /\ ClassCounts /\ ClassLimit /\ AddressLimit

\* What an operation may make of the open connection c.
SafeFor(c, r) ==
  /\ r \in Lclient
  /\ r = Closed \/ r.type # "none"
  /\ r.type = "user" =>
       /\ r.name \in Valid \cup {Nobody} /\ r.user = "valid"
       /\ \A d \in Users : d # c /\ r.name # Nobody => conn[d].name # r.name

-----------------------------------------------------------------------------
(* The empty connection has the type of one, and is not open.              *)
LEMMA ClosedType ==
  Closed \in Lclient /\ Closed.type = "none" /\ Accepted \in Lclient
  /\ Accepted.type = "unknown"
PROOF BY DEF Closed, Accepted, Lclient, Nobody

(* Open connections are finitely many, for every address, too.             *)
LEMMA OpenFinite ==
  /\ IsFiniteSet(Open) /\ Cardinality(Open) \in Nat
  /\ \A c : IsFiniteSet(FromSameIP(c)) /\ Cardinality(FromSameIP(c)) \in Nat
<1>1. IsFiniteSet(Open)
  BY ClassAssumption, FS_Subset DEF Open, ClassAssumption
<1>2. \A c : FromSameIP(c) \subseteq Open
  BY DEF FromSameIP
<1>3. \A c : IsFiniteSet(FromSameIP(c))
  BY <1>1, <1>2, FS_Subset
<1>. QED BY <1>1, <1>3, FS_CardinalityType

(* Putting a safe record into an open connection keeps the invariant.      *)
LEMMA PutIsSafe ==
  ASSUME Inv, NEW c \in Open, NEW r, SafeFor(c, r), Put(c, r)
  PROVE  Inv'
<1>1. /\ c \in Conn /\ conn[c].type # "none"
      /\ conn \in [Conn -> Lclient] /\ refs \in Nat
  BY DEF Open, Inv, TypeOK
<1>2. /\ conn' = [conn EXCEPT ![c] = r]
      /\ refs' = IF r = Closed THEN refs - 1 ELSE refs
  BY DEF Put
<1>3. conn' \in [Conn -> Lclient]
  BY <1>1, <1>2 DEF SafeFor
<1>4. conn'[c] = r /\ \A d \in Conn \ {c} : conn'[d] = conn[d]
  BY <1>1, <1>2
<1>5. /\ r = Closed => Open' = Open \ {c}
      /\ r # Closed => Open' = Open
  BY <1>1, <1>4, ClosedType DEF Open, SafeFor
<1>6. refs' \in Nat /\ ClassCounts'
  <2>1. Cardinality(Open) \in Nat /\ IsFiniteSet(Open)
    BY OpenFinite
  <2>2. Cardinality(Open \ {c}) = Cardinality(Open) - 1
    BY <2>1, FS_RemoveElement
  <2>3. Cardinality(Open \ {c}) \in Nat
    BY <2>1, FS_RemoveElement, FS_CardinalityType
  <2>4. refs = Held + Cardinality(Open)
    BY DEF Inv, ClassCounts
  <2>5. ClassCounts' <=> refs' = Held + Cardinality(Open')
    BY DEF ClassCounts, Open
  <2>6. CASE r = Closed
    <3>1. refs' = refs - 1 /\ Cardinality(Open') = Cardinality(Open \ {c})
      BY <1>2, <1>5, <2>6
    <3>. QED BY <3>1, <2>1, <2>2, <2>3, <2>4, <2>5, <1>1, ClassAssumption
             DEF ClassAssumption
  <2>7. CASE r # Closed
    <3>1. refs' = refs /\ Cardinality(Open') = Cardinality(Open)
      BY <1>2, <1>5, <2>7
    <3>. QED BY <3>1, <2>4, <2>5, <1>1
  <2>. QED BY <2>6, <2>7
<1>7. TypeOK' /\ UniqueNicks'
  <2>1. \A d \in Users' : d # c => d \in Users /\ conn'[d] = conn[d]
    BY <1>4 DEF Users
  <2>2. c \in Users' => r.type = "user"
    BY <1>4 DEF Users
  <2>3. TypeOK'
    <3>1. \A d \in Conn \ Open' : conn'[d] = Closed
      BY <1>1, <1>4, <1>5 DEF TypeOK, SafeFor, Inv
    <3>2. \A d \in Users' :
            conn'[d].name \in Valid \cup {Nobody} /\ conn'[d].user = "valid"
      BY <1>4, <2>1, <2>2 DEF TypeOK, SafeFor, Inv
    <3>. QED BY <1>3, <1>6, <3>1, <3>2 DEF TypeOK
  <2>4. ASSUME NEW d \in Users', NEW e \in Users',
               conn'[d].name = conn'[e].name, conn'[d].name # Nobody
        PROVE  d = e
    BY <1>4, <2>1, <2>2, <2>4 DEF SafeFor, Inv, UniqueNicks
  <2>. QED BY <2>3, <2>4 DEF UniqueNicks
<1>8. Open' \subseteq Open
  BY <1>5
<1>9. ClassLimit'
  BY <1>8, OpenFinite, FS_Subset, FS_CardinalityType, ClassAssumption
     DEF Inv, ClassLimit, ClassAssumption
<1>10. AddressLimit'
  <2>. SUFFICES ASSUME NEW d \in Conn
                PROVE  Cardinality(FromSameIP(d)') <= PerIP
    BY DEF AddressLimit
  <2>1. FromSameIP(d)' \subseteq FromSameIP(d)
    BY <1>8 DEF FromSameIP
  <2>2. /\ Cardinality(FromSameIP(d)') <= Cardinality(FromSameIP(d))
        /\ Cardinality(FromSameIP(d)') \in Nat
    BY <2>1, OpenFinite, FS_Subset, FS_CardinalityType
  <2>. QED BY <2>2, OpenFinite, ClassAssumption DEF Inv, AddressLimit, ClassAssumption
<1>. QED BY <1>6, <1>7, <1>9, <1>10 DEF Inv

-----------------------------------------------------------------------------
(* The server starts without connections (lclient_init).                   *)
LEMMA InitInv == Init => Inv
<1>. SUFFICES ASSUME Init PROVE Inv
  OBVIOUS
<1>1. Open = {} /\ Users = {} /\ \A c : FromSameIP(c) = {}
  BY DEF Init, Open, Users, FromSameIP, Closed
<1>2. Cardinality({}) = 0
  BY FS_EmptySet
<1>3. TypeOK
  BY <1>1, ClosedType, ClassAssumption DEF Init, TypeOK, ClassAssumption
<1>. QED
  BY <1>1, <1>2, <1>3, ClassAssumption
     DEF Init, Inv, UniqueNicks, ClassCounts, ClassLimit, AddressLimit,
         ClassAssumption

(* What follows a login is safe: lclient_login has just looked for the     *)
(* nickname, and no other connection can act before it is registered.      *)
LEMMA LoginIsSafe ==
  ASSUME Inv, NEW c \in Open, NEW r \in Lclient, r.type = "unknown",
         r.user # "none", NEW q \in Login(r)
  PROVE  SafeFor(c, q)
<1>1. CASE q = Closed
  BY <1>1, ClosedType DEF SafeFor
<1>2. CASE q = r \/ q = [r EXCEPT !.name = Nobody]
  BY <1>2 DEF SafeFor, Lclient
<1>3. CASE q = Registered(r) /\ ~InUse(r.name) /\ r.name \in Valid \cup {Nobody}
           /\ r.user # "invalid"
  BY <1>3 DEF SafeFor, Lclient, Registered, InUse
<1>. QED BY <1>1, <1>2, <1>3 DEF Login

(* A new connection is counted by its class and by its address.            *)
LEMMA AcceptIsSafe ==
  ASSUME Inv, NEW c \in Conn, Accept(c)
  PROVE  Inv'
<1>. USE DEF Accept, Admit
<1>1. c \notin Open /\ conn' = [conn EXCEPT ![c] = Accepted] /\ refs' = refs + 1
      /\ conn \in [Conn -> Lclient] /\ refs \in Nat
  BY ClosedType DEF Open, Inv, TypeOK
<1>2. Open' = Open \cup {c} /\ Users' = Users
      /\ \A d \in Conn \ {c} : conn'[d] = conn[d]
  BY <1>1, ClosedType DEF Open, Users, Closed
<1>3. Cardinality(Open') = Cardinality(Open) + 1
  BY <1>1, <1>2, OpenFinite, FS_AddElement
<1>4. TypeOK' /\ UniqueNicks'
  <2>1. conn' \in [Conn -> Lclient] /\ refs' \in Nat
    BY <1>1, ClosedType
  <2>2. \A d \in Conn \ Open' : conn'[d] = Closed
    BY <1>2 DEF Inv, TypeOK
  <2>3. \A d \in Users : d \in Conn \ {c}
    BY <1>1, ClosedType DEF Users, Open
  <2>4. \A d \in Users' : conn'[d] = conn[d] /\ d \in Users
    BY <1>2, <2>3
  <2>. QED BY <2>1, <2>2, <2>4 DEF Inv, TypeOK, UniqueNicks
<1>5. refs = Held + Cardinality(Open)
  BY DEF Inv, ClassCounts
<1>6. refs' = Held + Cardinality(Open')
      /\ Cardinality(Open') + Held <= MaxClients + Blocks + 1
  BY <1>1, <1>3, <1>5, OpenFinite, ClassAssumption DEF RoomInClass, ClassAssumption
<1>7. AddressLimit'
  <2>. SUFFICES ASSUME NEW d \in Conn
                PROVE  Cardinality(FromSameIP(d)') <= PerIP
    BY DEF AddressLimit
  <2>1. CASE Address[c] = Address[d]
    <3>1. FromSameIP(d)' = FromSameIP(c) \cup {c} /\ c \notin FromSameIP(c)
      BY <1>1, <1>2, <2>1 DEF FromSameIP
    <3>2. Cardinality(FromSameIP(d)') = Cardinality(FromSameIP(c)) + 1
      BY <3>1, OpenFinite, FS_AddElement
    <3>. QED BY <3>2, OpenFinite, ClassAssumption DEF RoomOnAddress, ClassAssumption
  <2>2. CASE Address[c] # Address[d]
    <3>1. FromSameIP(d)' = FromSameIP(d)
      BY <1>2, <2>2 DEF FromSameIP
    <3>. QED BY <3>1 DEF Inv, AddressLimit
  <2>. QED BY <2>1, <2>2
<1>8. ClassCounts' /\ ClassLimit'
  BY <1>6 DEF ClassCounts, ClassLimit, Open
<1>. QED BY <1>4, <1>7, <1>8 DEF Inv

-----------------------------------------------------------------------------
(* Every step of Next keeps the invariant: one step for each action, each  *)
(* an instance of PutIsSafe but Accept.                                    *)
LEMMA NextInv == Inv /\ [Next]_vars => Inv'
<1>. SUFFICES ASSUME Inv, [Next]_vars PROVE Inv'
  OBVIOUS
<1>1. CASE UNCHANGED vars
  BY <1>1 DEF vars, Inv, TypeOK, UniqueNicks, ClassCounts, ClassLimit,
              AddressLimit, Open, Users, FromSameIP
<1>2. ASSUME NEW c \in Conn, Accept(c) PROVE Inv'
  BY <1>2, AcceptIsSafe
<1>3. ASSUME NEW c \in Conn, conn[c].type # "none"
      PROVE  c \in Open /\ conn[c] \in Lclient
  BY <1>3 DEF Open, Inv, TypeOK
<1>4. ASSUME NEW c \in Conn, NEW n \in Name \cup {Nobody}, UnregisteredNick(c, n)
      PROVE  Inv'
  <2>. DEFINE r == [conn[c] EXCEPT !.name = n]
  <2>1. c \in Open /\ conn[c] \in Lclient /\ conn[c].type = "unknown"
    BY <1>3, <1>4 DEF UnregisteredNick, Sends
  <2>2. r \in Lclient /\ r.type = "unknown"
    BY <2>1 DEF Lclient
  <2>3. CASE r.user = "none"
    <3>1. Put(c, r)
      BY <1>4, <2>3 DEF UnregisteredNick
    <3>2. SafeFor(c, r)
      BY <2>2 DEF SafeFor
    <3>. QED BY <2>1, <3>1, <3>2, PutIsSafe
  <2>4. CASE r.user # "none"
    <3>1. PICK q \in Login(r) : Put(c, q)
      BY <1>4, <2>4 DEF UnregisteredNick
    <3>2. SafeFor(c, q)
      BY <2>1, <2>2, <2>4, LoginIsSafe
    <3>. QED BY <2>1, <3>1, <3>2, PutIsSafe
  <2>. QED BY <2>3, <2>4
<1>5. ASSUME NEW c \in Conn, NEW u \in {"valid", "invalid"}, UnregisteredUser(c, u)
      PROVE  Inv'
  <2>. DEFINE r == [conn[c] EXCEPT !.user = u]
  <2>1. c \in Open /\ conn[c] \in Lclient /\ conn[c].type = "unknown"
    BY <1>3, <1>5 DEF UnregisteredUser, Sends
  <2>2. r \in Lclient /\ r.type = "unknown" /\ r.user # "none"
    BY <2>1 DEF Lclient
  <2>3. CASE r.name = Nobody
    <3>1. Put(c, r)
      BY <1>5, <2>3 DEF UnregisteredUser
    <3>2. SafeFor(c, r)
      BY <2>2 DEF SafeFor
    <3>. QED BY <2>1, <3>1, <3>2, PutIsSafe
  <2>4. CASE r.name # Nobody
    <3>1. PICK q \in Login(r) : Put(c, q)
      BY <1>5, <2>4 DEF UnregisteredUser
    <3>2. SafeFor(c, q)
      BY <2>1, <2>2, LoginIsSafe
    <3>. QED BY <2>1, <3>1, <3>2, PutIsSafe
  <2>. QED BY <2>3, <2>4
<1>6. ASSUME NEW c \in Conn, NEW n \in Name \cup {Nobody}, Nick(c, n)
      PROVE  Inv'
  <2>. DEFINE r == [conn[c] EXCEPT !.name = n]
  <2>1. c \in Open /\ conn[c] \in Lclient /\ conn[c].type = "user" /\ Put(c, r)
    BY <1>3, <1>6 DEF Nick, Sends
  <2>2. conn[c].user = "valid"
    BY <2>1 DEF Inv, TypeOK, Users
  <2>3. SafeFor(c, r)
    BY <1>6, <2>1, <2>2 DEF SafeFor, Nick, InUse, Lclient
  <2>. QED BY <2>1, <2>3, PutIsSafe
<1>7. ASSUME NEW c \in Open PROVE Put(c, Closed) => Inv'
  <2>1. SafeFor(c, Closed)
    BY ClosedType DEF SafeFor
  <2>. QED BY <2>1, PutIsSafe
\* A field that no property looks at may take any value.
<1>8. ASSUME NEW c \in Open, NEW b \in BOOLEAN
      PROVE  /\ Put(c, [conn[c] EXCEPT !.pinged = b]) => Inv'
             /\ Put(c, [conn[c] EXCEPT !.silent = b]) => Inv'
  <2>1. c \in Conn /\ conn[c] \in Lclient /\ conn[c].type # "none"
    BY DEF Open, Inv, TypeOK
  <2>2. conn[c].type = "user" =>
          /\ conn[c].name \in Valid \cup {Nobody} /\ conn[c].user = "valid"
          /\ \A d \in Users : d # c /\ conn[c].name # Nobody
                            => conn[d].name # conn[c].name
    BY <2>1 DEF Users, Inv, TypeOK, UniqueNicks
  <2>3. SafeFor(c, [conn[c] EXCEPT !.pinged = b])
    BY <2>1, <2>2 DEF SafeFor, Lclient
  <2>4. SafeFor(c, [conn[c] EXCEPT !.silent = b])
    BY <2>1, <2>2 DEF SafeFor, Lclient
  <2>. QED BY <2>3, <2>4, PutIsSafe
<1>9. ASSUME NEW c \in Conn, Pong(c) \/ Exit(c) \/ FallSilent(c)
      PROVE  Inv'
  BY <1>3, <1>7, <1>8, <1>9 DEF Pong, Exit, FallSilent, Sends
<1>10. ASSUME NEW c \in Conn, Expire(c) PROVE Inv'
  <2>1. c \in Open
    BY <1>10 DEF Expire, Inv, TypeOK, Closed
  <2>. QED BY <1>7, <1>8, <1>10, <2>1 DEF Expire
<1>. QED BY <1>1, <1>2, <1>4, <1>5, <1>6, <1>9, <1>10 DEF Next

-----------------------------------------------------------------------------
(* The connections of a server have the types of struct lclient, whatever  *)
(* clients send and however connections end.                               *)
THEOREM TypeCorrect == Spec => []TypeOK
<1>1. Inv => TypeOK
  BY DEF Inv
<1>. QED BY <1>1, InitInv, NextInv, PTL DEF Spec

(* Two clients of a server never have one nickname, although a nickname    *)
(* belongs to nobody while its login is under way.                         *)
THEOREM NicksUnique == Spec => []UniqueNicks
<1>1. Inv => UniqueNicks
  BY DEF Inv
<1>. QED BY <1>1, InitInv, NextInv, PTL DEF Spec

(* class_pop and class_push are balanced on every way out of a connection. *)
THEOREM ClassBalanced == Spec => []ClassCounts
<1>1. Inv => ClassCounts
  BY DEF Inv
<1>. QED BY <1>1, InitInv, NextInv, PTL DEF Spec

(* lclient_accept keeps both limits of a class.                            *)
THEOREM LimitsKept == Spec => []LimitsHold
<1>1. Inv => LimitsHold
  BY DEF Inv, LimitsHold
<1>. QED BY <1>1, InitInv, NextInv, PTL DEF Spec

(* A class counts right and stays within its limits, both at once: what    *)
(* the one allows rests on the other (lclient_accept, class_push).         *)
THEOREM ClassKept == Spec => []ClassHolds
<1>1. ClassCounts /\ LimitsHold => ClassHolds
  BY DEF ClassHolds
<1>. QED BY <1>1, ClassBalanced, LimitsKept, PTL

-----------------------------------------------------------------------------
(* Server bans.                                                            *)

Message == BanMessage \cup {NQuit(l) : l \in Link}

Typed ==
  /\ glines \in [Server -> Seq(Ban)] /\ sections \in [Server -> Seq(Ban)]
  /\ file \in [Server -> Seq(Ban)] /\ changed \in [Server -> BOOLEAN]
  /\ client \in [Client -> {"none", "user", "oper", "former"}]

NetTyped == net \in [Link -> Seq(Message)]

FilesUncovered == \A s \in Server : Uncovered(file[s])

\* What a server has of its own.
StoreOK == Typed /\ FilesUncovered /\ ListIsSaved /\ NobodyGLined /\ FileFollows

IInv == StoreOK /\ NetTyped

-----------------------------------------------------------------------------
(* Lists of masks.                                                         *)

(* A set of numbers has a smallest.                                        *)
LEMMA LeastIn ==
  ASSUME NEW S \in SUBSET Nat, S # {}
  PROVE  \E x \in S : \A y \in S : x <= y
<1>1. \E x \in S : \A y \in S : ~ (<<y, x>> \in OpToRel(<, Nat))
  BY NatLessThanWellFounded, WFMin, Zenon
<1>2. \A x \in S, y \in S : <<y, x>> \in OpToRel(<, Nat) <=> y < x
  <2>1. \A x \in Nat, y \in Nat : <<y, x>> \in {p \in Nat \X Nat : p[1] < p[2]} <=> y < x
    OBVIOUS
  <2> QED
    BY <2>1, Zenon DEF OpToRel
<1>3. \E x \in S : \A y \in S : ~(y < x)
  BY <1>1, <1>2, Zenon
<1> QED
  BY <1>3

(* It is what Min chooses: the first mask that covers one.                 *)
LEMMA MinIn ==
  ASSUME NEW S \in SUBSET Nat, S # {}
  PROVE  Min(S) \in S
  BY LeastIn DEF Min

(* RemoveAt takes out one place (dlink_delete).                            *)
LEMMA RemoveAtFacts ==
  ASSUME NEW S, NEW s \in Seq(S), NEW n \in 1 .. Len(s)
  PROVE  /\ RemoveAt(s, n) \in Seq(S) /\ Len(RemoveAt(s, n)) = Len(s) - 1
         /\ \A j \in 1 .. Len(s) - 1 :
              RemoveAt(s, n)[j] = IF j < n THEN s[j] ELSE s[j + 1]
<1> DEFINE a == SubSeq(s, 1, n - 1)
           b == SubSeq(s, n + 1, Len(s))
<1>0. Len(s) \in Nat /\ n \in Int /\ n - 1 \in Int /\ n + 1 \in Int
  OBVIOUS
<1>1. \A i \in 1 .. n - 1 : s[i] \in S
  OBVIOUS
<1>2. \A i \in n + 1 .. Len(s) : s[i] \in S
  OBVIOUS
<1>3. /\ a \in Seq(S) /\ Len(a) = n - 1
      /\ \A i \in 1 .. n - 1 : a[i] = s[i]
  <2>1. /\ a \in Seq(S)
        /\ Len(a) = IF 1 <= n - 1 THEN (n - 1) - 1 + 1 ELSE 0
        /\ \A i \in 1 .. (n - 1) - 1 + 1 : a[i] = s[1 + i - 1]
    BY <1>0, <1>1, SubSeqProperties
  <2> QED
    BY <1>0, <2>1
<1>4. /\ b \in Seq(S) /\ Len(b) = Len(s) - n
      /\ \A i \in 1 .. Len(s) - n : b[i] = s[n + i]
  <2>1. /\ b \in Seq(S)
        /\ Len(b) = IF n + 1 <= Len(s) THEN Len(s) - (n + 1) + 1 ELSE 0
        /\ \A i \in 1 .. Len(s) - (n + 1) + 1 : b[i] = s[n + 1 + i - 1]
    BY <1>0, <1>2, SubSeqProperties
  <2> QED
    BY <1>0, <2>1
<1> HIDE DEF a, b
<1>5. /\ a \o b \in Seq(S) /\ Len(a \o b) = Len(a) + Len(b)
      /\ \A i \in 1 .. Len(a) + Len(b) :
           (a \o b)[i] = IF i <= Len(a) THEN a[i] ELSE b[i - Len(a)]
  <2>1. a \in Seq(S) /\ b \in Seq(S)
    BY <1>3, <1>4
  <2> QED
    BY <2>1, ConcatProperties, Zenon
<1>6. RemoveAt(s, n) = a \o b
  BY DEF RemoveAt, a, b
<1>7. ASSUME NEW j \in 1 .. Len(s) - 1
      PROVE  (a \o b)[j] = IF j < n THEN s[j] ELSE s[j + 1]
  <2>0. (a \o b)[j] = IF j <= n - 1 THEN a[j] ELSE b[j - (n - 1)]
    BY <1>0, <1>3, <1>4, <1>5, SMTT(40)
  <2>1. CASE j < n
    <3>1. j \in 1 .. n - 1
      BY <1>0, <2>1
    <3> QED
      BY <1>3, <2>0, <2>1, <3>1
  <2>2. CASE ~(j < n)
    <3>1. j - (n - 1) \in 1 .. Len(s) - n /\ n + (j - (n - 1)) = j + 1
      BY <1>0, <2>2
    <3>2. b[j - (n - 1)] = s[j + 1]
      BY <1>4, <3>1
    <3> QED
      BY <1>0, <2>0, <2>2, <3>2
  <2> QED
    BY <2>1, <2>2
<1> QED
  BY <1>0, <1>3, <1>4, <1>5, <1>6, <1>7, SMTT(40)

(* What a place of a list holds.                                           *)
LEMMA ListFacts ==
  ASSUME NEW L \in Seq(Ban)
  PROVE  Len(L) \in Nat /\ DOMAIN L = 1 .. Len(L) /\ \A i \in DOMAIN L : L[i] \in Ban
  OBVIOUS

(* The first element that is b goes, or nothing does.                      *)
LEMMA RemoveFirstFacts ==
  ASSUME NEW L \in Seq(Ban), NEW b
  PROVE  \/ \E n \in 1 .. Len(L) : L[n] = b /\ RemoveFirst(L, b) = RemoveAt(L, n)
         \/ RemoveFirst(L, b) = L /\ ~Contains(L, b)
<1> DEFINE I == {i \in 1 .. Len(L) : L[i] = b}
<1>1. CASE I # {}
  <2>1. Min(I) \in I
    <3>1. I \in SUBSET Nat
      OBVIOUS
    <3> QED
      BY <1>1, <3>1, MinIn
  <2>2. RemoveFirst(L, b) = RemoveAt(L, Min(I))
    BY <1>1 DEF RemoveFirst, SelectInSeq
  <2> QED
    BY <2>1, <2>2
<1>2. CASE I = {}
  BY <1>2 DEF RemoveFirst, Contains
<1> QED
  BY <1>1, <1>2

\* L without some of its masks, in the same order.
Shorter(L, M) ==
  /\ M \in Seq(Ban)
  /\ Uncovered(L) => Uncovered(M)
  /\ \A j \in DOMAIN M : \E i \in DOMAIN L : M[j] = L[i]

(* A list stays uncovered, and hits nobody else, without one of its masks. *)
LEMMA RemovedIsShorter ==
  ASSUME NEW L \in Seq(Ban), NEW b
  PROVE  Shorter(L, RemoveFirst(L, b))
<1>1. CASE RemoveFirst(L, b) = L
  BY <1>1 DEF Shorter
<1>2. CASE \E n \in 1 .. Len(L) : RemoveFirst(L, b) = RemoveAt(L, n)
  <2>1. PICK n \in 1 .. Len(L) : RemoveFirst(L, b) = RemoveAt(L, n)
    BY <1>2
  <2> DEFINE M == RemoveFirst(L, b)
             old(j) == IF j < n THEN j ELSE j + 1
  <2>2. /\ M \in Seq(Ban) /\ Len(M) = Len(L) - 1
        /\ \A j \in 1 .. Len(L) - 1 : M[j] = IF j < n THEN L[j] ELSE L[j + 1]
    BY <2>1, RemoveAtFacts
  <2> HIDE DEF M
  <2>3. \A j \in DOMAIN M : old(j) \in DOMAIN L /\ M[j] = L[old(j)]
    BY <2>1, <2>2
  <2>4. \A i \in DOMAIN M, j \in DOMAIN M : i < j => old(i) < old(j)
    BY <2>1, <2>2
  <2> HIDE DEF old
  <2>5. Uncovered(L) => Uncovered(M)
    BY <2>3, <2>4 DEF Uncovered
  <2>6. Shorter(L, M)
    BY <2>2, <2>3, <2>5, Zenon DEF Shorter
  <2> QED
    BY <2>6 DEF M
<1> QED
  BY <1>1, <1>2, RemoveFirstFacts

(* A mask that was not found goes to the end.                              *)
LEMMA AddedIsUncovered ==
  ASSUME NEW L \in Seq(Ban), Uncovered(L), NEW b \in Ban, ~Found(L, b)
  PROVE  /\ Append(L, b) \in Seq(Ban) /\ Uncovered(Append(L, b))
         /\ \A j \in DOMAIN Append(L, b) : Append(L, b)[j] = b \/ \E i \in DOMAIN L : Append(L, b)[j] = L[i]
         /\ ~Contains(L, b)
<1> DEFINE M == Append(L, b)
           n == Len(L)
<1>1. /\ M \in Seq(Ban) /\ DOMAIN M = 1 .. n + 1 /\ DOMAIN L = 1 .. n /\ n \in Nat
      /\ M[n + 1] = b /\ \A j \in 1 .. n : M[j] = L[j]
  OBVIOUS
<1> HIDE DEF M, n
<1>2. ASSUME NEW i \in DOMAIN M, NEW j \in DOMAIN M, i < j
      PROVE  <<M[j], M[i]>> \notin Covers
  <2>1. i \in 1 .. n /\ M[i] = L[i] /\ i \in DOMAIN L
    BY <1>1, <1>2
  <2>2. CASE j = n + 1
    BY <1>1, <2>1, <2>2 DEF Found
  <2>3. CASE j # n + 1
    <3>1. j \in DOMAIN L /\ M[j] = L[j]
      BY <1>1, <1>2, <2>3
    <3> QED
      BY <1>2, <2>1, <3>1 DEF Uncovered
  <2> QED
    BY <2>2, <2>3
<1>3. Uncovered(M)
  BY <1>2 DEF Uncovered
<1>4. ~Contains(L, b)
  <2>1. <<b, b>> \in Covers
    BY BanAssumption DEF BanAssumption
  <2>2. \A i \in DOMAIN L : L[i] # b
    BY <2>1 DEF Found
  <2> QED
    BY <1>1, <2>2 DEF Contains, n
<1>5. \A j \in DOMAIN M : M[j] = b \/ \E i \in DOMAIN L : M[j] = L[i]
  <2> SUFFICES ASSUME NEW j \in DOMAIN M PROVE M[j] = b \/ \E i \in DOMAIN L : M[j] = L[i]
    OBVIOUS
  <2>1. j = n + 1 \/ j \in 1 .. n
    BY <1>1
  <2> QED
    BY <1>1, <2>1
<1> QED
  BY <1>1, <1>3, <1>4, <1>5 DEF M

(* What m_gline_find returns is a mask of the list.                        *)
LEMMA FindFacts ==
  ASSUME NEW L \in Seq(Ban), NEW b \in Ban, Found(L, b)
  PROVE  Find(L, b) \in Ban
<1> DEFINE I == {i \in 1 .. Len(L) : <<b, L[i]>> \in Covers}
<1>1. I # {} /\ I \in SUBSET Nat
  <2>1. DOMAIN L = 1 .. Len(L)
    OBVIOUS
  <2>2. \E i \in 1 .. Len(L) : <<b, L[i]>> \in Covers
    BY <2>1 DEF Found
  <2>3. I # {}
    BY <2>2
  <2>4. I \in SUBSET Nat
    OBVIOUS
  <2> QED
    BY <2>3, <2>4
<1>2. Min(I) \in I
  BY <1>1, MinIn
<1>3. Find(L, b) = L[Min(I)]
  BY <1>1 DEF Find, SelectInSeq
<1> QED
  BY <1>2, <1>3

(* m_gline_loaddb adds every section of a file whose masks do not cover    *)
(* each other, so the list is the file.                                    *)
LEMMA LoadedIsFile ==
  ASSUME NEW F \in Seq(Ban), Uncovered(F)
  PROVE  Loaded(F) = F
<1> DEFINE D == 0 .. Len(F)
           load[n \in D] ==
             IF n = 0 THEN <<>>
             ELSE IF Found(load[n - 1], F[n]) THEN load[n - 1]
             ELSE Append(load[n - 1], F[n])
           body(f) == [n \in D |-> IF n = 0 THEN <<>>
                                   ELSE IF Found(f[n - 1], F[n]) THEN f[n - 1]
                                   ELSE Append(f[n - 1], F[n])]
           first == [n \in D |-> SubSeq(F, 1, n)]
<1>0. Len(F) \in Nat /\ DOMAIN F = 1 .. Len(F) /\ \A i \in 1 .. Len(F) : F[i] \in Ban
  OBVIOUS
<1>1. ASSUME NEW n \in D
      PROVE  /\ SubSeq(F, 1, n) \in Seq(Ban) /\ Len(SubSeq(F, 1, n)) = n
             /\ \A i \in 1 .. n : SubSeq(F, 1, n)[i] = F[i]
  <2>1. n \in Int /\ n <= Len(F) /\ n >= 0 /\ \A i \in 1 .. n : F[i] \in Ban
    BY <1>0
  <2>2. /\ SubSeq(F, 1, n) \in Seq(Ban)
        /\ Len(SubSeq(F, 1, n)) = IF 1 <= n THEN n - 1 + 1 ELSE 0
        /\ \A i \in 1 .. n - 1 + 1 : SubSeq(F, 1, n)[i] = F[1 + i - 1]
    BY <2>1, SubSeqProperties
  <2> QED
    BY <2>1, <2>2
<1>2. ASSUME NEW n \in D, n # 0
      PROVE  ~Found(SubSeq(F, 1, n - 1), F[n]) /\ SubSeq(F, 1, n) = Append(SubSeq(F, 1, n - 1), F[n])
  <2> DEFINE A == SubSeq(F, 1, n - 1)
             B == SubSeq(F, 1, n)
  <2>1. n - 1 \in D /\ n \in 1 .. Len(F)
    BY <1>0, <1>2
  <2>2. /\ A \in Seq(Ban) /\ Len(A) = n - 1 /\ \A i \in 1 .. n - 1 : A[i] = F[i]
        /\ B \in Seq(Ban) /\ Len(B) = n /\ \A i \in 1 .. n : B[i] = F[i]
    BY <1>1, <2>1
  <2> HIDE DEF A, B
  <2>3. ~Found(A, F[n])
    <3> SUFFICES ASSUME NEW i \in DOMAIN A PROVE <<F[n], A[i]>> \notin Covers
      BY DEF Found
    <3>1. DOMAIN A = 1 .. n - 1
      BY <2>2
    <3>2. i \in DOMAIN F /\ n \in DOMAIN F /\ i < n /\ A[i] = F[i]
      BY <1>0, <2>1, <2>2, <3>1
    <3> QED
      BY <3>2 DEF Uncovered
  <2>4. B = Append(A, F[n])
    <3>1. F[n] \in Ban
      BY <1>0, <2>1
    <3>2. Len(Append(A, F[n])) = n /\ Append(A, F[n]) \in Seq(Ban)
      BY <2>1, <2>2, <3>1
    <3>3. \A i \in 1 .. n : Append(A, F[n])[i] = B[i]
      BY <2>1, <2>2, <3>1
    <3> QED
      BY <2>2, <3>2, <3>3, SeqEqual
  <2> QED
    BY <2>3, <2>4 DEF A, B
<1>3. first = body(first)
  <2>1. \A n \in D : first[n] = IF n = 0 THEN <<>>
                                ELSE IF Found(first[n - 1], F[n]) THEN first[n - 1]
                                ELSE Append(first[n - 1], F[n])
    <3> SUFFICES ASSUME NEW n \in D
                 PROVE  first[n] = IF n = 0 THEN <<>>
                                   ELSE IF Found(first[n - 1], F[n]) THEN first[n - 1]
                                   ELSE Append(first[n - 1], F[n])
      OBVIOUS
    <3>1. CASE n = 0
      <4>1. SubSeq(F, 1, 0) = <<>>
        OBVIOUS
      <4> QED
        BY <3>1, <4>1
    <3>2. CASE n # 0
      <4>1. n - 1 \in D
        BY <1>0, <3>2
      <4> QED
        BY <1>2, <3>2, <4>1
    <3> QED
      BY <3>1, <3>2
  <2> QED
    BY <2>1
<1>4. load = body(load)
  <2>1. load = CHOOSE f : f = body(f)
    OBVIOUS
  <2> HIDE DEF load, first, body
  <2> QED
    BY <1>3, <2>1
<1>5. \A n \in D : load[n] = first[n]
  <2> DEFINE Bad == {n \in D : load[n] # first[n]}
  <2>1. SUFFICES ASSUME Bad # {} PROVE FALSE
    OBVIOUS
  <2>2. Bad \in SUBSET Nat
    BY <1>0
  <2> HIDE DEF load, first
  <2>3. PICK n \in Bad : \A m \in Bad : n <= m
    BY <2>1, <2>2, LeastIn
  <2>4. n \in D /\ load[n] # first[n]
    BY <2>3
  <2>5. /\ load[n] = IF n = 0 THEN <<>>
                     ELSE IF Found(load[n - 1], F[n]) THEN load[n - 1]
                     ELSE Append(load[n - 1], F[n])
        /\ first[n] = IF n = 0 THEN <<>>
                      ELSE IF Found(first[n - 1], F[n]) THEN first[n - 1]
                      ELSE Append(first[n - 1], F[n])
    BY <1>3, <1>4, <2>4
  <2>6. n # 0 => load[n - 1] = first[n - 1]
    BY <1>0, <2>2, <2>3, <2>4
  <2> QED
    BY <2>4, <2>5, <2>6
<1>6. SubSeq(F, 1, Len(F)) = F
  <2>1. Len(F) \in D
    BY <1>0
  <2> QED
    BY <1>0, <1>1, <2>1, SeqEqual
<1>7. Loaded(F) = load[Len(F)]
  BY DEF Loaded
<1> HIDE DEF load
<1> QED
  BY <1>0, <1>5, <1>6, <1>7

-----------------------------------------------------------------------------
(* What a server does with its own.                                        *)

(* m_gline_match: who stays is not hit by the mask.                        *)
LEMMA EnforceFacts ==
  ASSUME Typed, NEW s, NEW b, Enforce(s, b)
  PROVE  /\ client' \in [Client -> {"none", "user", "oper", "former"}]
         /\ \A c \in Client : client'[c] = "user" =>
              client[c] = "user" /\ (HomeOf[c] = s => <<c, b>> \notin Hits)
<1>1. client \in [Client -> {"none", "user", "oper", "former"}]
  BY DEF Typed
<1> DEFINE goes(c) == c \in Locals(s) /\ client[c] \in {"user", "former"} /\ <<c, b>> \in Hits
<1>2. client' = [c \in Client |-> IF goes(c) THEN "none" ELSE client[c]]
  BY DEF Enforce
<1>3. \A c \in Client : client[c] = "user" /\ HomeOf[c] = s /\ <<c, b>> \in Hits => goes(c)
  BY DEF Locals
<1> HIDE DEF goes
<1> QED
  BY <1>1, <1>2, <1>3

(* m_gline_add                                                             *)
LEMMA AddKeeps ==
  ASSUME StoreOK, NEW s \in Server, NEW b \in Ban, ~Found(glines[s], b), Add(s, b), file' = file
  PROVE  StoreOK'
<1> DEFINE L == glines[s]
           M == Append(L, b)
<1>0. Typed /\ L \in Seq(Ban) /\ Uncovered(L) /\ sections[s] = L
  BY DEF StoreOK, Typed, ListIsSaved
<1>1. /\ M \in Seq(Ban) /\ Uncovered(M) /\ ~Contains(L, b)
      /\ \A j \in DOMAIN M : M[j] = b \/ \E i \in DOMAIN L : M[j] = L[i]
  BY <1>0, AddedIsUncovered
<1>2. glines' = [glines EXCEPT ![s] = M] /\ changed' = [changed EXCEPT ![s] = TRUE] /\ Enforce(s, b)
  BY DEF Add
<1>3. sections' = [sections EXCEPT ![s] = M]
  BY <1>0, <1>1 DEF Add
<1>4. /\ client' \in [Client -> {"none", "user", "oper", "former"}]
      /\ \A c \in Client : client'[c] = "user" =>
           client[c] = "user" /\ (HomeOf[c] = s => <<c, b>> \notin Hits)
  BY <1>0, <1>2, EnforceFacts
<1> HIDE DEF M
<1>5. Typed'
  BY <1>0, <1>1, <1>2, <1>3, <1>4 DEF Typed
<1>6. glines'[s] = M /\ sections'[s] = M /\ \A r \in Server \ {s} : glines'[r] = glines[r] /\ sections'[r] = sections[r]
  BY <1>0, <1>2, <1>3 DEF Typed
<1>7. ListIsSaved'
  BY <1>1, <1>6 DEF ListIsSaved, StoreOK
<1>8. NobodyGLined'
  <2> SUFFICES ASSUME NEW c \in Client, client'[c] = "user"
               PROVE  ~HitBy(c, glines'[HomeOf[c]])
    BY DEF NobodyGLined
  <2>1. HomeOf[c] \in Server /\ ~HitBy(c, glines[HomeOf[c]])
    BY <1>4, BanAssumption DEF BanAssumption, StoreOK, NobodyGLined
  <2>2. CASE HomeOf[c] = s
    <3>1. <<c, b>> \notin Hits
      BY <1>4, <2>2
    <3>2. \A i \in DOMAIN L : <<c, L[i]>> \notin Hits
      BY <2>1, <2>2 DEF HitBy
    <3>3. \A j \in DOMAIN M : <<c, M[j]>> \notin Hits
      BY <1>1, <3>1, <3>2
    <3>4. ~HitBy(c, M)
      BY <3>3 DEF HitBy
    <3> QED
      BY <1>6, <2>2, <3>4
  <2>3. CASE HomeOf[c] # s
    BY <1>6, <2>1, <2>3
  <2> QED
    BY <2>2, <2>3
<1>9. FileFollows'
  <2>1. changed'[s] /\ \A r \in Server \ {s} : changed'[r] = changed[r]
    BY <1>0, <1>2 DEF Typed
  <2> QED
    BY <1>6, <2>1 DEF FileFollows, StoreOK
<1> QED
  BY <1>5, <1>7, <1>8, <1>9 DEF StoreOK, FilesUncovered

(* m_gline_delete                                                          *)
LEMMA DeleteKeeps ==
  ASSUME StoreOK, NEW s \in Server, NEW b \in Ban, Delete(s, b), file' = file
  PROVE  StoreOK'
<1> DEFINE L == glines[s]
           M == RemoveFirst(L, b)
           has == changed[s] \/ Contains(L, b)
<1>0. Typed /\ L \in Seq(Ban) /\ Uncovered(L) /\ sections[s] = L
  BY DEF StoreOK, Typed, ListIsSaved
<1>1. Shorter(L, M)
  BY <1>0, RemovedIsShorter
<1>2. M \in Seq(Ban) /\ Uncovered(M) /\ \A j \in DOMAIN M : \E i \in DOMAIN L : M[j] = L[i]
  BY <1>0, <1>1 DEF Shorter
<1>3. ~Contains(L, b) => M = L
  <2>1. Len(L) \in Nat /\ \A n \in 1 .. Len(L) : L[n] = b => Contains(L, b)
    BY <1>0 DEF Contains
  <2> QED
    BY <1>0, <2>1, RemoveFirstFacts
<1>4. /\ glines' = [glines EXCEPT ![s] = M] /\ sections' = [sections EXCEPT ![s] = M]
      /\ client' = client /\ changed' = [changed EXCEPT ![s] = has]
  BY <1>0 DEF Delete
<1>5. has \in BOOLEAN
  BY <1>0 DEF Typed
<1> HIDE DEF M, has
<1>6. Typed'
  BY <1>0, <1>2, <1>4, <1>5 DEF Typed
<1>7. glines'[s] = M /\ sections'[s] = M /\ \A r \in Server \ {s} : glines'[r] = glines[r] /\ sections'[r] = sections[r]
  BY <1>0, <1>4 DEF Typed
<1>8. ListIsSaved'
  BY <1>2, <1>7 DEF ListIsSaved, StoreOK
<1>9. NobodyGLined'
  <2> SUFFICES ASSUME NEW c \in Client, client'[c] = "user"
               PROVE  ~HitBy(c, glines'[HomeOf[c]])
    BY DEF NobodyGLined
  <2>1. HomeOf[c] \in Server /\ ~HitBy(c, glines[HomeOf[c]])
    BY <1>4, BanAssumption DEF BanAssumption, StoreOK, NobodyGLined
  <2>2. CASE HomeOf[c] = s
    <3>1. ~HitBy(c, M)
      BY <1>2, <2>1, <2>2 DEF HitBy
    <3> QED
      BY <1>7, <2>2, <3>1
  <2>3. CASE HomeOf[c] # s
    BY <1>7, <2>1, <2>3
  <2> QED
    BY <2>2, <2>3
<1>10. FileFollows'
  <2>1. changed'[s] = has /\ \A r \in Server \ {s} : changed'[r] = changed[r]
    BY <1>0, <1>4 DEF Typed
  <2>2. ~has => M = L /\ changed[s] = FALSE
    BY <1>0, <1>3 DEF has, Typed
  <2>3. ~has => file[s] \in {M, <<>>}
    BY <1>0, <2>2 DEF FileFollows, StoreOK
  <2> QED
    BY <1>7, <2>1, <2>3 DEF FileFollows, StoreOK
<1> QED
  BY <1>6, <1>8, <1>9, <1>10 DEF StoreOK, FilesUncovered

(* m_gline_match alone, for a mask the list has.                           *)
LEMMA EnforceKeeps ==
  ASSUME StoreOK, NEW s, NEW b, Enforce(s, b), UNCHANGED Store, file' = file
  PROVE  StoreOK'
<1>1. /\ client' \in [Client -> {"none", "user", "oper", "former"}]
      /\ \A c \in Client : client'[c] = "user" => client[c] = "user"
  BY EnforceFacts DEF StoreOK
<1> QED
  BY <1>1 DEF StoreOK, Typed, FilesUncovered, ListIsSaved, NobodyGLined, FileFollows, Store

(* Nothing of a server's own changes.                                      *)
LEMMA StoreSame ==
  ASSUME StoreOK, UNCHANGED <<Store, file, client>>
  PROVE  StoreOK'
  BY DEF StoreOK, Typed, FilesUncovered, ListIsSaved, NobodyGLined, FileFollows, Store

(* m_gline_savedb: the file is what is in memory, or empty.                *)
LEMMA SaveKeeps ==
  ASSUME StoreOK, NEW s \in Server, Save(s)
  PROVE  StoreOK'
<1>0. Typed /\ sections[s] \in Seq(Ban) /\ Uncovered(sections[s]) /\ <<>> \in Seq(Ban) /\ Uncovered(<<>>)
  BY DEF StoreOK, Typed, ListIsSaved, Uncovered
<1>1. Written(s) \in {sections[s], <<>>}
  BY DEF Written
<1>2. Written(s) \in Seq(Ban) /\ Uncovered(Written(s))
  BY <1>0, <1>1
<1>3. /\ file' = [file EXCEPT ![s] = Written(s)] /\ changed' = [changed EXCEPT ![s] = FALSE]
      /\ UNCHANGED <<glines, sections, client>>
  BY DEF Save
<1>4. Typed' /\ FilesUncovered'
  BY <1>0, <1>2, <1>3 DEF Typed, FilesUncovered, StoreOK
<1>5. FileFollows'
  BY <1>0, <1>1, <1>3 DEF Typed, FileFollows, StoreOK
<1> QED
  BY <1>3, <1>4, <1>5 DEF StoreOK, ListIsSaved, NobodyGLined

(* A server starts with the list of its file and without clients.          *)
LEMMA RestartKeeps ==
  ASSUME StoreOK, NEW s \in Server, NEW F \in Seq(Ban), Uncovered(F), Restart(s, F)
  PROVE  StoreOK'
<1>0. Typed
  BY DEF StoreOK
<1>1. Loaded(F) = F
  BY LoadedIsFile
<1>2. /\ glines' = [glines EXCEPT ![s] = F] /\ sections' = [sections EXCEPT ![s] = F]
      /\ changed' = [changed EXCEPT ![s] = TRUE] /\ file' = [file EXCEPT ![s] = F]
      /\ client' = [c \in Client |-> IF c \in Locals(s) THEN "none" ELSE client[c]]
  BY <1>1 DEF Restart
<1>3. Typed'
  BY <1>0, <1>2 DEF Typed
<1>4. /\ glines'[s] = F /\ sections'[s] = F /\ file'[s] = F /\ changed'[s]
      /\ \A r \in Server \ {s} : /\ glines'[r] = glines[r] /\ sections'[r] = sections[r]
                                 /\ file'[r] = file[r] /\ changed'[r] = changed[r]
  BY <1>0, <1>2 DEF Typed
<1>5. FilesUncovered' /\ ListIsSaved' /\ FileFollows'
  BY <1>4 DEF StoreOK, FilesUncovered, ListIsSaved, FileFollows
<1>6. NobodyGLined'
  <2> SUFFICES ASSUME NEW c \in Client, client'[c] = "user"
               PROVE  ~HitBy(c, glines'[HomeOf[c]])
    BY DEF NobodyGLined
  <2>1. c \notin Locals(s) /\ client[c] = "user"
    BY <1>2
  <2>2. HomeOf[c] \in Server \ {s}
    BY <2>1, BanAssumption DEF BanAssumption, Locals
  <2> QED
    BY <1>4, <2>1, <2>2 DEF StoreOK, NobodyGLined
<1> QED
  BY <1>3, <1>5, <1>6 DEF StoreOK

-----------------------------------------------------------------------------
(* Messages.                                                               *)

(* What is sent, and what is left when a message is read, are messages     *)
(* (server_send).                                                          *)
LEMMA SendType ==
  ASSUME NetTyped, NEW s, NEW t, NEW out \in Seq(Message)
  PROVE  /\ SendAll(s, t, out) => NetTyped'
         /\ CanRead(s, t) /\ <<t, s>> \in Link /\ ReadAndSend(s, t, out, <<>>) => NetTyped'
<1>0. /\ net \in [Link -> Seq(Message)]
      /\ \A l \in Link : net[l] \o out \in Seq(Message)
  BY DEF NetTyped
<1>1. SendAll(s, t, out) => NetTyped'
  BY <1>0 DEF SendAll, NetTyped
<1>2. ASSUME CanRead(s, t), <<t, s>> \in Link, ReadAndSend(s, t, out, <<>>)
      PROVE  NetTyped'
  <2>1. Tail(net[<<t, s>>]) \in Seq(Message)
    BY <1>0, <1>2 DEF CanRead
  <2>2. \A l \in Link : ~Sent(s, s, <<>>, l)
    BY DEF Sent
  <2> QED
    BY <1>0, <1>2, <2>1, <2>2 DEF ReadAndSend, NetTyped
<1> QED
  BY <1>1, <1>2

(* The messages there are.                                                 *)
LEMMA MessageForms ==
  /\ \A b \in Ban : GLineMsg(b) \in Message /\ UnGLineMsg(b) \in Message
  /\ \A l \in Link : NQuit(l) \in Message
  /\ \A m \in Message : m.cmd \in {"GLINE", "UNGLINE"} => m.ban \in Ban
  BY DEF Message, BanMessage, GLineMsg, UnGLineMsg, NQuit

(* m_gline_burst sends a message for each mask.                            *)
LEMMA BurstType ==
  ASSUME StoreOK, NEW s \in Server
  PROVE  GLineBurst(s) \in Seq(Message)
<1> DEFINE n == Len(glines[s])
<1>1. /\ n \in Nat /\ DOMAIN glines[s] = 1 .. n
      /\ \A i \in 1 .. n : glines[s][i] \in Ban
  BY DEF StoreOK, Typed
<1> HIDE DEF n
<1>2. \A i \in 1 .. n : GLineMsg(glines[s][i]) \in Message
  BY <1>1, MessageForms
<1>3. GLineBurst(s) \in [1 .. n -> Message]
  BY <1>1, <1>2 DEF GLineBurst
<1> QED
  BY <1>1, <1>3, SeqDef

(* Connections come and go with what was on them.                          *)
LEMMA LinkType ==
  ASSUME NetTyped, NEW s, NEW t, <<s, t>> \in Link
  PROVE  /\ OpenLink(s, t) => NetTyped'
         /\ \A burst \in Seq(Message) : RegisterLink(s, t, burst) => NetTyped'
         /\ CloseLink(s, t) => NetTyped'
         /\ \A r : CutLinks(r) => NetTyped'
<1>0. /\ net \in [Link -> Seq(Message)] /\ <<>> \in Seq(Message)
      /\ \A out \in Seq(Message), l \in Link : net[l] \o out \in Seq(Message)
  BY DEF NetTyped
<1>1. OpenLink(s, t) => NetTyped'
  BY <1>0 DEF OpenLink, NetTyped
<1>2. ASSUME NEW burst \in Seq(Message), RegisterLink(s, t, burst)
      PROVE  NetTyped'
  BY <1>0, <1>2 DEF RegisterLink, NetTyped
<1>3. ASSUME CloseLink(s, t)
      PROVE  NetTyped'
  <2> DEFINE quit == IF end[<<s, t>>] = "up" THEN <<NQuit(<<s, t>>)>> ELSE <<>>
  <2>1. quit \in Seq(Message)
    BY MessageForms
  <2>2. net' = [l \in Link |-> IF l = <<t, s>> THEN <<>>
                               ELSE IF Sent(s, t, quit, l) THEN net[l] \o quit
                               ELSE net[l]]
    BY <1>3 DEF CloseLink
  <2> HIDE DEF quit
  <2> QED
    BY <1>0, <2>1, <2>2 DEF NetTyped
<1>4. ASSUME NEW r, CutLinks(r)
      PROVE  NetTyped'
  BY <1>0, <1>4 DEF CutLinks, NetTyped
<1> QED
  BY <1>1, <1>2, <1>3, <1>4

-----------------------------------------------------------------------------
(* Every step.                                                             *)

(* mo_gline, mo_ungline                                                    *)
LEMMA CommandKeeps ==
  ASSUME IInv, NEW s \in Server, NEW b \in Ban, GLine(s, b) \/ UnGLine(s, b)
  PROVE  IInv'
<1>1. CASE GLine(s, b)
  <2>1. <<GLineMsg(b)>> \in Seq(Message)
    BY MessageForms
  <2>2. NetTyped'
    BY <1>1, <2>1, SendType DEF GLine, IInv
  <2>3. StoreOK'
    BY <1>1, AddKeeps DEF GLine, IInv
  <2> QED
    BY <2>2, <2>3 DEF IInv
<1>2. CASE UnGLine(s, b)
  <2> DEFINE c == Find(glines[s], b)
  <2>1. glines[s] \in Seq(Ban) /\ Found(glines[s], b)
    BY <1>2 DEF UnGLine, IInv, StoreOK, Typed
  <2>2. c \in Ban
    BY <2>1, FindFacts
  <2>3. Delete(s, c) /\ SendAll(s, s, <<UnGLineMsg(c)>>) /\ file' = file
    BY <1>2 DEF UnGLine
  <2> HIDE DEF c
  <2>4. <<UnGLineMsg(c)>> \in Seq(Message)
    BY <2>2, MessageForms
  <2>5. NetTyped'
    BY <2>3, <2>4, SendType DEF IInv
  <2>6. StoreOK'
    BY <2>2, <2>3, DeleteKeeps DEF IInv
  <2> QED
    BY <2>5, <2>6 DEF IInv
<1> QED
  BY <1>1, <1>2

(* ms_gline                                                                *)
LEMMA OnGLineKeeps ==
  ASSUME IInv, NEW s \in Server, NEW t, <<t, s>> \in Link, CanRead(s, t), NEW b \in Ban,
         OnGLine(s, t, b), file' = file
  PROVE  IInv'
<1>0. glines[s] \in Seq(Ban)
  BY DEF IInv, StoreOK, Typed
<1>1. CASE Found(glines[s], b)
  <2> DEFINE c == Find(glines[s], b)
  <2>1. c \in Ban
    BY <1>0, <1>1, FindFacts
  <2>2. Enforce(s, c) /\ UNCHANGED Store /\ ReadAndSend(s, t, <<GLineMsg(c)>>, <<>>)
    BY <1>1 DEF OnGLine
  <2> HIDE DEF c
  <2>3. <<GLineMsg(c)>> \in Seq(Message)
    BY <2>1, MessageForms
  <2>4. NetTyped'
    BY <2>2, <2>3, SendType DEF IInv
  <2>5. StoreOK'
    BY <2>2, EnforceKeeps DEF IInv
  <2> QED
    BY <2>4, <2>5 DEF IInv
<1>2. CASE ~Found(glines[s], b)
  <2>1. Add(s, b) /\ ReadAndSend(s, t, <<GLineMsg(b)>>, <<>>)
    BY <1>2 DEF OnGLine
  <2>2. <<GLineMsg(b)>> \in Seq(Message)
    BY MessageForms
  <2>3. NetTyped'
    BY <2>1, <2>2, SendType DEF IInv
  <2>4. StoreOK'
    BY <1>2, <2>1, AddKeeps DEF IInv
  <2> QED
    BY <2>3, <2>4 DEF IInv
<1> QED
  BY <1>1, <1>2

(* ms_ungline                                                              *)
LEMMA OnUnGLineKeeps ==
  ASSUME IInv, NEW s \in Server, NEW t, <<t, s>> \in Link, CanRead(s, t), NEW b \in Ban,
         OnUnGLine(s, t, b), file' = file
  PROVE  IInv'
<1>0. glines[s] \in Seq(Ban)
  BY DEF IInv, StoreOK, Typed
<1>1. CASE Found(glines[s], b)
  <2> DEFINE c == Find(glines[s], b)
  <2>1. c \in Ban
    BY <1>0, <1>1, FindFacts
  <2>2. Delete(s, c) /\ ReadAndSend(s, t, <<UnGLineMsg(c)>>, <<>>)
    BY <1>1 DEF OnUnGLine
  <2> HIDE DEF c
  <2>3. <<UnGLineMsg(c)>> \in Seq(Message)
    BY <2>1, MessageForms
  <2>4. NetTyped'
    BY <2>2, <2>3, SendType DEF IInv
  <2>5. StoreOK'
    BY <2>1, <2>2, DeleteKeeps DEF IInv
  <2> QED
    BY <2>4, <2>5 DEF IInv
<1>2. CASE ~Found(glines[s], b)
  <2>1. UNCHANGED <<Store, client>> /\ ReadAndSend(s, t, <<>>, <<>>)
    BY <1>2 DEF OnUnGLine
  <2>2. <<>> \in Seq(Message)
    OBVIOUS
  <2>3. NetTyped'
    BY <2>1, <2>2, SendType DEF IInv
  <2>4. StoreOK'
    BY <2>1, StoreSame DEF IInv
  <2> QED
    BY <2>3, <2>4 DEF IInv
<1> QED
  BY <1>1, <1>2

(* What a linked server sent.                                              *)
LEMMA HearKeeps ==
  ASSUME IInv, NEW s \in Server, NEW t, <<t, s>> \in Link, Hear(s, t)
  PROVE  IInv'
<1> DEFINE m == Head(net[<<t, s>>])
<1>0. CanRead(s, t) /\ file' = file
  BY DEF Hear
<1>1. m \in Message
  <2>1. net[<<t, s>>] \in Seq(Message) /\ net[<<t, s>>] # <<>>
    BY <1>0 DEF IInv, NetTyped, CanRead
  <2> QED
    BY <2>1
<1>2. \/ m.cmd = "GLINE"   /\ OnGLine(s, t, m.ban)
      \/ m.cmd = "UNGLINE" /\ OnUnGLine(s, t, m.ban)
      \/ m.cmd = "NQUIT"   /\ UNCHANGED <<Store, client>> /\ ReadAndSend(s, t, <<m>>, <<>>)
  BY DEF Hear
<1> HIDE DEF m
<1>3. CASE m.cmd = "GLINE" /\ OnGLine(s, t, m.ban)
  <2>1. m.ban \in Ban
    BY <1>1, <1>3, MessageForms
  <2> QED
    BY <1>0, <1>3, <2>1, OnGLineKeeps
<1>4. CASE m.cmd = "UNGLINE" /\ OnUnGLine(s, t, m.ban)
  <2>1. m.ban \in Ban
    BY <1>1, <1>4, MessageForms
  <2> QED
    BY <1>0, <1>4, <2>1, OnUnGLineKeeps
<1>5. CASE UNCHANGED <<Store, client>> /\ ReadAndSend(s, t, <<m>>, <<>>)
  <2>1. <<m>> \in Seq(Message)
    BY <1>1
  <2>2. NetTyped'
    BY <1>0, <1>5, <2>1, SendType DEF IInv
  <2>3. StoreOK'
    BY <1>0, <1>5, StoreSame DEF IInv
  <2> QED
    BY <2>2, <2>3 DEF IInv
<1> QED
  BY <1>2, <1>3, <1>4, <1>5

(* lclient_register, lclient_exit, m_oper, oper_down                       *)
LEMMA ClientKeeps ==
  ASSUME IInv, NEW c \in Client, LogIn(c) \/ Quit(c) \/ Oper(c) \/ Deoper(c)
  PROVE  IInv'
<1>1. PICK type \in {"none", "user", "oper", "former"} :
        /\ Becomes(c, type)
        /\ type = "user" => ~HitBy(c, glines[HomeOf[c]])
  BY DEF LogIn, Quit, Oper, Deoper
<1>2. client' = [client EXCEPT ![c] = type] /\ UNCHANGED <<Store, file, net>>
  BY <1>1 DEF Becomes, links
<1>3. client \in [Client -> {"none", "user", "oper", "former"}]
  BY DEF IInv, StoreOK, Typed
<1>4. client' \in [Client -> {"none", "user", "oper", "former"}]
  BY <1>2, <1>3
<1>5. UNCHANGED <<glines, sections, changed>>
  BY <1>2 DEF Store
<1>6. NobodyGLined'
  BY <1>1, <1>2, <1>3, <1>5 DEF NobodyGLined, IInv, StoreOK, HitBy
<1> QED
  BY <1>2, <1>4, <1>5, <1>6
  DEF IInv, StoreOK, NetTyped, Typed, FilesUncovered, ListIsSaved, FileFollows

(* Every step keeps the invariant.                                         *)
LEMMA StepKeeps ==
  ASSUME IInv, [BanNext]_banVars
  PROVE  IInv'
<1>0. ASSUME NEW l \in Link
      PROVE  l[1] \in Server /\ l[2] \in Server /\ l = <<l[1], l[2]>> /\ <<l[2], l[1]>> \in Link
  BY LinkAssumption DEF LinkAssumption, Rev
<1>1. ASSUME NEW s \in Server, NEW b \in Ban, GLine(s, b) \/ UnGLine(s, b)
      PROVE  IInv'
  BY <1>1, CommandKeeps
<1>2. ASSUME NEW s \in Server, Save(s)
      PROVE  IInv'
  <2>1. NetTyped'
    BY <1>2 DEF Save, IInv, NetTyped, links
  <2> QED
    BY <1>2, <2>1, SaveKeeps DEF IInv
<1>3. ASSUME NEW s \in Server, Crash(s) \/ Shutdown(s)
      PROVE  IInv'
  <2>1. /\ file[s] \in Seq(Ban) /\ Uncovered(file[s])
        /\ Written(s) \in Seq(Ban) /\ Uncovered(Written(s))
    BY DEF IInv, StoreOK, Typed, FilesUncovered, ListIsSaved, Written, Uncovered
  <2>2. PICK F \in Seq(Ban) : Uncovered(F) /\ Restart(s, F)
    BY <1>3, <2>1 DEF Crash, Shutdown
  <2>3. NetTyped'
    <3>1. net' = [l \in Link |-> IF l[2] = s THEN <<>> ELSE net[l]]
      BY <2>2 DEF Restart, CutLinks
    <3> QED
      BY <3>1 DEF NetTyped, IInv
  <2> QED
    BY <2>2, <2>3, RestartKeeps DEF IInv
<1>4. ASSUME NEW l \in Link, Hear(l[1], l[2])
      PROVE  IInv'
  BY <1>0, <1>4, HearKeeps
<1>5. ASSUME NEW l \in Link, Connect(l[1], l[2]) \/ Introduce(l[1], l[2]) \/ Disconnect(l[1], l[2])
      PROVE  IInv'
  <2>1. GLineBurst(l[1]) \in Seq(Message) /\ <<l[1], l[2]>> \in Link
    BY <1>0, BurstType DEF IInv
  <2>2. NetTyped'
    BY <1>5, <2>1, LinkType DEF Connect, Introduce, Disconnect, IInv
  <2>3. StoreOK'
    BY <1>5, StoreSame DEF Connect, Introduce, Disconnect, bans, IInv, Store
  <2> QED
    BY <2>2, <2>3 DEF IInv
<1>6. ASSUME NEW c \in Client, LogIn(c) \/ Quit(c) \/ Oper(c) \/ Deoper(c)
      PROVE  IInv'
  BY <1>6, ClientKeeps
<1>7. CASE UNCHANGED banVars
  <2>1. StoreOK'
    BY <1>7, StoreSame DEF banVars, bans, IInv, Store
  <2> QED
    BY <1>7, <2>1 DEF banVars, links, IInv, NetTyped
<1> QED
  BY <1>1, <1>2, <1>3, <1>4, <1>5, <1>6, <1>7 DEF BanNext

(* No masks, no clients, nothing under way.                                *)
LEMMA InitKeeps ==
  ASSUME BanInit, LinkInit
  PROVE  IInv
<1>1. <<>> \in Seq(Ban) /\ <<>> \in Seq(Message) /\ Uncovered(<<>>)
  BY DEF Uncovered
<1>2. /\ glines = [s \in Server |-> <<>>] /\ sections = [s \in Server |-> <<>>]
      /\ file = [s \in Server |-> <<>>] /\ changed = [s \in Server |-> TRUE]
      /\ client = [c \in Client |-> "none"] /\ net = [l \in Link |-> <<>>]
  BY DEF BanInit, LinkInit
<1> QED
  BY <1>1, <1>2 DEF IInv, StoreOK, NetTyped, Typed, FilesUncovered, ListIsSaved, NobodyGLined, FileFollows

(* Whatever is typed, read from other servers, saved, read from the file   *)
(* and lost with a crash: no mask of a list is covered by an earlier one,  *)
(* the sections in memory are the list, what is not in the file will be    *)
(* written, and nobody who matches a mask of its server is logged in there *)
(* but operators and former ones (m_gline_add, m_gline_delete,             *)
(* m_gline_loaddb, m_gline_hook).                                          *)
THEOREM GLinesAlwaysHold == BanSpec => []GLinesHold
<1>1. BanInit /\ LinkInit => IInv
  BY InitKeeps
<1>2. IInv /\ [BanNext]_banVars => IInv'
  BY StepKeeps
<1>3. IInv => GLinesHold
  BY DEF IInv, StoreOK, GLinesHold
<1> QED
  BY <1>1, <1>2, <1>3, PTL DEF BanSpec
=============================================================================
