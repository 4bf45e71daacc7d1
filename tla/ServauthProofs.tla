--------------------------- MODULE ServauthProofs ---------------------------
(***************************************************************************)
(* The helper process hands no socket to two queries and keeps the promise *)
(* HelperPromise states, for any questions and limits.                     *)
(*                                                                         *)
(* A step of the process is an operation on the whole state, a record, so  *)
(* the invariant is one on such a record, Sound, and there is one lemma    *)
(* for each operation.  SocketsOwned needs more than it says: that         *)
(* an owned descriptor is open is what makes the lowest free one nobody's. *)
(* And the promise is kept only because no question is looked up twice at  *)
(* a time (Single): sauth.c gives every query an identifier of its own.    *)
(***************************************************************************)
EXTENDS Servauth, SequenceTheorems, WellFoundedInduction, TLAPS

QueryState == {"idle", "udp", "tcp", "connecting", "writing", "reading"}
QueryBlock == [ask : Question \cup {None}, sock : 0 .. MaxFd, st : QueryState]
Fact       == ({About[q] : q \in Question} \cup {Preset}) \X Verdict
CacheBlock == [at : Seq(Fact), age : Seq(Nat)]

UState ==
  [unread : Seq(Question), query : [Slot -> QueryBlock],
   io : [Fd -> {"none", "open", "shut"}], owner : [Fd -> 0 .. MaxQueries],
   cache : [Cached -> CacheBlock], said : (Question \X Verdict) \cup {None},
   end : {"alive", "dead", "deaf"}, lost : BOOLEAN]

\* The order of use names places of the cache, none twice.
CacheOK(c) ==
  /\ Len(c.at) <= CacheSize
  /\ Range(c.age) \subseteq DOMAIN c.at
  /\ \A i, j \in DOMAIN c.age : c.age[i] = c.age[j] => i = j

\* No question is under way twice.
Single(u) ==
  /\ \A i, j \in DOMAIN u.unread : u.unread[i] = u.unread[j] => i = j
  /\ \A i \in Slot : u.query[i].ask \notin Range(u.unread)
  /\ \A i, j \in Slot : u.query[i].ask # None /\ u.query[i].ask = u.query[j].ask => i = j

OwnedIn(u) ==
  ~u.lost => /\ u.end # "deaf"
             /\ \A i \in Slot, f \in Fd : u.owner[f] = i <=> u.query[i].sock = f
             /\ \A f \in Fd : u.owner[f] # 0 => u.io[f] = "open"

Sound(u) ==
  /\ u \in UState
  /\ \A i \in Slot : u.query[i].ask = None => u.query[i] = Idle
  /\ \A k \in Cached : CacheOK(u.cache[k])
  /\ Single(u) /\ OwnedIn(u)

Now == [State EXCEPT !.said = said]

IInv == Sound(Now) /\ Len(unread) <= MaxUnread

-----------------------------------------------------------------------------
(* Numbers, places in a sequence.                                          *)

(* A set of numbers has a smallest, which is what Min chooses: the lowest  *)
(* free descriptor, the first free query, the first cache entry.           *)
LEMMA MinIn ==
  ASSUME NEW S \in SUBSET Nat, S # {}
  PROVE  Min(S) \in S
<1>1. \E x \in S : \A y \in S : ~ (<<y, x>> \in OpToRel(<, Nat))
  BY NatLessThanWellFounded, WFMin, Zenon
<1>2. \A x \in S, y \in S : <<y, x>> \in OpToRel(<, Nat) <=> y < x
  <2>1. \A x \in Nat, y \in Nat : <<y, x>> \in {p \in Nat \X Nat : p[1] < p[2]} <=> y < x
    OBVIOUS
  <2> QED
    BY <2>1, Zenon DEF OpToRel
<1>3. \E x \in S : \A y \in S : ~(y < x)
  BY <1>1, <1>2, Zenon
<1>4. \E x \in S : \A y \in S : x <= y
  BY <1>3
<1> QED
  BY <1>4 DEF Min

(* RemoveAt takes out one place and moves down what follows.               *)
LEMMA RemoveAtFacts ==
  ASSUME NEW S, NEW s \in Seq(S), NEW n \in 1 .. Len(s)
  PROVE  /\ RemoveAt(s, n) \in Seq(S) /\ Len(RemoveAt(s, n)) = Len(s) - 1
         /\ \A j \in 1 .. Len(s) - 1 :
              RemoveAt(s, n)[j] = IF j < n THEN s[j] ELSE s[j + 1]
<1> DEFINE a == SubSeq(s, 1, n - 1)
           b == SubSeq(s, n + 1, Len(s))
<1>0. Len(s) \in Nat /\ n \in Int /\ n - 1 \in Int /\ n + 1 \in Int
  OBVIOUS
<1>1. \A i \in 1 .. n - 1 : s[i] \in S
  OBVIOUS
<1>2. \A i \in n + 1 .. Len(s) : s[i] \in S
  OBVIOUS
<1>3. /\ a \in Seq(S) /\ Len(a) = n - 1
      /\ \A i \in 1 .. n - 1 : a[i] = s[i]
  <2>1. /\ a \in Seq(S)
        /\ Len(a) = IF 1 <= n - 1 THEN (n - 1) - 1 + 1 ELSE 0
        /\ \A i \in 1 .. (n - 1) - 1 + 1 : a[i] = s[1 + i - 1]
    BY <1>0, <1>1, SubSeqProperties
  <2> QED
    BY <1>0, <2>1
<1>4. /\ b \in Seq(S) /\ Len(b) = Len(s) - n
      /\ \A i \in 1 .. Len(s) - n : b[i] = s[n + i]
  <2>1. /\ b \in Seq(S)
        /\ Len(b) = IF n + 1 <= Len(s) THEN Len(s) - (n + 1) + 1 ELSE 0
        /\ \A i \in 1 .. Len(s) - (n + 1) + 1 : b[i] = s[n + 1 + i - 1]
    BY <1>0, <1>2, SubSeqProperties
  <2> QED
    BY <1>0, <2>1
<1> HIDE DEF a, b
<1>5. /\ a \o b \in Seq(S) /\ Len(a \o b) = Len(a) + Len(b)
      /\ \A i \in 1 .. Len(a) + Len(b) :
           (a \o b)[i] = IF i <= Len(a) THEN a[i] ELSE b[i - Len(a)]
  <2>1. a \in Seq(S) /\ b \in Seq(S)
    BY <1>3, <1>4
  <2> QED
    BY <2>1, ConcatProperties, Zenon
<1>6. RemoveAt(s, n) = a \o b
  BY DEF RemoveAt, a, b
<1>7. ASSUME NEW j \in 1 .. Len(s) - 1
      PROVE  (a \o b)[j] = IF j < n THEN s[j] ELSE s[j + 1]
  <2>0. (a \o b)[j] = IF j <= n - 1 THEN a[j] ELSE b[j - (n - 1)]
    BY <1>0, <1>3, <1>4, <1>5
  <2>1. CASE j < n
    <3>1. j \in 1 .. n - 1
      BY <1>0, <2>1
    <3> QED
      BY <1>3, <2>0, <2>1, <3>1
  <2>2. CASE ~(j < n)
    <3>1. j - (n - 1) \in 1 .. Len(s) - n /\ n + (j - (n - 1)) = j + 1
      BY <1>0, <2>2
    <3>2. b[j - (n - 1)] = s[j + 1]
      BY <1>4, <3>1
    <3> QED
      BY <1>0, <2>0, <2>2, <3>2
  <2> QED
    BY <2>1, <2>2
<1> QED
  BY <1>0, <1>3, <1>4, <1>5, <1>6, <1>7

(* What has a place in a sequence.                                         *)
LEMMA InRange ==
  ASSUME NEW f
  PROVE  \A x : x \in Range(f) <=> \E j \in DOMAIN f : f[j] = x
  BY DEF Range

Moved(s, n) == Append(RemoveAt(s, n), s[n])

(* Taking out one place and appending what was there permutes a sequence.  *)
LEMMA MoveToEnd ==
  ASSUME NEW S, NEW s \in Seq(S), NEW n \in 1 .. Len(s),
         \A i, j \in DOMAIN s : s[i] = s[j] => i = j
  PROVE  /\ Moved(s, n) \in Seq(S) /\ Range(Moved(s, n)) = Range(s)
         /\ \A i, j \in DOMAIN Moved(s, n) : Moved(s, n)[i] = Moved(s, n)[j] => i = j
<1> DEFINE r == RemoveAt(s, n)
           t == Moved(s, n)
<1>0. Len(s) \in Nat /\ n \in Nat /\ 1 <= n /\ n <= Len(s) /\ s[n] \in S
  OBVIOUS
<1>1. /\ r \in Seq(S) /\ Len(r) = Len(s) - 1
      /\ \A j \in 1 .. Len(s) - 1 : r[j] = IF j < n THEN s[j] ELSE s[j + 1]
  BY RemoveAtFacts, Zenon
<1> HIDE DEF r
<1>2. t = Append(r, s[n])
  BY DEF Moved, r
<1> HIDE DEF t
<1>3. /\ t \in Seq(S) /\ Len(t) = Len(s)
      /\ \A j \in 1 .. Len(s) - 1 : t[j] = r[j]
      /\ t[Len(s)] = s[n]
  BY <1>0, <1>1, <1>2
<1> DEFINE From(j) == IF j < n THEN j ELSE IF j < Len(s) THEN j + 1 ELSE n
<1>4. \A j \in 1 .. Len(s) : t[j] = s[From(j)] /\ From(j) \in 1 .. Len(s)
  <2>1. \A j \in 1 .. Len(s) - 1 : t[j] = IF j < n THEN s[j] ELSE s[j + 1]
    BY <1>1, <1>3
  <2>2. ASSUME NEW j \in 1 .. Len(s), j # Len(s)
        PROVE  t[j] = s[From(j)] /\ From(j) \in 1 .. Len(s)
    BY <1>0, <2>1, <2>2
  <2>3. t[Len(s)] = s[From(Len(s))]
    BY <1>0, <1>3
  <2>4. From(Len(s)) \in 1 .. Len(s)
    BY <1>0
  <2> QED
    BY <2>2, <2>3, <2>4
<1>5. \A i, j \in 1 .. Len(s) : From(i) = From(j) => i = j
  BY <1>0
<1>6. \A m \in 1 .. Len(s) : \E j \in 1 .. Len(s) : From(j) = m
  <2> SUFFICES ASSUME NEW m \in 1 .. Len(s)
               PROVE  \E j \in 1 .. Len(s) : From(j) = m
    OBVIOUS
  <2>1. CASE m < n
    BY <1>0, <2>1
  <2>2. CASE m = n
    BY <1>0, <2>2
  <2>3. CASE m > n
    <3>1. m - 1 \in 1 .. Len(s) /\ From(m - 1) = m
      BY <1>0, <2>3
    <3> QED
      BY <3>1, Zenon
  <2> QED
    BY <1>0, <2>1, <2>2, <2>3
<1> HIDE DEF From
<1>7. DOMAIN s = 1 .. Len(s) /\ DOMAIN t = 1 .. Len(s)
  BY <1>3
<1>8. \A i, j \in DOMAIN t : t[i] = t[j] => i = j
  <2> SUFFICES ASSUME NEW i \in 1 .. Len(s), NEW j \in 1 .. Len(s), t[i] = t[j]
               PROVE  i = j
    BY <1>7
  <2>1. From(i) \in DOMAIN s /\ From(j) \in DOMAIN s /\ s[From(i)] = s[From(j)]
    BY <1>4, <1>7
  <2>2. From(i) = From(j)
    BY <2>1, Zenon
  <2> QED
    BY <1>5, <2>2, Zenon
<1>9. Range(t) = Range(s)
  <2>1. \A j \in 1 .. Len(s) : t[j] \in Range(s)
    BY <1>4, <1>7, InRange, Zenon
  <2>2. \A m \in 1 .. Len(s) : s[m] \in Range(t)
    <3> SUFFICES ASSUME NEW m \in 1 .. Len(s) PROVE \E j \in 1 .. Len(s) : t[j] = s[m]
      BY <1>7, InRange, Zenon
    <3>1. PICK j \in 1 .. Len(s) : From(j) = m
      BY <1>6, Zenon
    <3> QED
      BY <1>4, <3>1, Zenon
  <2>3. \A x \in Range(t) : x \in Range(s)
    BY <1>7, <2>1, InRange, ZenonT(60)
  <2>4. \A x \in Range(s) : x \in Range(t)
    BY <1>7, <2>2, InRange, ZenonT(60)
  <2> QED
    BY <2>3, <2>4, Zenon
<1> QED
  BY <1>3, <1>8, <1>9, Zenon DEF t

(* A number that was not there goes to the end of a sequence.              *)
LEMMA NewAtEnd ==
  ASSUME NEW s \in Seq(Nat), \A j, k \in DOMAIN s : s[j] = s[k] => j = k,
         NEW x \in Nat, x \notin Range(s)
  PROVE  /\ Append(s, x) \in Seq(Nat) /\ Range(Append(s, x)) = Range(s) \cup {x}
         /\ \A j, k \in DOMAIN Append(s, x) : Append(s, x)[j] = Append(s, x)[k] => j = k
<1> DEFINE t == Append(s, x)
           m == Len(s)
<1>1. /\ t \in Seq(Nat) /\ m \in Nat /\ DOMAIN s = 1 .. m /\ DOMAIN t = 1 .. m + 1
      /\ t[m + 1] = x /\ \A j \in 1 .. m : t[j] = s[j]
  OBVIOUS
<1> HIDE DEF t, m
<1>2. \A j \in 1 .. m : s[j] \in Range(s) /\ s[j] # x
  BY <1>1, InRange
<1>3. ASSUME NEW j \in 1 .. m + 1, NEW k \in 1 .. m + 1, t[j] = t[k]
      PROVE  j = k
  <2>1. (j \in 1 .. m \/ j = m + 1) /\ (k \in 1 .. m \/ k = m + 1)
    BY <1>1
  <2>2. CASE j \in 1 .. m /\ k \in 1 .. m
    <3>1. s[j] = s[k]
      BY <1>1, <1>3, <2>2
    <3> QED
      BY <1>1, <2>2, <3>1
  <2> QED
    BY <1>1, <1>2, <1>3, <2>1, <2>2
<1>4. ASSUME NEW y
      PROVE  y \in Range(t) <=> y \in Range(s) \/ y = x
  <2>1. ASSUME y \in Range(t) PROVE y \in Range(s) \/ y = x
    <3>1. PICK j \in DOMAIN t : t[j] = y
      BY <2>1, InRange, Zenon
    <3>2. j \in 1 .. m \/ j = m + 1
      BY <1>1
    <3> QED
      BY <1>1, <1>2, <3>1, <3>2
  <2>2. ASSUME y \in Range(s) PROVE y \in Range(t)
    <3>1. PICK j \in DOMAIN s : s[j] = y
      BY <2>2, InRange, Zenon
    <3>2. j \in DOMAIN t /\ t[j] = y
      BY <1>1, <3>1
    <3> QED
      BY <3>2, InRange, Zenon
  <2>3. x \in Range(t)
    <3>1. m + 1 \in DOMAIN t
      BY <1>1
    <3> QED
      BY <1>1, <3>1, InRange, Zenon
  <2> QED
    BY <2>1, <2>2, <2>3
<1>5. Range(t) = Range(s) \cup {x}
  BY <1>4
<1> QED
  BY <1>1, <1>3, <1>5 DEF t

(* Moving one place of the order of use to its end, or putting one there,  *)
(* keeps it an order of places (cache_*_pick set the time of use).         *)
LEMMA UsedFacts ==
  ASSUME NEW c \in CacheBlock, CacheOK(c), NEW i \in DOMAIN c.at
  PROVE  /\ Used(c, i) \in CacheBlock
         /\ CacheOK(Used(c, i))
         /\ Used(c, i).at = c.at
<1> DEFINE s == c.age
           n == Place(c, i)
           t == Append(IF i \in Range(s) THEN RemoveAt(s, n) ELSE s, i)
<1>0. c.at \in Seq(Fact) /\ s \in Seq(Nat) /\ i \in Nat
  BY DEF CacheBlock
<1>1. (\A j, k \in DOMAIN s : s[j] = s[k] => j = k) /\ Range(s) \subseteq DOMAIN c.at
  BY DEF CacheOK
<1>2. Used(c, i) = [c EXCEPT !.age = t]
  BY DEF Used
<1>3. /\ t \in Seq(Nat) /\ Range(t) \subseteq DOMAIN c.at
      /\ \A j, k \in DOMAIN t : t[j] = t[k] => j = k
  <2>1. CASE i \in Range(s)
    <3>1. n \in DOMAIN s /\ s[n] = i
      BY <2>1 DEF Place, Range
    <3>2. n \in 1 .. Len(s)
      BY <1>0, <3>1
    <3> HIDE DEF n, s
    <3>3. t = Moved(s, n)
      BY <2>1, <3>1, Zenon DEF Moved
    <3>4. /\ Moved(s, n) \in Seq(Nat) /\ Range(Moved(s, n)) = Range(s)
          /\ \A j, k \in DOMAIN Moved(s, n) : Moved(s, n)[j] = Moved(s, n)[k] => j = k
      BY <1>0, <1>1, <3>2, MoveToEnd, Zenon
    <3> HIDE DEF t
    <3> QED
      BY <1>1, <3>3, <3>4, Zenon
  <2>2. CASE i \notin Range(s)
    <3> HIDE DEF n, s
    <3>1. t = Append(s, i)
      BY <2>2
    <3>2. /\ Append(s, i) \in Seq(Nat) /\ Range(Append(s, i)) = Range(s) \cup {i}
          /\ \A j, k \in DOMAIN Append(s, i) : Append(s, i)[j] = Append(s, i)[k] => j = k
      BY <1>0, <1>1, <2>2, NewAtEnd, Zenon
    <3> HIDE DEF t
    <3>3. Range(s) \cup {i} \subseteq DOMAIN c.at
      BY <1>1
    <3> QED
      BY <3>1, <3>2, <3>3, Zenon
  <2> QED
    BY <2>1, <2>2
<1> HIDE DEF t
<1>4. Used(c, i) \in CacheBlock /\ Used(c, i).at = c.at /\ Used(c, i).age = t
  BY <1>0, <1>2, <1>3 DEF CacheBlock
<1> QED
  BY <1>3, <1>4 DEF CacheOK

(* What a state of the process holds.                                      *)
LEMMA UFields ==
  ASSUME NEW u \in UState
  PROVE  /\ u.unread \in Seq(Question) /\ u.query \in [Slot -> QueryBlock]
         /\ u.io \in [Fd -> {"none", "open", "shut"}] /\ u.owner \in [Fd -> 0 .. MaxQueries]
         /\ u.cache \in [Cached -> CacheBlock] /\ u.said \in (Question \X Verdict) \cup {None}
         /\ u.end \in {"alive", "dead", "deaf"} /\ u.lost \in BOOLEAN
  BY DEF UState
(* A process that has just started, and one that is gone.                  *)
LEMMA BootSound == Sound(Boot) /\ Sound(Dead)
<1>1. Idle \in QueryBlock 
  BY ServauthAssumption DEF ServauthAssumption, Idle, QueryBlock, QueryState
<1>2. /\ Boot.unread = <<>> /\ Boot.query = [i \in Slot |-> Idle] /\ Boot.owner = [f \in Fd |-> 0]
      /\ Boot.io = [f \in Fd |-> "none"] /\ Boot.end = "alive" /\ ~Boot.lost
      /\ Boot.cache = [k \in Cached |-> [at |-> IF k = "reverse" THEN <<PresetFact>> ELSE <<>>, age |-> <<>>]]
  BY DEF Boot
<1>3. Boot \in UState
  <2>0. <<PresetFact>> \in Seq(Fact)
     BY DEF PresetFact, Fact, Verdict
  <2>1. \A k \in Cached : [at |-> IF k = "reverse" THEN <<PresetFact>> ELSE <<>>, age |-> <<>>] \in CacheBlock
     BY <2>0 DEF CacheBlock
  <2>2. [i \in Slot |-> Idle] \in [Slot -> QueryBlock] BY <1>1
  <2>3. [f \in Fd |-> 0] \in [Fd -> 0 .. MaxQueries] BY ServauthAssumption DEF ServauthAssumption
  <2>4. [k \in Cached |-> [at |-> IF k = "reverse" THEN <<PresetFact>> ELSE <<>>, age |-> <<>>]]
          \in [Cached -> CacheBlock] BY <2>1
  <2>5. [f \in Fd |-> "none"] \in  [Fd -> {"none", "open", "shut"}] OBVIOUS
  <2> QED
   BY <1>1, <2>2, <2>3, <2>4, <2>5 DEF Boot, UState
<1>4. Sound(Boot)
  <2>1. \A k \in Cached : CacheOK(Boot.cache[k])
    <3> SUFFICES ASSUME NEW k \in Cached PROVE CacheOK(Boot.cache[k])
      OBVIOUS
    <3>1. (Boot.cache[k].at = <<>> \/ Boot.cache[k].at = <<PresetFact>>) /\ Boot.cache[k].age = <<>>
      BY <1>2
    <3>2. Len(Boot.cache[k].at) <= CacheSize
      <4>1. CacheSize \in Nat /\ 1 <= CacheSize /\ 0 <= CacheSize
        BY ServauthAssumption DEF ServauthAssumption
      <4>2. Len(<<PresetFact>>) = 1 /\ Len(<<>>) = 0
        OBVIOUS
      <4> QED
        BY <3>1, <4>1, <4>2
    <3>3. Range(Boot.cache[k].age) = {} /\ DOMAIN Boot.cache[k].age = {}
      BY <3>1 DEF Range
    <3> QED BY <3>2, <3>3 DEF CacheOK
  <2>2. \A i \in Slot : Boot.query[i] = Idle BY <1>2
  <2>3. Single(Boot)
    BY <1>2, <2>2 DEF Single, Range, Idle
  <2>4. OwnedIn(Boot)
    BY <1>2, <2>2 DEF OwnedIn, Slot, Fd, Idle
  <2> QED BY <1>3, <2>1, <2>2, <2>3, <2>4 DEF Sound
<1>5. Sound(Dead)
  <2>1. Dead \in UState BY <1>3 DEF Dead, UState
  <2>2. Dead.unread = Boot.unread /\ Dead.query = Boot.query /\ Dead.io = Boot.io /\
        Dead.owner = Boot.owner /\ Dead.cache = Boot.cache /\ Dead.end = "dead" /\ Dead.lost = Boot.lost
     BY <1>3 DEF Dead, UState
  <2> QED BY <1>4, <2>1, <2>2 DEF Sound, Single, OwnedIn
<1> QED BY <1>4, <1>5

(* A query changes.                                                        *)
LEMMA QueryEx ==
  ASSUME NEW u \in UState, NEW i \in Slot, NEW b \in QueryBlock
  PROVE  [u.query EXCEPT ![i] = b] \in [Slot -> QueryBlock]
  BY DEF UState

(* A free query.                                                           *)
LEMMA IdleType == Idle \in QueryBlock /\ Idle.ask = None /\ Idle.sock = 0
  BY ServauthAssumption DEF ServauthAssumption, Idle, QueryBlock, QueryState

(* io_destroy, on the whole state.                                         *)
LEMMA CloseShape ==
  ASSUME NEW u \in UState, NEW f \in Fd
  PROVE  /\ Close(u, f) \in UState
         /\ Close(u, f).io = [u.io EXCEPT ![f] = "none"]
         /\ Close(u, f).owner = [u.owner EXCEPT ![f] = 0]
         /\ Close(u, f).query = u.query /\ Close(u, f).unread = u.unread
         /\ Close(u, f).cache = u.cache /\ Close(u, f).said = u.said
         /\ Close(u, f).end = u.end /\ Close(u, f).lost = u.lost
<1>1. Close(u, f) = [u EXCEPT !.io[f] = "none", !.owner[f] = 0]
  BY ServauthAssumption DEF ServauthAssumption, Close, Fd
<1>2. [u.io EXCEPT ![f] = "none"] \in [Fd -> {"none", "open", "shut"}]
  BY DEF UState
<1>3. [u.owner EXCEPT ![f] = 0] \in [Fd -> 0 .. MaxQueries]
  BY ServauthAssumption DEF ServauthAssumption, UState
<1>4. Close(u, f) \in UState
  BY <1>1, <1>2, <1>3 DEF UState
<1> QED
  BY <1>1, <1>4 DEF UState

(* io_shutup, on the whole state, of a descriptor that is open or is not.  *)
LEMMA ShutShape ==
  ASSUME NEW u \in UState, NEW f \in Fd
  PROVE  /\ Shut(u, f) \in UState
         /\ Shut(u, f).query = u.query /\ Shut(u, f).unread = u.unread
         /\ Shut(u, f).cache = u.cache /\ Shut(u, f).said = u.said
         /\ Shut(u, f).lost = u.lost /\ (u.end # "dead" => Shut(u, f).end # "dead")
         /\ u.io[f] = "none" \/ 
              /\ Shut(u, f).io = [u.io EXCEPT ![f] = "shut"]
              /\ Shut(u, f).owner = [u.owner EXCEPT ![f] = 0] /\ Shut(u, f).end = u.end
<1>1. CASE u.io[f] = "none"
  <2>1. Shut(u, f) = [u EXCEPT !.end = "deaf"]
    BY <1>1 DEF Shut
  <2>2. Shut(u, f) \in UState
    BY <2>1 DEF UState
  <2> QED
    BY <1>1, <2>1, <2>2 DEF UState
<1>2. CASE u.io[f] # "none"
  <2>1. Shut(u, f) = [u EXCEPT !.io[f] = "shut", !.owner[f] = 0]
    BY <1>2 DEF Shut
  <2>2. [u.io EXCEPT ![f] = "shut"] \in [Fd -> {"none", "open", "shut"}]
    BY DEF UState
  <2>3. [u.owner EXCEPT ![f] = 0] \in [Fd -> 0 .. MaxQueries]
    BY ServauthAssumption DEF ServauthAssumption, UState
  <2>4. Shut(u, f) \in UState
    BY <2>1, <2>2, <2>3 DEF UState
  <2> QED
    BY <2>1, <2>4 DEF UState
<1> QED
  BY <1>1, <1>2

(* A query is freed and its socket given up: nobody else's was the same,   *)
(* so everybody still has his own.                                         *)
LEMMA Freed ==
  ASSUME NEW u, Sound(u), NEW i \in Slot, NEW w \in UState,
         w.query = [u.query EXCEPT ![i] = Idle],
         w.unread = u.unread, w.cache = u.cache, w.lost = u.lost,
         ~u.lost => /\ w.end = u.end
                    /\ u.query[i].sock = 0 => w.owner = u.owner /\ w.io = u.io
                    /\ u.query[i].sock # 0 =>
                         /\ w.owner = [u.owner EXCEPT ![u.query[i].sock] = 0]
                         /\ \A g \in Fd \ {u.query[i].sock} : w.io[g] = u.io[g]
  PROVE  Sound(w)
<1> DEFINE f == u.query[i].sock
<1>0. u \in UState /\ u.query \in [Slot -> QueryBlock] /\ u.owner \in [Fd -> 0 .. MaxQueries] /\ u.unread \in Seq(Question)
  BY DEF Sound, UState
<1>1. w.query[i] = Idle /\ \A j \in Slot \ {i} : w.query[j] = u.query[j]
  BY <1>0
<1>2. \A j \in Slot : w.query[j].ask = None => w.query[j] = Idle
  BY <1>1 DEF Sound
<1>3. Single(w)
  <2>1. None \notin Range(u.unread)
    BY <1>0, ServauthAssumption DEF ServauthAssumption, Range
  <2> QED
    BY <1>1, <2>1, IdleType DEF Single, Sound
<1>4. ASSUME ~w.lost
      PROVE  /\ w.end # "deaf"
             /\ \A j \in Slot, g \in Fd : w.owner[g] = j <=> w.query[j].sock = g
             /\ \A g \in Fd : w.owner[g] # 0 => w.io[g] = "open"
  <2>0. /\ ~u.lost /\ u.end # "deaf" /\ w.end = u.end
        /\ \A j \in Slot, g \in Fd : u.owner[g] = j <=> u.query[j].sock = g
        /\ \A g \in Fd : u.owner[g] # 0 => u.io[g] = "open"
    BY <1>4 DEF Sound, OwnedIn
  <2>1. f \in Fd \cup {0} /\ 0 \notin Fd /\ 0 \notin Slot
    BY <1>0, ServauthAssumption DEF ServauthAssumption, QueryBlock, Fd, Slot
  <2>2. CASE f = 0
    <3>1. w.owner = u.owner /\ w.io = u.io
      BY <2>0, <2>2
    <3>2. ASSUME NEW j \in Slot, NEW g \in Fd
          PROVE  w.owner[g] = j <=> w.query[j].sock = g
      BY <1>1, <2>0, <2>1, <2>2, <3>1, IdleType
    <3> QED
      BY <2>0, <3>1, <3>2
  <2>3. CASE f # 0
    <3>1. w.owner[f] = 0 /\ \A g \in Fd \ {f} : w.owner[g] = u.owner[g]
      BY <1>0, <2>0, <2>1, <2>3
    <3>2. \A g \in Fd \ {f} : w.io[g] = u.io[g]
      BY <2>0, <2>3
    <3>3. \A j \in Slot, g \in Fd : w.owner[g] = j <=> w.query[j].sock = g
      <4> SUFFICES ASSUME NEW j \in Slot, NEW g \in Fd
                   PROVE  w.owner[g] = j <=> w.query[j].sock = g
        OBVIOUS
      <4>1. CASE g = f
        BY <1>1, <2>0, <2>1, <3>1, <4>1, IdleType
      <4>2. CASE g # f
        BY <1>1, <2>0, <2>1, <3>1, <4>2, IdleType
      <4> QED
        BY <4>1, <4>2
    <3> QED
      BY <2>0, <3>1, <3>2, <3>3
  <2> QED
    BY <2>2, <2>3
<1>5. OwnedIn(w)
  BY <1>4 DEF OwnedIn
<1> QED
  BY <1>2, <1>3, <1>5 DEF Sound

(* query_free keeps the invariant, whatever becomes of the descriptor.     *)
LEMMA FreeQueryOK ==
  ASSUME NEW u, Sound(u), NEW i \in Slot
  PROVE  /\ Sound(FreeQuery(u, i))
         /\ FreeQuery(u, i).query = [u.query EXCEPT ![i] = Idle]
         /\ FreeQuery(u, i).unread = u.unread /\ FreeQuery(u, i).cache = u.cache
         /\ FreeQuery(u, i).lost = u.lost
         /\ u.end # "dead" => FreeQuery(u, i).end # "dead"
<1> DEFINE f == u.query[i].sock
           v == IF f = 0 THEN u
                ELSE IF KindOf(u, i) \in {"forward", "reverse"} THEN Close(u, f) ELSE Shut(u, f)
           w == FreeQuery(u, i)
<1>0. u \in UState /\ f \in Fd \cup {0}
  BY ServauthAssumption DEF ServauthAssumption, Sound, UState, QueryBlock, Fd
<1>1. /\ v \in UState /\ v.query = u.query /\ v.unread = u.unread /\ v.cache = u.cache
      /\ v.lost = u.lost /\ (u.end # "dead" => v.end # "dead")
  BY <1>0, CloseShape, ShutShape, ZenonT(60)
<1>2. ~u.lost => /\ v.end = u.end
                 /\ f = 0 => v.owner = u.owner /\ v.io = u.io
                 /\ f # 0 => /\ v.owner = [u.owner EXCEPT ![f] = 0]
                             /\ \A g \in Fd \ {f} : v.io[g] = u.io[g]
  <2> SUFFICES ASSUME ~u.lost
               PROVE  /\ v.end = u.end
                      /\ f = 0 => v.owner = u.owner /\ v.io = u.io
                      /\ f # 0 => /\ v.owner = [u.owner EXCEPT ![f] = 0]
                                  /\ \A g \in Fd \ {f} : v.io[g] = u.io[g]
    OBVIOUS
  <2>1. CASE f = 0
    BY <2>1
  <2>2. CASE f # 0
    <3>1. f \in Fd
      BY <1>0, <2>2
    <3>2. u.io[f] = "open"
      <4>1. u.owner[f] = i
        BY <3>1 DEF Sound, OwnedIn
      <4>2. i # 0
        BY DEF Slot
      <4> QED
        BY <3>1, <4>1, <4>2 DEF Sound, OwnedIn
    <3>3. v = Close(u, f) \/ v = Shut(u, f)
      BY <2>2
    <3>4. u.io \in [Fd -> {"none", "open", "shut"}]
      BY <1>0 DEF UState
    <3> HIDE DEF v, f
    <3>5. /\ v.end = u.end /\ v.owner = [u.owner EXCEPT ![f] = 0]
          /\ \E x : v.io = [u.io EXCEPT ![f] = x]
      <4>1. CASE v = Close(u, f)
        BY <1>0, <3>1, <4>1, CloseShape
      <4>2. CASE v = Shut(u, f)
        BY <1>0, <3>1, <3>2, <4>2, ShutShape
      <4> QED
        BY <3>3, <4>1, <4>2
    <3> QED
      BY <2>2, <3>1, <3>4, <3>5
  <2> QED
    BY <2>1, <2>2
<1>3. w = [v EXCEPT !.query[i] = Idle]
  BY DEF FreeQuery
<1> HIDE DEF v, w
<1>4. [v.query EXCEPT ![i] = Idle] \in [Slot -> QueryBlock]
  BY <1>1, QueryEx, IdleType, Zenon
<1>5. w \in UState
  BY <1>1, <1>3, <1>4 DEF UState
<1>6. /\ w.query = [v.query EXCEPT ![i] = Idle] /\ w.unread = v.unread /\ w.cache = v.cache
      /\ w.lost = v.lost /\ w.end = v.end /\ w.owner = v.owner /\ w.io = v.io
  BY <1>1, <1>3 DEF UState
<1>7. Sound(w)
  <2>1. /\ w.query = [u.query EXCEPT ![i] = Idle]
        /\ w.unread = u.unread /\ w.cache = u.cache /\ w.lost = u.lost
    BY <1>1, <1>6, Zenon
  <2>2. ~u.lost => /\ w.end = u.end
                   /\ u.query[i].sock = 0 => w.owner = u.owner /\ w.io = u.io
                   /\ u.query[i].sock # 0 =>
                        /\ w.owner = [u.owner EXCEPT ![u.query[i].sock] = 0]
                        /\ \A g \in Fd \ {u.query[i].sock} : w.io[g] = u.io[g]
    BY <1>2, <1>6, Zenon
  <2> HIDE DEF f
  <2> QED
    BY <1>5, <2>1, <2>2, Freed
<1> QED
  BY <1>1, <1>6, <1>7, Zenon DEF w

(* One cache changes (cache_*_put, cache_*_pick).                          *)
LEMMA CacheEx ==
  ASSUME NEW u, Sound(u), NEW k \in Cached, NEW c \in CacheBlock, CacheOK(c)
  PROVE  LET w == [u EXCEPT !.cache[k] = c]
         IN  /\ Sound(w) /\ w.cache = [u.cache EXCEPT ![k] = c]
             /\ w.query = u.query /\ w.unread = u.unread /\ w.said = u.said
             /\ w.end = u.end /\ w.lost = u.lost
<1> DEFINE w == [u EXCEPT !.cache[k] = c]
<1>0. u \in UState
  BY DEF Sound
<1>1. [u.cache EXCEPT ![k] = c] \in [Cached -> CacheBlock]
  BY <1>0, UFields
<1>2. w \in UState
  BY <1>0, <1>1 DEF UState
<1>3. /\ w.cache = [u.cache EXCEPT ![k] = c]
      /\ w.query = u.query /\ w.unread = u.unread /\ w.said = u.said
      /\ w.end = u.end /\ w.lost = u.lost /\ w.io = u.io /\ w.owner = u.owner
  BY <1>0 DEF UState
<1> HIDE DEF w
<1>4. \A j \in Cached : CacheOK(w.cache[j])
  BY <1>0, <1>3, UFields DEF Sound
<1>5. Single(w) /\ OwnedIn(w) /\ \A i \in Slot : w.query[i].ask = None => w.query[i] = Idle
  BY <1>3 DEF Single, OwnedIn, Sound
<1> QED
  BY <1>2, <1>3, <1>4, <1>5 DEF Sound, w

(* What the step answers.                                                  *)
LEMMA SaidEx ==
  ASSUME NEW u, Sound(u), NEW x \in (Question \X Verdict) \cup {None}
  PROVE  LET w == [u EXCEPT !.said = x]
         IN  /\ Sound(w) /\ w.said = x
             /\ w.query = u.query /\ w.unread = u.unread /\ w.cache = u.cache
             /\ w.end = u.end /\ w.lost = u.lost /\ w.owner = u.owner
<1> DEFINE w == [u EXCEPT !.said = x]
<1>0. u \in UState
  BY DEF Sound
<1>2. w \in UState
  BY <1>0 DEF UState
<1>3. /\ w.said = x /\ w.cache = u.cache
      /\ w.query = u.query /\ w.unread = u.unread
      /\ w.end = u.end /\ w.lost = u.lost /\ w.io = u.io /\ w.owner = u.owner
  BY <1>0 DEF UState
<1> HIDE DEF w
<1>5. Single(w) /\ OwnedIn(w) /\ \A i \in Slot : w.query[i].ask = None => w.query[i] = Idle
  BY <1>3 DEF Single, OwnedIn, Sound
<1> QED
  BY <1>2, <1>3, <1>5 DEF Sound, w

(* One more entry at the end of a cache, or a new one in an old one's place.  *)
LEMMA Appended ==
  ASSUME NEW c \in CacheBlock, CacheOK(c), Len(c.at) < CacheSize, NEW fact \in Fact
  PROVE  LET d == [at |-> Append(c.at, fact), age |-> Append(c.age, Len(c.at) + 1)]
         IN  /\ d \in CacheBlock /\ CacheOK(d)
             /\ \A x \in Range(d.at) : x \in Range(c.at) \/ x = fact
<1> DEFINE d == [at |-> Append(c.at, fact), age |-> Append(c.age, Len(c.at) + 1)]
           s == c.age
           t == c.at
           m == Len(t)
<1>0. s \in Seq(Nat) /\ t \in Seq(Fact) /\ m \in Nat /\ DOMAIN t = 1 .. m /\ m + 1 <= CacheSize
  BY ServauthAssumption DEF ServauthAssumption, CacheBlock
<1>1. Range(s) \subseteq 1 .. m /\ \A i, j \in DOMAIN s : s[i] = s[j] => i = j
  BY <1>0 DEF CacheOK
<1>2. d.at = Append(t, fact) /\ d.age = Append(s, m + 1) /\ d \in CacheBlock
  BY <1>0 DEF CacheBlock
<1> HIDE DEF d, s, t, m
<1>3. /\ Len(d.at) = m + 1 /\ DOMAIN d.at = 1 .. m + 1 /\ DOMAIN t = 1 .. m
      /\ \A i \in 1 .. m : d.at[i] = t[i]
      /\ d.at[m + 1] = fact
  BY <1>0, <1>2 DEF m
<1>4. /\ Range(d.age) = Range(s) \cup {m + 1}
      /\ \A i, j \in DOMAIN d.age : d.age[i] = d.age[j] => i = j
  <2>1. m + 1 \in Nat /\ m + 1 \notin Range(s)
    BY <1>0, <1>1
  <2> QED
    BY <1>0, <1>1, <1>2, <2>1, NewAtEnd
<1>5. Range(d.age) \subseteq DOMAIN d.at
  <2>1. 1 .. m \subseteq 1 .. m + 1 /\ m + 1 \in 1 .. m + 1
    BY <1>0
  <2> QED
    BY <1>1, <1>3, <1>4, <2>1
<1>6. ASSUME NEW x \in Range(d.at) PROVE x \in Range(t) \/ x = fact
  <2>1. PICK j \in 1 .. m + 1 : d.at[j] = x
    BY <1>3, InRange, ZenonT(60)
  <2>2. CASE j = m + 1
    BY <1>3, <2>1, <2>2
  <2>3. CASE j # m + 1
    <3>1. j \in 1 .. m /\ t[j] = x
      BY <1>0, <1>3, <2>1, <2>3
    <3> QED
      BY <1>3, <3>1, InRange, Zenon
  <2> QED
    BY <2>2, <2>3
<1>7. CacheOK(d)
  BY <1>0, <1>3, <1>4, <1>5 DEF CacheOK
<1> QED
  BY <1>2, <1>6, <1>7 DEF d, t, s, m

(* cache_*_entry_new when the cache is full.                               *)
LEMMA Replaced ==
  ASSUME NEW c \in CacheBlock, CacheOK(c), NEW i \in DOMAIN c.at, NEW fact \in Fact
  PROVE  LET d == Used([c EXCEPT !.at[i] = fact], i)
         IN  /\ d \in CacheBlock /\ CacheOK(d)
             /\ \A x \in Range(d.at) : x \in Range(c.at) \/ x = fact
<1> DEFINE e == [c EXCEPT !.at[i] = fact]
           t == [c.at EXCEPT ![i] = fact]
<1>1. t \in Seq(Fact) /\ Len(t) = Len(c.at) /\ DOMAIN t = DOMAIN c.at
  BY DEF CacheBlock
<1>2. e \in CacheBlock /\ e.at = t /\ e.age = c.age
  <2>1. e = [c EXCEPT !.at = t]
    BY DEF CacheBlock
  <2> HIDE DEF e, t
  <2> QED
    BY <1>1, <2>1 DEF CacheBlock
<1> HIDE DEF e
<1>3. CacheOK(e) /\ i \in DOMAIN e.at
  BY <1>1, <1>2 DEF CacheOK
<1>4. Used(e, i) \in CacheBlock /\ CacheOK(Used(e, i)) /\ Used(e, i).at = t
  BY <1>2, <1>3, UsedFacts
<1>5. ASSUME NEW x \in Range(t) PROVE x \in Range(c.at) \/ x = fact
  <2>1. PICK j \in DOMAIN c.at : t[j] = x
    BY <1>1, InRange, ZenonT(60)
  <2>2. t[j] = c.at[j] \/ t[j] = fact
    OBVIOUS
  <2> QED
    BY <2>1, <2>2, InRange, Zenon
<1> QED
  BY <1>4, <1>5 DEF e

\* What cache_*_put changes.
Puts(u, w, kind, fact) ==
  /\ w.query = u.query /\ w.unread = u.unread /\ w.said = u.said
  /\ w.end = u.end /\ w.lost = u.lost
  /\ \A k \in Cached \ {kind} : w.cache[k] = u.cache[k]
  /\ \A x \in Range(w.cache[kind].at) : x \in Range(u.cache[kind].at) \/ x = fact

(* cache_*_put, whether there is room, something to give up, or neither.   *)
LEMMA PutOK ==
  ASSUME NEW u, Sound(u), NEW kind \in Cached, NEW fact \in Fact
  PROVE  \/ Put(u, kind, fact) = Dead
         \/ Sound(Put(u, kind, fact)) /\ Puts(u, Put(u, kind, fact), kind, fact)
<1> DEFINE c == u.cache[kind]
           w == Put(u, kind, fact)
<1>1. c \in CacheBlock /\ CacheOK(c) /\ u.cache \in [Cached -> CacheBlock]
  BY DEF Sound, UState
<1>2. ASSUME NEW d \in CacheBlock, CacheOK(d), w = [u EXCEPT !.cache[kind] = d],
             \A x \in Range(d.at) : x \in Range(c.at) \/ x = fact
      PROVE  Sound(w) /\ Puts(u, w, kind, fact)
  <2> HIDE DEF w
  <2>1. /\ Sound(w) /\ w.cache = [u.cache EXCEPT ![kind] = d]
        /\ w.query = u.query /\ w.unread = u.unread /\ w.said = u.said
        /\ w.end = u.end /\ w.lost = u.lost
    BY <1>2, CacheEx
  <2>2. w.cache[kind] = d /\ \A k \in Cached \ {kind} : w.cache[k] = u.cache[k]
    BY <1>1, <2>1
  <2> QED
    BY <1>2, <2>1, <2>2, Zenon DEF Puts
<1>3. CASE Len(c.at) < CacheSize
  <2> DEFINE d == [at |-> Append(c.at, fact), age |-> Append(c.age, Len(c.at) + 1)]
  <2>1. w = [u EXCEPT !.cache[kind] = d]
    BY <1>3 DEF Put
  <2>2. /\ d \in CacheBlock /\ CacheOK(d)
        /\ \A x \in Range(d.at) : x \in Range(c.at) \/ x = fact
    BY <1>1, <1>3, Appended
  <2> HIDE DEF w, d
  <2> QED
    BY <1>2, <2>1, <2>2 DEF w
<1>4. CASE ~(Len(c.at) < CacheSize) /\ Victims(kind, c) = {}
  BY <1>4, Zenon DEF Put
<1>5. CASE ~(Len(c.at) < CacheSize) /\ Victims(kind, c) # {}
  <2> DEFINE i == CHOOSE v \in Victims(kind, c) : TRUE
             d == Used([c EXCEPT !.at[i] = fact], i)
  <2>1. w = [u EXCEPT !.cache[kind] = d]
    BY <1>5, Zenon DEF Put
  <2>2. i \in Victims(kind, c)
    BY <1>5, Zenon
  <2>3. i \in DOMAIN c.at
    BY <2>2, Zenon DEF Victims
  <2> HIDE DEF i
  <2>4. /\ d \in CacheBlock /\ CacheOK(d)
        /\ \A x \in Range(d.at) : x \in Range(c.at) \/ x = fact
    BY <1>1, <2>3, Replaced
  <2> HIDE DEF w, d
  <2> QED
    BY <1>2, <2>1, <2>4 DEF w
<1> QED
  BY <1>3, <1>4, <1>5

-----------------------------------------------------------------------------
(* The end of a query.                                                     *)

\* What the process remembers, as HelperPromise has it.
Facts(u) ==
  UNION {{<<<<k, fact[1]>>, fact[2]>> : fact \in Range(u.cache[k].at)} : k \in Cached}

\* Query i ends with answer v.
Ends(u, w, i, v) ==
  LET q == u.query[i].ask
  IN  /\ w.query = [u.query EXCEPT ![i] = Idle] /\ w.unread = u.unread
      /\ w.said = <<q, v>> /\ w.end # "dead"
      /\ Facts(w) \subseteq Facts(u) \cup {<<<<Kind[q], About[q]>>, v>>}

(* What an entry of a cache stands for.                                    *)
LEMMA InFacts ==
  ASSUME NEW u
  PROVE  \A x : x \in Facts(u) <=>
           \E k \in Cached : \E fact \in Range(u.cache[k].at) : x = <<<<k, fact[1]>>, fact[2]>>
  BY DEF Facts

(* Only the caches count.                                                  *)
LEMMA SameFacts ==
  ASSUME NEW u, NEW w, u.cache = w.cache
  PROVE  Facts(u) = Facts(w)
  BY DEF Facts

(* A new entry adds what it stands for, and nothing else.                  *)
LEMMA PutFacts ==
  ASSUME NEW u, NEW w, NEW kind \in Cached, NEW a, NEW v, Puts(u, w, kind, <<a, v>>)
  PROVE  Facts(w) \subseteq Facts(u) \cup {<<<<kind, a>>, v>>}
<1> SUFFICES ASSUME NEW x \in Facts(w)
             PROVE  x \in Facts(u) \/ x = <<<<kind, a>>, v>>
  BY Zenon
<1>0. PICK k \in Cached : \E fact \in Range(w.cache[k].at) : x = <<<<k, fact[1]>>, fact[2]>>
  BY InFacts
<1>1. PICK fact \in Range(w.cache[k].at) : x = <<<<k, fact[1]>>, fact[2]>>
  BY <1>0
<1>2. fact \in Range(u.cache[k].at) \/ (k = kind /\ fact = <<a, v>>)
  <2>1. CASE k = kind
    <3>1. fact \in Range(w.cache[kind].at)
      BY <1>1, <2>1
    <3> QED
      BY <1>1, <2>1, <3>1, Zenon DEF Puts
  <2>2. CASE k # kind
    <3>1. w.cache[k] = u.cache[k]
      BY <2>2 DEF Puts
    <3> QED
      BY <1>1, <3>1
  <2> QED
    BY <2>1, <2>2
<1>3. CASE fact \in Range(u.cache[k].at)
  BY <1>1, <1>3, InFacts, Zenon
<1>4. CASE k = kind /\ fact = <<a, v>>
  BY <1>1, <1>4
<1> QED
  BY <1>2, <1>3, <1>4

(* query_*_done keeps the invariant, or the process does not survive it.   *)
LEMMA DoneOK ==
  ASSUME NEW u, Sound(u), u.end # "dead", NEW i \in Slot, NEW v \in Verdict,
         u.query[i].ask # None
  PROVE  \/ Done(u, i, v) = Dead
         \/ /\ Sound(Done(u, i, v)) /\ Ends(u, Done(u, i, v), i, v)
            /\ Done(u, i, v).lost = u.lost
<1> DEFINE q == u.query[i].ask
           keeps == Kind[q] \in {"reverse", "proxy"} \/ (Kind[q] = "auth" /\ v = "none")
           p == IF keeps THEN Put(u, Kind[q], <<About[q], v>>) ELSE u
           w == Done(u, i, v)
<1>0. q \in Question
  BY DEF Sound, UState, QueryBlock
<1>1. w = IF p.end = "dead" THEN p ELSE [FreeQuery(p, i) EXCEPT !.said = <<q, v>>]
  BY Zenon DEF Done, Kept, Released
<1>2. Dead.end = "dead"
  BY DEF Dead, Boot
<1>3. \/ p = Dead
      \/ /\ Sound(p) /\ p.query = u.query /\ p.unread = u.unread /\ p.end = u.end
         /\ p.lost = u.lost
         /\ Facts(p) \subseteq Facts(u) \cup {<<<<Kind[q], About[q]>>, v>>}
  <2>1. CASE keeps
    <3>1. Kind[q] \in Cached
      BY <2>1 DEF Cached
    <3>2. <<About[q], v>> \in Fact
      BY <1>0 DEF Fact
    <3>3. p = Put(u, Kind[q], <<About[q], v>>)
      BY <2>1
    <3> HIDE DEF q, p, keeps
    <3>4. p = Dead \/ (Sound(p) /\ Puts(u, p, Kind[q], <<About[q], v>>))
      BY <3>1, <3>2, <3>3, PutOK
    <3>5. CASE Sound(p) /\ Puts(u, p, Kind[q], <<About[q], v>>)
      BY <3>1, <3>5, PutFacts, Zenon DEF Puts
    <3> QED
      BY <3>4, <3>5
  <2>2. CASE ~keeps
    <3>1. p = u
      BY <2>2, Zenon
    <3> QED
      BY <3>1, Zenon
  <2> QED
    BY <2>1, <2>2, Zenon
<1> HIDE DEF p, w, q, keeps
<1>4. CASE p = Dead
  BY <1>1, <1>2, <1>4 DEF w
<1>5. CASE p # Dead
  <2> DEFINE y == FreeQuery(p, i)
  <2>1. /\ Sound(p) /\ p.query = u.query /\ p.unread = u.unread /\ p.end = u.end
        /\ p.lost = u.lost
        /\ Facts(p) \subseteq Facts(u) \cup {<<<<Kind[q], About[q]>>, v>>}
    BY <1>3, <1>5, Zenon
  <2>2. /\ Sound(y) /\ y.query = [p.query EXCEPT ![i] = Idle]
        /\ y.unread = p.unread /\ y.cache = p.cache /\ y.lost = p.lost /\ y.end # "dead"
    BY <2>1, FreeQueryOK, ZenonT(60)
  <2>3. w = [y EXCEPT !.said = <<q, v>>]
    BY <1>1, <2>1, Zenon
  <2> HIDE DEF y
  <2>4. <<q, v>> \in (Question \X Verdict) \cup {None}
    BY <1>0
  <2>5. /\ Sound(w) /\ w.said = <<q, v>> /\ w.query = y.query /\ w.unread = y.unread
        /\ w.cache = y.cache /\ w.end = y.end /\ w.lost = y.lost
    BY <2>2, <2>3, <2>4, SaidEx
  <2>6. Facts(w) = Facts(p)
    BY <2>2, <2>5, SameFacts
  <2>7. Ends(u, w, i, v)
    BY <2>1, <2>2, <2>5, <2>6, Zenon DEF Ends, q
  <2> QED
    BY <2>1, <2>2, <2>5, <2>7, Zenon DEF w
<1> QED
  BY <1>4, <1>5

(* io_handle_fd after query_*_done: the descriptor it closes is nobody's.  *)
LEMMA DoneByEventOK ==
  ASSUME NEW u, Sound(u), u.end # "dead", NEW i \in Slot, NEW v \in Verdict,
         u.query[i].ask # None
  PROVE  LET w == DoneByEvent(u, i, v)
         IN  w = Dead \/ (Sound(w) /\ Ends(u, w, i, v))
<1> DEFINE f == u.query[i].sock
           y == Done(u, i, v)
           w == DoneByEvent(u, i, v)
<1>1. \/ y = Dead
      \/ Sound(y) /\ Ends(u, y, i, v) /\ y.lost = u.lost
  BY DoneOK, Zenon
<1>2. w = IF y.end = "dead" THEN y ELSE Close(y, f)
  BY Zenon DEF DoneByEvent
<1> HIDE DEF w, y
<1>3. CASE y = Dead
  <2>1. Dead.end = "dead"
    BY DEF Dead, Boot
  <2> QED
    BY <1>2, <1>3, <2>1 DEF w
<1>4. CASE Sound(y) /\ Ends(u, y, i, v) /\ y.lost = u.lost
  <2>0. w = Close(y, f) /\ f \in Fd \cup {0} /\ y \in UState
    BY <1>2, <1>4, ServauthAssumption DEF ServauthAssumption, Ends, Sound, UState, QueryBlock, Fd
  <2>1. CASE f = 0
    <3>1. w = y
      BY <2>0, <2>1 DEF Close
    <3> QED
      BY <1>4, <3>1 DEF w
  <2>2. CASE f # 0
    <3>0. f \in Fd
      BY <2>0, <2>2
    <3> HIDE DEF f
    <3>1. /\ w \in UState /\ w.io = [y.io EXCEPT ![f] = "none"]
          /\ w.owner = [y.owner EXCEPT ![f] = 0]
          /\ w.query = y.query /\ w.unread = y.unread
          /\ w.cache = y.cache /\ w.said = y.said /\ w.end = y.end /\ w.lost = y.lost
      BY <2>0, <3>0, CloseShape
    <3>2. y.owner \in [Fd -> 0 .. MaxQueries] /\ y.io \in [Fd -> {"none", "open", "shut"}]
      BY <2>0 DEF UState
    <3>3. ~y.lost => y.owner[f] = 0
      <4> SUFFICES ASSUME ~y.lost PROVE y.owner[f] = 0
        OBVIOUS
      <4>1. \A j \in Slot : y.query[j].sock # f
        <5>1. y.query = [u.query EXCEPT ![i] = Idle] /\ u.query \in [Slot -> QueryBlock]
          BY <1>4 DEF Ends, Sound, UState
        <5>2. \A j \in Slot : u.owner[f] = j <=> u.query[j].sock = f
          BY <1>4, <3>0 DEF Sound, OwnedIn
        <5>3. u.owner[f] = i
          BY <5>2 DEF f
        <5>4. ASSUME NEW j \in Slot, j # i PROVE u.query[j].sock # f
          BY <5>2, <5>3, <5>4
        <5> QED
          BY <2>2, <5>1, <5>4, IdleType
      <4>2. \A j \in Slot : y.owner[f] # j
        BY <1>4, <3>0, <4>1 DEF Sound, OwnedIn
      <4> QED
        BY <3>0, <3>2, <4>2, ServauthAssumption DEF ServauthAssumption, Slot
    <3>4. OwnedIn(w)
      <4> SUFFICES ASSUME ~w.lost
                   PROVE  /\ w.end # "deaf"
                          /\ \A j \in Slot, g \in Fd : w.owner[g] = j <=> w.query[j].sock = g
                          /\ \A g \in Fd : w.owner[g] # 0 => w.io[g] = "open"
        BY DEF OwnedIn
      <4>1. w.owner = y.owner
        BY <3>0, <3>1, <3>2, <3>3
      <4>2. \A g \in Fd \ {f} : w.io[g] = y.io[g]
        BY <3>0, <3>1, <3>2
      <4> QED
        BY <1>4, <3>1, <3>3, <4>1, <4>2 DEF Sound, OwnedIn
    <3>5. Single(w) /\ (\A j \in Slot : w.query[j].ask = None => w.query[j] = Idle)
          /\ \A k \in Cached : CacheOK(w.cache[k])
      BY <1>4, <3>1 DEF Sound, Single
    <3>6. Ends(u, w, i, v)
      <4>1. Facts(w) = Facts(y)
        BY <3>1, SameFacts
      <4> QED
        BY <1>4, <3>1, <4>1, Zenon DEF Ends
    <3> QED
      BY <3>1, <3>4, <3>5, <3>6 DEF Sound, w
  <2> QED
    BY <2>1, <2>2
<1> QED
  BY <1>1, <1>3, <1>4

-----------------------------------------------------------------------------
(* The start of a query.                                                   *)

\* Query i has no socket of its own yet, or not any more.
Almost(u, i) ==
  /\ u \in UState /\ Single(u) /\ u.query[i].ask # None
  /\ \A k \in Cached : CacheOK(u.cache[k])
  /\ \A j \in Slot : u.query[j].ask = None => u.query[j] = Idle
  /\ ~u.lost => /\ u.end # "deaf"
                /\ \A j \in Slot \ {i}, f \in Fd : u.owner[f] = j <=> u.query[j].sock = f
                /\ \A f \in Fd : u.owner[f] # i
                /\ \A f \in Fd : u.owner[f] # 0 => u.io[f] = "open"

\* The step has changed nothing but sockets.
Same(u, w) ==
  /\ w.unread = u.unread /\ w.cache = u.cache /\ w.said = u.said /\ w.end = u.end
  /\ \A j \in Slot : w.query[j].ask = u.query[j].ask

(* A descriptor is only taken when there is one (net_socket).              *)
LEMMA SocketsIn ==
  ASSUME NEW u, NEW f \in Sockets(u)
  PROVE  f \in Fd /\ u.io[f] = "none" /\ FreeFds(u) # {}
<1>1. FreeFds(u) # {} /\ f = Min(FreeFds(u))
  BY DEF Sockets
<1>2. FreeFds(u) \in SUBSET Nat
  BY ServauthAssumption DEF ServauthAssumption, FreeFds, Fd
<1>3. f \in FreeFds(u)
  BY <1>1, <1>2, MinIn
<1> QED
  BY <1>1, <1>3, Zenon DEF FreeFds

(* Another part of a query.                                                *)
LEMMA QueryType ==
  ASSUME NEW b \in QueryBlock
  PROVE  /\ \A f \in Fd : /\ [b EXCEPT !.sock = f] \in QueryBlock
                          /\ [b EXCEPT !.sock = f].ask = b.ask /\ [b EXCEPT !.sock = f].sock = f
         /\ \A st \in QueryState : /\ [b EXCEPT !.st = st] \in QueryBlock
                                   /\ [b EXCEPT !.st = st].ask = b.ask
                                   /\ [b EXCEPT !.st = st].sock = b.sock
         /\ \A q \in Question : /\ [b EXCEPT !.ask = q] \in QueryBlock
                                /\ [b EXCEPT !.ask = q].ask = q
                                /\ [b EXCEPT !.ask = q].sock = b.sock
  BY ServauthAssumption DEF ServauthAssumption, QueryBlock, Fd

(* A query goes on to another state.                                       *)
LEMMA StateEx ==
  ASSUME NEW u \in UState, NEW i \in Slot, NEW st \in QueryState
  PROVE  LET w == [u EXCEPT !.query[i].st = st]
         IN  /\ w \in UState
             /\ \A j \in Slot : w.query[j].ask = u.query[j].ask /\ w.query[j].sock = u.query[j].sock
             /\ \A j \in Slot \ {i} : w.query[j] = u.query[j]
             /\ w.unread = u.unread /\ w.cache = u.cache /\ w.said = u.said /\ w.end = u.end
             /\ w.lost = u.lost /\ w.owner = u.owner /\ w.io = u.io
<1> DEFINE w == [u EXCEPT !.query[i].st = st]
           b == [u.query[i] EXCEPT !.st = st]
<1>0. u.query \in [Slot -> QueryBlock]
  BY DEF UState
<1>1. b \in QueryBlock /\ b.ask = u.query[i].ask /\ b.sock = u.query[i].sock
  BY <1>0, QueryType
<1>2. w = [u EXCEPT !.query = [u.query EXCEPT ![i] = b]]
  BY DEF UState
<1>3. [u.query EXCEPT ![i] = b] \in [Slot -> QueryBlock]
  BY <1>1, QueryEx
<1> HIDE DEF w, b
<1>4. w \in UState
  BY <1>2, <1>3 DEF UState
<1>5. /\ w.unread = u.unread /\ w.cache = u.cache /\ w.said = u.said /\ w.end = u.end
      /\ w.lost = u.lost /\ w.owner = u.owner /\ w.io = u.io
      /\ w.query = [u.query EXCEPT ![i] = b]
  BY <1>2 DEF UState
<1> QED
  BY <1>0, <1>1, <1>4, <1>5 DEF w

(* That has nothing to do with sockets.                                    *)
LEMMA StateAlmost ==
  ASSUME NEW u, NEW i \in Slot, NEW st \in QueryState, Almost(u, i)
  PROVE  LET w == [u EXCEPT !.query[i].st = st]
         IN  /\ Almost(w, i) /\ Same(u, w) /\ FreeFds(w) = FreeFds(u)
             /\ OwnedIn(u) => OwnedIn(w)
<1> DEFINE w == [u EXCEPT !.query[i].st = st]
<1>1. /\ w \in UState
      /\ \A j \in Slot : w.query[j].ask = u.query[j].ask /\ w.query[j].sock = u.query[j].sock
      /\ \A j \in Slot \ {i} : w.query[j] = u.query[j]
      /\ w.unread = u.unread /\ w.cache = u.cache /\ w.said = u.said /\ w.end = u.end
      /\ w.lost = u.lost /\ w.owner = u.owner /\ w.io = u.io
  BY StateEx DEF Almost
<1> HIDE DEF w
<1>2. Single(w)
  BY <1>1 DEF Single, Almost
<1>3. Almost(w, i)
  BY <1>1, <1>2 DEF Almost
<1>4. Same(u, w) /\ FreeFds(w) = FreeFds(u)
  BY <1>1 DEF Same, FreeFds
<1>5. OwnedIn(u) => OwnedIn(w)
  BY <1>1 DEF OwnedIn
<1> QED
  BY <1>3, <1>4, <1>5 DEF w

(* The connection is under way: query and descriptor have each other.      *)
LEMMA ConnectedOK ==
  ASSUME NEW u, NEW i \in Slot, NEW f \in Fd, Almost(u, i), u.io[f] = "none"
  PROVE  Sound(Connected(u, i, f)) /\ Same(u, Connected(u, i, f))
<1> DEFINE w == Connected(u, i, f)
           b == [u.query[i] EXCEPT !.sock = f]
<1>0. /\ u \in UState /\ u.query \in [Slot -> QueryBlock] /\ u.owner \in [Fd -> 0 .. MaxQueries]
      /\ u.io \in [Fd -> {"none", "open", "shut"}]
  BY DEF Almost, UState
<1>1. b \in QueryBlock /\ b.ask = u.query[i].ask /\ b.sock = f
  BY <1>0, QueryType
<1>2. w = [u EXCEPT !.query = [u.query EXCEPT ![i] = b], !.io = [u.io EXCEPT ![f] = "open"],
                    !.owner = [u.owner EXCEPT ![f] = i]]
  BY <1>0 DEF Connected, UState
<1>3. /\ [u.query EXCEPT ![i] = b] \in [Slot -> QueryBlock]
      /\ [u.io EXCEPT ![f] = "open"] \in [Fd -> {"none", "open", "shut"}]
      /\ [u.owner EXCEPT ![f] = i] \in [Fd -> 0 .. MaxQueries]
  BY <1>0, <1>1, QueryEx, ServauthAssumption DEF ServauthAssumption, Slot
<1> HIDE DEF w, b
<1>4. w \in UState
  BY <1>0, <1>2, <1>3 DEF UState
<1>5. /\ w.unread = u.unread /\ w.cache = u.cache /\ w.said = u.said /\ w.end = u.end
      /\ w.lost = u.lost /\ w.owner = [u.owner EXCEPT ![f] = i]
      /\ w.io = [u.io EXCEPT ![f] = "open"]
      /\ w.query = [u.query EXCEPT ![i] = b]
  BY <1>0, <1>2 DEF UState
<1>6. /\ \A j \in Slot : w.query[j].ask = u.query[j].ask
      /\ \A j \in Slot \ {i} : w.query[j] = u.query[j]
      /\ w.query[i].sock = f
  BY <1>0, <1>1, <1>5
<1>7. Single(w)
  BY <1>5, <1>6 DEF Single, Almost
<1>8. ASSUME ~w.lost
      PROVE  /\ w.end # "deaf"
             /\ \A j \in Slot, g \in Fd : w.owner[g] = j <=> w.query[j].sock = g
             /\ \A g \in Fd : w.owner[g] # 0 => w.io[g] = "open"
  <2>1. /\ u.end # "deaf"
        /\ \A j \in Slot \ {i}, g \in Fd : u.owner[g] = j <=> u.query[j].sock = g
        /\ \A g \in Fd : u.owner[g] # i
        /\ \A g \in Fd : u.owner[g] # 0 => u.io[g] = "open"
    BY <1>5, <1>8 DEF Almost
  <2>2. 0 \notin Slot
    BY DEF Slot
  <2>3. \A g \in Fd : w.owner[g] # 0 => w.io[g] = "open"
    BY <1>0, <1>5, <2>1
  <2>4. ASSUME NEW j \in Slot, NEW g \in Fd
        PROVE  w.owner[g] = j <=> w.query[j].sock = g
    <3>1. CASE g = f /\ j = i
      BY <1>0, <1>5, <1>6, <3>1
    <3>2. CASE g = f /\ j # i
      BY <1>0, <1>5, <1>6, <2>1, <2>2, <3>2
    <3>3. CASE g # f /\ j = i
      BY <1>0, <1>5, <1>6, <2>1, <3>3
    <3>4. CASE g # f /\ j # i
      BY <1>0, <1>5, <1>6, <2>1, <3>4
    <3> QED
      BY <3>1, <3>2, <3>3, <3>4
  <2> QED
    BY <1>5, <2>1, <2>3, <2>4
<1>9. Sound(w)
  BY <1>4, <1>5, <1>6, <1>7, <1>8 DEF Sound, OwnedIn, Almost
<1> QED
  BY <1>5, <1>6, <1>9 DEF Same, w

(* The connection has failed at once: the query is lost.                   *)
LEMMA UnconnectedOK ==
  ASSUME NEW u, NEW i \in Slot, NEW f \in Fd, Almost(u, i)
  PROVE  Sound(Unconnected(u, i, f)) /\ Same(u, Unconnected(u, i, f))
<1> DEFINE w == Unconnected(u, i, f)
           b == [u.query[i] EXCEPT !.sock = f]
<1>0. u \in UState /\ u.query \in [Slot -> QueryBlock]
  BY DEF Almost, UState
<1>1. b \in QueryBlock /\ b.ask = u.query[i].ask
  BY <1>0, QueryType
<1>2. w = [u EXCEPT !.query = [u.query EXCEPT ![i] = b], !.lost = TRUE]
  BY <1>0 DEF Unconnected, UState
<1>3. [u.query EXCEPT ![i] = b] \in [Slot -> QueryBlock]
  BY <1>0, <1>1, QueryEx
<1> HIDE DEF w, b
<1>4. w \in UState
  BY <1>0, <1>2, <1>3 DEF UState
<1>5. /\ w.unread = u.unread /\ w.cache = u.cache /\ w.said = u.said /\ w.end = u.end
      /\ w.lost = TRUE /\ w.query = [u.query EXCEPT ![i] = b]
  BY <1>0, <1>2 DEF UState
<1>6. /\ \A j \in Slot : w.query[j].ask = u.query[j].ask
      /\ \A j \in Slot \ {i} : w.query[j] = u.query[j]
  BY <1>0, <1>1, <1>5
<1>7. Single(w)
  BY <1>5, <1>6 DEF Single, Almost
<1>9. Sound(w)
  BY <1>4, <1>5, <1>6, <1>7 DEF Sound, OwnedIn, Almost
<1> QED
  BY <1>5, <1>6, <1>9 DEF Same, w

\* The step has begun to look q up.
Looks(u, w, q) ==
  /\ w.unread = u.unread /\ w.cache = u.cache /\ w.said = u.said /\ w.end = u.end
  /\ \E i \in Slot : /\ u.query[i].ask = None /\ w.query[i].ask = q
                     /\ \A j \in Slot \ {i} : w.query[j].ask = u.query[j].ask

(* dns_start: a socket that is under way, one that failed, or none.        *)
LEMMA StartDnsOK ==
  ASSUME NEW u, NEW i \in Slot, Almost(u, i), FreeFds(u) = {} => OwnedIn(u),
         NEW st \in QueryState, NEW w \in StartDns(u, i, st)
  PROVE  Sound(w) /\ Same(u, w)
<1> DEFINE v == [u EXCEPT !.query[i].st = st]
           x == [u EXCEPT !.query[i].st = "tcp"]
<1>1. \/ Sockets(u) = {} /\ w = x
      \/ \E f \in Sockets(u) : w = Connected(v, i, f) \/ w = Unconnected(v, i, f)
  BY DEF StartDns
<1>2. Almost(v, i) /\ Same(u, v) /\ FreeFds(v) = FreeFds(u)
  BY StateAlmost
<1>3. "tcp" \in QueryState
  BY DEF QueryState
<1>4. Almost(x, i) /\ Same(u, x) /\ (OwnedIn(u) => OwnedIn(x))
  BY <1>3, StateAlmost
<1> HIDE DEF v, x
<1>5. CASE Sockets(u) = {} /\ w = x
  <2>1. OwnedIn(x)
    BY <1>4, <1>5 DEF Sockets
  <2> QED
    BY <1>4, <1>5, <2>1 DEF Sound, Almost
<1>6. CASE \E f \in Sockets(u) : w = Connected(v, i, f) \/ w = Unconnected(v, i, f)
  <2>1. PICK f \in Sockets(u) : w = Connected(v, i, f) \/ w = Unconnected(v, i, f)
    BY <1>6
  <2>2. f \in FreeFds(u)
    BY <2>1, SocketsIn DEF FreeFds
  <2>3. f \in Fd /\ v.io[f] = "none"
    BY <1>2, <2>2 DEF FreeFds
  <2>4. Sound(w) /\ Same(v, w)
    BY <1>2, <2>1, <2>3, ConnectedOK, UnconnectedOK
  <2> QED
    BY <1>2, <2>4 DEF Same
<1> QED
  BY <1>1, <1>5, <1>6

(* auth_lookup, proxy_connect.                                             *)
LEMMA StartTcpOK ==
  ASSUME NEW u, NEW i \in Slot, Almost(u, i), NEW w \in StartTcp(u, i)
  PROVE  w = Dead \/ (Sound(w) /\ Same(u, w))
<1> DEFINE v == [u EXCEPT !.query[i].st = "connecting"]
<1>1. w = Dead \/ \E f \in Sockets(u) : w = Connected(v, i, f)
  BY DEF StartTcp
<1>3. "connecting" \in QueryState
  BY DEF QueryState
<1>2. Almost(v, i) /\ Same(u, v) /\ FreeFds(v) = FreeFds(u)
  BY <1>3, StateAlmost
<1> HIDE DEF v
<1>6. CASE \E f \in Sockets(u) : w = Connected(v, i, f)
  <2>1. PICK f \in Sockets(u) : w = Connected(v, i, f)
    BY <1>6
  <2>2. f \in FreeFds(u)
    BY <2>1, SocketsIn DEF FreeFds
  <2>3. f \in Fd /\ v.io[f] = "none"
    BY <1>2, <2>2 DEF FreeFds
  <2>4. Sound(w) /\ Same(v, w)
    BY <1>2, <2>1, <2>3, ConnectedOK
  <2> QED
    BY <1>2, <2>4 DEF Same
<1> QED
  BY <1>1, <1>6

(* query_start, for a question that is nowhere else.                       *)
LEMMA StartOK ==
  ASSUME NEW u, Sound(u), NEW i \in Slot, u.query[i].ask = None,
         NEW q \in Question, q \notin Range(u.unread),
         \A j \in Slot : u.query[j].ask # q, NEW w \in Start(u, i, q)
  PROVE  w = Dead \/ (Sound(w) /\ Looks(u, w, q))
<1> DEFINE v == [u EXCEPT !.query[i].ask = q]
           b == [u.query[i] EXCEPT !.ask = q]
<1>0. /\ u \in UState /\ u.query \in [Slot -> QueryBlock] /\ q # None
      /\ u.query[i] = Idle
  BY ServauthAssumption DEF ServauthAssumption, Sound, UState
<1>1. b \in QueryBlock /\ b.ask = q /\ b.sock = 0
  BY <1>0, QueryType, IdleType
<1>2. v = [u EXCEPT !.query = [u.query EXCEPT ![i] = b]]
  BY <1>0 DEF UState
<1>3. [u.query EXCEPT ![i] = b] \in [Slot -> QueryBlock]
  BY <1>0, <1>1, QueryEx
<1>4. w \in IF Kind[q] \in {"forward", "reverse"} THEN StartDns(v, i, "udp") ELSE StartTcp(v, i)
  BY DEF Start
<1> HIDE DEF v, b
<1>5. v \in UState
  BY <1>0, <1>2, <1>3 DEF UState
<1>6. /\ v.unread = u.unread /\ v.cache = u.cache /\ v.said = u.said /\ v.end = u.end
      /\ v.lost = u.lost /\ v.owner = u.owner /\ v.io = u.io
      /\ v.query = [u.query EXCEPT ![i] = b]
  BY <1>0, <1>2 DEF UState
<1>7. /\ v.query[i].ask = q /\ v.query[i].sock = 0
      /\ \A j \in Slot \ {i} : v.query[j] = u.query[j]
  BY <1>0, <1>1, <1>6
<1>8. Single(v)
  BY <1>0, <1>6, <1>7 DEF Sound, Single
<1>9. OwnedIn(v)
  <2>1. u.query[i].sock = 0
    BY <1>0, IdleType
  <2> QED
    BY <1>6, <1>7, <2>1 DEF Sound, OwnedIn
<1>10. Almost(v, i)
  <2>1. \A f \in Fd : f # 0
    BY DEF Fd
  <2> QED
    BY <1>0, <1>5, <1>6, <1>7, <1>8, <1>9, <2>1 DEF Almost, OwnedIn, Sound
<1>11. w = Dead \/ (Sound(w) /\ Same(v, w))
  <2>1. "udp" \in QueryState
    BY DEF QueryState
  <2>2. CASE w \in StartDns(v, i, "udp")
    BY <1>9, <1>10, <2>1, <2>2, StartDnsOK
  <2>3. CASE w \in StartTcp(v, i)
    BY <1>10, <2>3, StartTcpOK
  <2> QED
    BY <1>4, <2>2, <2>3
<1>12. Same(v, w) => Looks(u, w, q)
  BY <1>6, <1>7 DEF Same, Looks
<1> QED
  BY <1>11, <1>12

\* A question that is nowhere in u, and may be read.
Fresh(u, q) ==
  q \in Question /\ q \notin Range(u.unread) /\ \A j \in Slot : u.query[j].ask # q

(* A query that begins, one that cannot.                                   *)
LEMMA BeginOK ==
  ASSUME NEW u, Sound(u), NEW q, Fresh(u, q), NEW w \in Begin(u, q)
  PROVE  w = Dead \/ (Sound(w) /\ Looks(u, w, q))
<1> DEFINE free == {i \in Slot : u.query[i].ask = None}
           i == Min(free)
<1>1. CASE free = {}
  BY <1>1 DEF Begin
<1>2. CASE free # {}
  <2>1. w \in Start(u, i, q)
    BY <1>2 DEF Begin
  <2>2. free \in SUBSET Nat
    BY ServauthAssumption DEF ServauthAssumption, Slot
  <2>3. i \in free
    <3> HIDE DEF free
    <3> QED
      BY <1>2, <2>2, MinIn
  <2>4. i \in Slot /\ u.query[i].ask = None
    BY <2>3, SMTT(40)
  <2> HIDE DEF i
  <2> QED
    BY <2>1, <2>4, StartOK DEF Fresh
<1> QED
  BY <1>1, <1>2

\* The step repeats an answer to a question about the same.
Repeats(u, w, q) ==
  /\ w.unread = u.unread /\ w.query = u.query /\ w.end = u.end
  /\ Facts(w) = Facts(u)
  /\ \E v \in Verdict : <<<<Kind[q], About[q]>>, v>> \in Facts(u) /\ w.said = <<q, v>>

(* cache_*_pick.                                                           *)
LEMMA FromCacheOK ==
  ASSUME NEW u, Sound(u), NEW q \in Question, Kind[q] \in Cached,
         NEW i \in Found(u.cache[Kind[q]], About[q]), NEW w \in FromCache(u, q, Kind[q], i)
  PROVE  Sound(w) /\ Repeats(u, w, q)
<1> DEFINE k == Kind[q]
           c == u.cache[k]
           d == Used(c, i)
           v == [u EXCEPT !.cache[k] = d]
           a == <<q, c.at[i][2]>>
<1>0. u \in UState /\ c \in CacheBlock /\ CacheOK(c) /\ u.cache \in [Cached -> CacheBlock] /\ k \in Cached
  BY DEF Sound, UState
<1>1. i \in DOMAIN c.at /\ c.at[i][1] = About[q]
  BY DEF Found
<1>2. c.at[i] \in Fact
  BY <1>0, <1>1 DEF CacheBlock
<1>3. /\ d \in CacheBlock /\ CacheOK(d) /\ d.at = c.at
  BY <1>0, <1>1, UsedFacts
<1>4. w = [v EXCEPT !.said = a]
  BY <1>0 DEF FromCache, UState
<1>5. c.at[i][2] \in Verdict /\ a \in (Question \X Verdict) \cup {None}
  BY <1>2 DEF Fact
<1> HIDE DEF v, d, a
<1>6. /\ Sound(v) /\ v.cache = [u.cache EXCEPT ![k] = d]
      /\ v.query = u.query /\ v.unread = u.unread /\ v.end = u.end
  BY <1>0, <1>3, CacheEx DEF v
<1>7. /\ Sound(w) /\ w.said = a /\ w.query = u.query /\ w.unread = u.unread
      /\ w.cache = v.cache /\ w.end = u.end
  BY <1>4, <1>5, <1>6, SaidEx
<1>8. \A j \in Cached : w.cache[j].at = u.cache[j].at
  BY <1>0, <1>3, <1>6, <1>7
<1>9. Facts(w) = Facts(u)
  BY <1>8 DEF Facts
<1>10. <<<<k, About[q]>>, c.at[i][2]>> \in Facts(u)
  <2>1. c.at[i] \in Range(c.at)
    BY <1>1, InRange, Zenon
  <2> QED
    BY <1>0, <1>1, <2>1, InFacts
<1> QED
  BY <1>5, <1>7, <1>9, <1>10 DEF Repeats, a

(* cmd_auth, cmd_dns_forward, cmd_dns_reverse, cmd_proxy.                  *)
LEMMA CommandOK ==
  ASSUME NEW u, Sound(u), NEW q, Fresh(u, q), NEW w \in Command(u, q)
  PROVE  w = Dead \/ (Sound(w) /\ (Looks(u, w, q) \/ Repeats(u, w, q)))
<1> DEFINE k == Kind[q]
           hits == IF k \in Cached THEN Found(u.cache[k], About[q]) ELSE {}
<1>1. CASE hits = {}
  <2>1. w \in Begin(u, q)
    BY <1>1 DEF Command
  <2> QED
    BY <2>1, BeginOK
<1>2. CASE hits # {}
  <2>1. w \in FromCache(u, q, k, Min(hits))
    BY <1>2 DEF Command
  <2>2. k \in Cached /\ hits = Found(u.cache[k], About[q])
    BY <1>2
  <2>3. u.cache[k] \in CacheBlock
    BY <2>2 DEF Sound, UState
  <2>4. hits \in SUBSET Nat
    BY <2>2, <2>3 DEF Found, CacheBlock
  <2> HIDE DEF hits
  <2>5. Min(hits) \in hits
    BY <1>2, <2>4, MinIn
  <2> QED
    BY <2>1, <2>2, <2>5, FromCacheOK DEF Fresh
<1> QED
  BY <1>1, <1>2

-----------------------------------------------------------------------------
(* The steps of the process.                                               *)

\* The step leads to u.
Becomes(u) ==
  /\ unread' = u.unread /\ query' = u.query /\ io' = u.io /\ owner' = u.owner
  /\ cache' = u.cache /\ said' = u.said /\ end' = u.end /\ lost' = u.lost

\* The line control_readable takes is gone.
Taken == [State EXCEPT !.unread = Tail(unread)]

\* What a step may do, as HelperPromise tells steps apart.
Move(u) ==
  \/ u \in {Boot, Dead}
  \/ \E q \in Question : Fresh(State, q) /\ u = [State EXCEPT !.unread = Append(unread, q)]
  \/ Same(State, u)
  \/ \E i \in Slot, v \in Verdict : State.query[i].ask # None /\ Ends(State, u, i, v)
  \/ /\ unread # <<>> /\ Fresh(Taken, Head(unread))
     /\ Looks(Taken, u, Head(unread)) \/ Repeats(Taken, u, Head(unread))

(* The state the operations start from.                                    *)
LEMMA StateSound ==
  ASSUME IInv
  PROVE  /\ Sound(State)
         /\ State.unread = unread /\ State.query = query /\ State.io = io /\ State.owner = owner
         /\ State.cache = cache /\ State.said = None /\ State.end = end /\ State.lost = lost
<1>1. Sound(Now)
  BY DEF IInv
<1>2. /\ Sound([Now EXCEPT !.said = None])
  BY <1>1, SaidEx
<1>3. State = [Now EXCEPT !.said = None]
  <2>1. Now = [unread |-> unread, query |-> query, io |-> io, owner |-> owner,
               cache |-> cache, said |-> said, end |-> end, lost |-> lost]
    BY DEF Now, State
  <2> QED
    BY <2>1 DEF State
<1> QED
  BY <1>2, <1>3 DEF State

(* A sound outcome is a sound next state.                                  *)
LEMMA BecomesSound ==
  ASSUME NEW u, Sound(u), Len(u.unread) <= MaxUnread, Becomes(u)
  PROVE  IInv'
<1>1. /\ Now'.unread = u.unread /\ Now'.query = u.query /\ Now'.io = u.io
      /\ Now'.owner = u.owner /\ Now'.cache = u.cache /\ Now'.said = u.said
      /\ Now'.end = u.end /\ Now'.lost = u.lost
  BY DEF Now, State, Becomes
<1>2. Now' \in UState
  <2>1. /\ u.unread \in Seq(Question) /\ u.query \in [Slot -> QueryBlock]
        /\ u.io \in [Fd -> {"none", "open", "shut"}] /\ u.owner \in [Fd -> 0 .. MaxQueries]
        /\ u.cache \in [Cached -> CacheBlock] /\ u.said \in (Question \X Verdict) \cup {None}
        /\ u.end \in {"alive", "dead", "deaf"} /\ u.lost \in BOOLEAN
    BY UFields DEF Sound
  <2>2. Now' = [unread |-> u.unread, query |-> u.query, io |-> u.io, owner |-> u.owner,
                cache |-> u.cache, said |-> u.said, end |-> u.end, lost |-> u.lost]
    BY DEF Now, State, Becomes
  <2> QED
    BY <2>1, <2>2 DEF UState
<1>3. Sound(Now')
  BY <1>1, <1>2 DEF Sound, Single, OwnedIn
<1>4. Len(unread') <= MaxUnread
  BY DEF Becomes
<1>5. Sound(Now)' <=> Sound(Now')
  BY DEF Sound, Single, OwnedIn, CacheOK, UState
<1> QED
  BY <1>3, <1>4, <1>5 DEF IInv

(* What one outcome is.                                                    *)
LEMMA BecomeOne ==
  ASSUME NEW S, Become(S)
  PROVE  \E u \in S : Becomes(u)
  BY DEF Become, Becomes

(* The line is taken out and looked at: it is nowhere else.                *)
LEMMA TakenFresh ==
  ASSUME IInv, unread # <<>>
  PROVE  /\ Sound(Taken) /\ Fresh(Taken, Head(unread))
         /\ Taken.unread = Tail(unread) /\ Len(Tail(unread)) <= MaxUnread
         /\ Taken.query = query /\ Taken.cache = cache /\ Taken.end = end
<1> DEFINE w == Taken
<1>0. /\ unread \in Seq(Question) /\ Len(unread) <= MaxUnread /\ Sound(State) /\ State \in UState
      /\ State.unread = unread /\ State.query = query /\ State.cache = cache /\ State.end = end
      /\ \A i, j \in DOMAIN unread : unread[i] = unread[j] => i = j
      /\ \A i \in Slot : query[i].ask \notin Range(unread)
  BY StateSound DEF IInv, Sound, Single, UState
<1>1. /\ Tail(unread) \in Seq(Question) /\ Head(unread) \in Question
      /\ Len(Tail(unread)) = Len(unread) - 1 /\ Len(unread) \in Nat /\ Len(unread) > 0
      /\ \A j \in 1 .. Len(unread) - 1 : Tail(unread)[j] = unread[j + 1]
      /\ DOMAIN unread = 1 .. Len(unread) /\ DOMAIN Tail(unread) = 1 .. Len(unread) - 1
      /\ Head(unread) = unread[1]
  BY <1>0
<1>2. w = [State EXCEPT !.unread = Tail(unread)]
  BY DEF Taken
<1> HIDE DEF w
<1>3. /\ w \in UState /\ w.unread = Tail(unread)
      /\ w.query = State.query /\ w.io = State.io /\ w.owner = State.owner
      /\ w.cache = State.cache /\ w.said = State.said /\ w.end = State.end /\ w.lost = State.lost
  BY <1>0, <1>1, <1>2 DEF UState
<1>4. \A i, j \in DOMAIN Tail(unread) : Tail(unread)[i] = Tail(unread)[j] => i = j
  BY <1>0, <1>1
<1>5. \A x \in Range(Tail(unread)) : x \in Range(unread) /\ x # Head(unread)
  <2> SUFFICES ASSUME NEW x \in Range(Tail(unread))
               PROVE  x \in Range(unread) /\ x # Head(unread)
    OBVIOUS
  <2>1. PICK j \in DOMAIN Tail(unread) : Tail(unread)[j] = x
    BY InRange, Zenon
  <2>2. j + 1 \in DOMAIN unread /\ unread[j + 1] = x /\ j + 1 # 1 /\ 1 \in DOMAIN unread
    BY <1>1, <2>1
  <2>3. x \in Range(unread)
    BY <2>2, InRange, Zenon
  <2>4. x # unread[1]
    BY <1>0, <2>2, Zenon
  <2> QED
    BY <1>1, <2>3, <2>4
<1>6. Single(w)
  BY <1>0, <1>3, <1>4, <1>5 DEF Single, Sound
<1>7. Sound(w)
  BY <1>0, <1>3, <1>6 DEF Sound, OwnedIn
<1>8. Head(unread) \in Range(unread)
  <2>1. 1 \in DOMAIN unread
    BY <1>1
  <2> QED
    BY <1>1, <2>1, InRange, Zenon
<1>9. Fresh(w, Head(unread))
  BY <1>0, <1>1, <1>3, <1>5, <1>8 DEF Fresh
<1> QED
  BY <1>0, <1>1, <1>3, <1>7, <1>9, ServauthAssumption DEF ServauthAssumption, w

\* What every step leaves behind.
Shape == \E u : Sound(u) /\ Len(u.unread) <= MaxUnread /\ Becomes(u) /\ Move(u)

(* The limit on the control connection is kept.                            *)
LEMMA Short ==
  ASSUME IInv
  PROVE  /\ Len(unread) <= MaxUnread
         /\ Sound(Boot) /\ Len(Boot.unread) <= MaxUnread
         /\ Sound(Dead) /\ Len(Dead.unread) <= MaxUnread
<1>1. Boot.unread = <<>> /\ Dead.unread = <<>>
  BY DEF Boot, Dead
<1> QED
  BY <1>1, BootSound, ServauthAssumption DEF ServauthAssumption, IInv

(* The server asks.                                                        *)
LEMMA SendShape ==
  ASSUME IInv, NEW q \in Question, Send(q)
  PROVE  Shape
<1> DEFINE u == [State EXCEPT !.unread = Append(unread, q)]
<1>0. /\ Sound(State) /\ State \in UState /\ unread \in Seq(Question) /\ Len(unread) < MaxUnread
      /\ State.unread = unread /\ State.query = query
      /\ query \in [Slot -> QueryBlock]
      /\ q \notin Range(unread) /\ q \notin Looking
  BY StateSound DEF Sound, UState, Send
<1>1. Becomes(u)
  BY BecomeOne DEF Send
<1>2. /\ Append(unread, q) \in Seq(Question) /\ Len(Append(unread, q)) = Len(unread) + 1
      /\ DOMAIN Append(unread, q) = 1 .. Len(unread) + 1 /\ DOMAIN unread = 1 .. Len(unread)
      /\ \A j \in 1 .. Len(unread) : Append(unread, q)[j] = unread[j]
      /\ Append(unread, q)[Len(unread) + 1] = q /\ Len(unread) \in Nat
  BY <1>0
<1>3. \A j \in Slot : query[j].ask # q
  <2>1. q # None
    BY ServauthAssumption DEF ServauthAssumption
  <2> QED
    BY <1>0, <2>1 DEF Looking
<1>4. Fresh(State, q)
  BY <1>0, <1>3 DEF Fresh
<1> HIDE DEF u
<1>5. /\ u \in UState /\ u.unread = Append(unread, q)
      /\ u.query = State.query /\ u.io = State.io /\ u.owner = State.owner
      /\ u.cache = State.cache /\ u.said = State.said /\ u.end = State.end /\ u.lost = State.lost
  BY <1>0, <1>2 DEF UState, u
<1>6. \A x : x \in Range(Append(unread, q)) => x \in Range(unread) \/ x = q
  <2> SUFFICES ASSUME NEW x \in Range(Append(unread, q)), x # q
               PROVE  x \in Range(unread)
    OBVIOUS
  <2>1. PICK j \in DOMAIN Append(unread, q) : Append(unread, q)[j] = x
    BY InRange, Zenon
  <2>2. j \in DOMAIN unread /\ unread[j] = x
    BY <1>2, <2>1
  <2> QED
    BY <2>2, InRange, Zenon
<1>7. \A i, j \in DOMAIN u.unread : u.unread[i] = u.unread[j] => i = j
  <2>0. \A j \in 1 .. Len(unread) : unread[j] # q
    <3>1. \A j \in DOMAIN unread : unread[j] # q
      BY <1>0, InRange, Zenon
    <3> QED
      BY <1>2, <3>1
  <2>1. \A i, j \in 1 .. Len(unread) : unread[i] = unread[j] => i = j
    BY <1>0, <1>2 DEF Sound, Single
  <2> SUFFICES ASSUME NEW i \in 1 .. Len(unread) + 1, NEW j \in 1 .. Len(unread) + 1,
                      Append(unread, q)[i] = Append(unread, q)[j]
               PROVE  i = j
    BY <1>2, <1>5
  <2>2. i = Len(unread) + 1 \/ i \in 1 .. Len(unread)
    BY <1>2
  <2>3. j = Len(unread) + 1 \/ j \in 1 .. Len(unread)
    BY <1>2
  <2> QED
    BY <1>2, <2>0, <2>1, <2>2, <2>3
<1>8. Single(u)
  BY <1>0, <1>3, <1>5, <1>6, <1>7 DEF Single, Sound
<1>9. Sound(u)
  BY <1>0, <1>5, <1>8 DEF Sound, OwnedIn
<1>10. Move(u)
  BY <1>4, Zenon DEF Move, u
<1>11. Len(u.unread) <= MaxUnread
  BY <1>0, <1>2, <1>5, ServauthAssumption DEF ServauthAssumption
<1> QED
  BY <1>1, <1>9, <1>10, <1>11 DEF Shape

(* The helper reads.                                                       *)
LEMMA ReadShape ==
  ASSUME IInv, Read
  PROVE  Shape
<1>1. PICK u \in Command(Taken, Head(unread)) : Becomes(u)
  BY BecomeOne DEF Read, Taken
<1>2. unread # <<>>
  BY DEF Read
<1>3. /\ Sound(Taken) /\ Fresh(Taken, Head(unread))
      /\ Taken.unread = Tail(unread) /\ Len(Tail(unread)) <= MaxUnread
  BY <1>2, TakenFresh
<1>4. \/ u = Dead
      \/ /\ Sound(u)
         /\ Looks(Taken, u, Head(unread)) \/ Repeats(Taken, u, Head(unread))
  BY <1>1, <1>3, CommandOK
<1>5. CASE u = Dead
  <2>1. Move(u)
    BY <1>5 DEF Move
  <2> QED
    BY <1>1, <1>5, <2>1, Short DEF Shape
<1>6. CASE /\ Sound(u)
           /\ Looks(Taken, u, Head(unread)) \/ Repeats(Taken, u, Head(unread))
  <2>1. Move(u)
    BY <1>2, <1>3, <1>6 DEF Move
  <2>2. u.unread = Tail(unread)
    BY <1>3, <1>6 DEF Looks, Repeats
  <2> QED
    BY <1>1, <1>3, <1>6, <2>1, <2>2 DEF Shape
<1> QED
  BY <1>4, <1>5, <1>6

(* An end of a query, by a timer or by an event.                           *)
LEMMA EndShape ==
  ASSUME IInv, NEW u, Becomes(u), NEW i \in Slot, NEW v \in Verdict, query[i].ask # None,
         u = Dead \/ (Sound(u) /\ Ends(State, u, i, v))
  PROVE  Shape
<1>1. CASE u = Dead
  <2>1. Move(u)
    BY <1>1 DEF Move
  <2> QED
    BY <1>1, <2>1, Short DEF Shape
<1>2. CASE Sound(u) /\ Ends(State, u, i, v)
  <2>1. Move(u)
    BY <1>2, StateSound DEF Move
  <2>2. u.unread = unread
    BY <1>2, StateSound DEF Ends
  <2> QED
    BY <1>2, <2>1, <2>2, Short DEF Shape
<1> QED
  BY <1>1, <1>2

(* The timer of query i.                                                   *)
LEMMA TimeoutShape ==
  ASSUME IInv, NEW i \in Slot, Timeout(i)
  PROVE  Shape
<1> DEFINE v == IF ~IsProxy(i) THEN "none"
                ELSE IF query[i].st = "connecting" THEN "filtered" ELSE "timeout"
           u == Done(State, i, v)
<1>1. v \in Verdict
  BY DEF Verdict
<1>2. Becomes(u)
  <2>1. Become({Released(Kept(State, i, v), i, <<State.query[i].ask, v>>)})
    BY Zenon DEF Timeout
  <2> QED
    BY <2>1, BecomeOne DEF Done
<1>3. /\ Sound(State) /\ State.end # "dead" /\ State.query[i].ask # None /\ query[i].ask # None
  BY StateSound DEF Timeout
<1> HIDE DEF v
<1>4. u = Dead \/ (Sound(u) /\ Ends(State, u, i, v))
  BY <1>1, <1>3, DoneOK
<1> HIDE DEF u
<1> QED
  BY <1>1, <1>2, <1>3, <1>4, EndShape

(* A query in one of the states of sockets is one of a question.           *)
LEMMA EventFacts ==
  ASSUME IInv, NEW f \in Fd, NEW i \in Slot, NEW st, Event(f, i, st), st # "idle"
  PROVE  /\ Sound(State) /\ State.end # "dead" /\ State.query = query
         /\ State.query[i].ask # None /\ query[i].ask # None
         /\ State.io = io /\ State.owner = owner /\ io[f] = "open" /\ owner[f] = i
         /\ State \in UState
<1>1. query[i] = Idle => query[i].st = "idle"
  BY DEF Idle
<1> QED
  BY <1>1, StateSound DEF Event, Sound

(* An event changes nothing but sockets.                                   *)
LEMMA SameShape ==
  ASSUME IInv, NEW u, Becomes(u), Sound(u), Same(State, u)
  PROVE  Shape
<1>1. Move(u)
  BY DEF Move
<1>2. u.unread = unread
  BY StateSound DEF Same
<1> QED
  BY <1>1, <1>2, Short DEF Shape

(* A query that has its sockets goes on to another state.                  *)
LEMMA StateSame ==
  ASSUME NEW u, Sound(u), NEW i \in Slot, u.query[i].ask # None, NEW st \in QueryState
  PROVE  Sound([u EXCEPT !.query[i].st = st]) /\ Same(u, [u EXCEPT !.query[i].st = st])
<1> DEFINE w == [u EXCEPT !.query[i].st = st]
<1>1. /\ w \in UState
      /\ \A j \in Slot : w.query[j].ask = u.query[j].ask /\ w.query[j].sock = u.query[j].sock
      /\ \A j \in Slot \ {i} : w.query[j] = u.query[j]
      /\ w.unread = u.unread /\ w.cache = u.cache /\ w.said = u.said /\ w.end = u.end
      /\ w.lost = u.lost /\ w.owner = u.owner /\ w.io = u.io
  BY StateEx DEF Sound
<1> HIDE DEF w
<1>2. Single(w)
  BY <1>1 DEF Single, Sound
<1>3. OwnedIn(w)
  BY <1>1 DEF OwnedIn, Sound
<1> QED
  BY <1>1, <1>2, <1>3 DEF Sound, Same, w

(* dns_event_rd.                                                           *)
LEMMA DnsReplyShape ==
  ASSUME IInv, NEW f \in Fd, NEW i \in Slot, DnsReply(f, i)
  PROVE  Shape
<1>1. PICK v \in {"found", "none"} : Becomes(Done(State, i, v))
  BY BecomeOne DEF DnsReply
<1>2. v \in Verdict
  BY <1>1 DEF Verdict
<1>3. Event(f, i, "udp")
  BY DEF DnsReply
<1> QED
  BY <1>1, <1>2, <1>3, EventFacts, DoneOK, EndShape

(* dns_want_tcp: the old socket is forgotten, the new one is another.      *)
LEMMA DnsTruncatedShape ==
  ASSUME IInv, NEW f \in Fd, NEW i \in Slot, DnsTruncated(f, i)
  PROVE  Shape
<1> DEFINE v == [State EXCEPT !.owner[f] = 0]
<1>0. Event(f, i, "udp") /\ FreeFds(State) # {}
  BY DEF DnsTruncated
<1>1. PICK u \in StartDns(v, i, "tcp") : Becomes(u)
  BY BecomeOne DEF DnsTruncated
<1>2. /\ Sound(State) /\ State.query[i].ask # None /\ State \in UState
      /\ State.owner[f] = i /\ State.owner \in [Fd -> 0 .. MaxQueries]
  BY <1>0, EventFacts DEF UState
<1>3. v = [State EXCEPT !.owner = [State.owner EXCEPT ![f] = 0]]
  BY <1>2 DEF UState
<1>4. [State.owner EXCEPT ![f] = 0] \in [Fd -> 0 .. MaxQueries]
  BY <1>2, ServauthAssumption DEF ServauthAssumption
<1> HIDE DEF v
<1>5. /\ v \in UState /\ v.unread = State.unread /\ v.query = State.query /\ v.io = State.io
      /\ v.owner = [State.owner EXCEPT ![f] = 0]
      /\ v.cache = State.cache /\ v.said = State.said /\ v.end = State.end /\ v.lost = State.lost
  BY <1>2, <1>3, <1>4 DEF UState
<1>6. Single(v)
  BY <1>2, <1>5 DEF Sound, Single
<1>7. ASSUME ~v.lost
      PROVE  /\ v.end # "deaf"
             /\ \A j \in Slot \ {i}, g \in Fd : v.owner[g] = j <=> v.query[j].sock = g
             /\ \A g \in Fd : v.owner[g] # i
             /\ \A g \in Fd : v.owner[g] # 0 => v.io[g] = "open"
  <2>1. /\ State.end # "deaf" /\ 0 \notin Slot
        /\ \A j \in Slot, g \in Fd : State.owner[g] = j <=> State.query[j].sock = g
        /\ \A g \in Fd : State.owner[g] # 0 => State.io[g] = "open"
    BY <1>2, <1>5, <1>7 DEF Sound, OwnedIn, Slot
  <2>2. v.owner[f] = 0 /\ \A g \in Fd \ {f} : v.owner[g] = State.owner[g]
    BY <1>2, <1>5
  <2>3. \A g \in Fd : v.owner[g] # i
    BY <1>2, <2>1, <2>2
  <2>4. \A g \in Fd : v.owner[g] # 0 => v.io[g] = "open"
    BY <1>5, <2>1, <2>2
  <2>5. \A j \in Slot \ {i}, g \in Fd : v.owner[g] = j <=> v.query[j].sock = g
    BY <1>2, <1>5, <2>1, <2>2
  <2> QED
    BY <1>5, <2>1, <2>3, <2>4, <2>5
<1>8. Almost(v, i)
  BY <1>2, <1>5, <1>6, <1>7 DEF Almost, Sound
<1>9. FreeFds(v) # {}
  BY <1>0, <1>5 DEF FreeFds
<1>10. Sound(u) /\ Same(v, u)
  <2>1. "tcp" \in QueryState
    BY DEF QueryState
  <2> QED
    BY <1>1, <1>8, <1>9, <2>1, StartDnsOK
<1>11. Same(State, u)
  BY <1>5, <1>10 DEF Same
<1> QED
  BY <1>1, <1>10, <1>11, SameShape

(* auth_event_cn, proxy_event_cn.                                          *)
LEMMA EstablishedShape ==
  ASSUME IInv, NEW f \in Fd, NEW i \in Slot, Established(f, i)
  PROVE  Shape
<1> DEFINE st == IF IsProxy(i) THEN "writing" ELSE "reading"
<1>1. Event(f, i, "connecting") /\ Becomes([State EXCEPT !.query[i].st = st])
  BY BecomeOne DEF Established
<1>2. st \in QueryState
  BY DEF QueryState
<1> HIDE DEF st
<1>3. Sound(State) /\ State.query[i].ask # None
  BY <1>1, EventFacts
<1> QED
  BY <1>1, <1>2, <1>3, StateSame, SameShape

(* proxy_event_wr.                                                         *)
LEMMA ProxyWritesShape ==
  ASSUME IInv, NEW f \in Fd, NEW i \in Slot, ProxyWrites(f, i)
  PROVE  Shape
<1>1. Event(f, i, "writing") /\ Becomes([State EXCEPT !.query[i].st = "reading"])
  BY BecomeOne DEF ProxyWrites
<1>2. "reading" \in QueryState
  BY DEF QueryState
<1>3. Sound(State) /\ State.query[i].ask # None
  BY <1>1, EventFacts
<1> QED
  BY <1>1, <1>2, <1>3, StateSame, SameShape

(* The connection is refused.                                              *)
LEMMA RefusedShape ==
  ASSUME IInv, NEW f \in Fd, NEW i \in Slot, Refused(f, i)
  PROVE  Shape
<1> DEFINE v == IF IsProxy(i) THEN "closed" ELSE "none"
<1>1. Becomes(DoneByEvent(State, i, v))
  BY BecomeOne DEF Refused
<1>2. v \in Verdict
  BY DEF Verdict
<1>3. Event(f, i, "connecting") \/ Event(f, i, "writing")
  BY DEF Refused
<1> HIDE DEF v
<1> QED
  BY <1>1, <1>2, <1>3, EventFacts, DoneByEventOK, EndShape

(* auth_parse, proxy_event_rd.                                             *)
LEMMA AnsweredShape ==
  ASSUME IInv, NEW f \in Fd, NEW i \in Slot, Answered(f, i)
  PROVE  Shape
<1>1. \/ Becomes(Dead)
      \/ \E v \in {"open", "denied", "na", "found", "none"} : Becomes(DoneByEvent(State, i, v))
  BY BecomeOne DEF Answered
<1>2. Event(f, i, "reading")
  BY DEF Answered
<1>3. CASE Becomes(Dead)
  <2>1. "none" \in Verdict
    BY DEF Verdict
  <2> QED
    BY <1>2, <1>3, <2>1, EventFacts, EndShape
<1>4. CASE \E v \in {"open", "denied", "na", "found", "none"} : Becomes(DoneByEvent(State, i, v))
  <2>1. PICK v \in {"open", "denied", "na", "found", "none"} : Becomes(DoneByEvent(State, i, v))
    BY <1>4
  <2>2. v \in Verdict
    BY <2>1 DEF Verdict
  <2> QED
    BY <1>2, <2>1, <2>2, EventFacts, DoneByEventOK, EndShape
<1> QED
  BY <1>1, <1>3, <1>4

(* The ident connection ends without an answer: the query is lost.         *)
LEMMA IdentEndsShape ==
  ASSUME IInv, NEW f \in Fd, NEW i \in Slot, IdentEnds(f, i)
  PROVE  Shape
<1> DEFINE v == Close(State, f)
           u == [v EXCEPT !.lost = TRUE]
<1>1. Event(f, i, "reading") /\ Becomes(u)
  <2>1. Event(f, i, "reading") /\ Become({u})
    BY Zenon DEF IdentEnds
  <2> HIDE DEF u
  <2> QED
    BY <2>1, BecomeOne
<1>2. Sound(State) /\ State \in UState
  BY <1>1, EventFacts
<1>3. /\ v \in UState /\ v.query = State.query /\ v.unread = State.unread
      /\ v.cache = State.cache /\ v.said = State.said /\ v.end = State.end
  BY <1>2, CloseShape
<1> HIDE DEF v
<1>4. /\ u \in UState /\ u.query = v.query /\ u.unread = v.unread
      /\ u.cache = v.cache /\ u.said = v.said /\ u.end = v.end /\ u.lost = TRUE
  BY <1>3 DEF UState
<1> HIDE DEF u
<1>5. Sound(u) /\ Same(State, u)
  BY <1>2, <1>3, <1>4 DEF Sound, Single, OwnedIn, Same
<1> QED
  BY <1>1, <1>5, SameShape

(* Every step leads to a sound state, in one of the ways of Move.          *)
LEMMA StepShape ==
  ASSUME IInv, Next
  PROVE  Shape
<1>1. ASSUME Hangup
      PROVE  Shape
  <2>1. Becomes(Dead) /\ Move(Dead)
    BY <1>1, BecomeOne DEF Hangup, Move
  <2> QED
    BY <2>1, Short DEF Shape
<1>2. ASSUME Launch
      PROVE  Shape
  <2>1. Becomes(Boot) /\ Move(Boot)
    BY <1>2, BecomeOne DEF Launch, Move
  <2> QED
    BY <2>1, Short DEF Shape
<1>3. ASSUME NEW f \in Fd, NEW i \in Slot, SocketStep(f, i)
      PROVE  Shape
  BY <1>3, DnsReplyShape, DnsTruncatedShape, EstablishedShape, RefusedShape,
     ProxyWritesShape, AnsweredShape, IdentEndsShape DEF SocketStep
<1> QED
  BY <1>1, <1>2, <1>3, ReadShape, SendShape, TimeoutShape DEF Next

-----------------------------------------------------------------------------
(* The invariant.                                                          *)

(* The process starts with one cache entry and nothing else.               *)
LEMMA InitInv ==
  ASSUME Init
  PROVE  IInv
<1>1. Now = Boot
  <2>1. Now = [unread |-> unread, query |-> query, io |-> io, owner |-> owner,
               cache |-> cache, said |-> said, end |-> end, lost |-> lost]
    BY DEF Now, State
  <2>2. Boot = [unread |-> <<>>, query |-> Boot.query, io |-> Boot.io, owner |-> Boot.owner,
                cache |-> Boot.cache, said |-> None, end |-> "alive", lost |-> FALSE]
    BY DEF Boot
  <2> QED
    BY <2>1, <2>2, Zenon DEF Init
<1> QED
  BY <1>1, Short, BootSound, ServauthAssumption DEF ServauthAssumption, IInv, Init

(* No step breaks the invariant.                                           *)
LEMMA NextInv ==
  ASSUME IInv, [Next]_vars
  PROVE  IInv'
<1>1. CASE Next
  BY <1>1, StepShape, BecomesSound DEF Shape
<1>2. CASE UNCHANGED vars
  BY <1>2 DEF vars, IInv, Now, State, Sound, Single, OwnedIn, CacheOK, UState
<1> QED
  BY <1>1, <1>2

(* A query and the descriptor its events come from have each other, and    *)
(* only a query whose connection failed under it can cost the helper its   *)
(* control connection (query_free, dns_close, io_shutup), for any number   *)
(* of queries, descriptors and cache entries.                              *)
THEOREM SocketsHaveOwners == Spec => []SocketsOwned
<1>1. IInv => SocketsOwned
  <2> SUFFICES ASSUME IInv
               PROVE  SocketsOwned
    OBVIOUS
  <2>1. /\ Sound(State) /\ State \in UState
        /\ State.unread = unread /\ State.query = query /\ State.io = io /\ State.owner = owner
        /\ State.cache = cache /\ State.end = end /\ State.lost = lost
    BY StateSound DEF Sound
  <2>2. TypeOK
    BY <2>1, Short, UFields DEF TypeOK, Sound, CacheOK, QueryBlock, QueryState
  <2>3. ~lost => /\ end # "deaf"
                 /\ \A i \in Slot, f \in Fd : owner[f] = i <=> query[i].sock = f
                 /\ \A f \in Fd : owner[f] # 0 => io[f] = "open"
                 /\ \A i \in Slot : query[i].ask = None => query[i] = Idle
    BY <2>1 DEF Sound, OwnedIn
  <2> QED
    BY <2>2, <2>3 DEF SocketsOwned
<1> QED
  BY <1>1, InitInv, NextInv, PTL DEF Spec

-----------------------------------------------------------------------------
(* The promise.                                                            *)

\* The questions under way, as HelperPromise has them.
LookingIn(u) == {u.query[i].ask : i \in {j \in Slot : u.query[j].ask # None}}

(* What is under way.                                                      *)
LEMMA InLooking ==
  ASSUME NEW u
  PROVE  \A x : x \in LookingIn(u) <=> \E i \in Slot : u.query[i].ask = x /\ x # None
  BY DEF LookingIn

(* The queries are as before.                                              *)
LEMMA SameLooking ==
  ASSUME NEW u, NEW w, \A j \in Slot : w.query[j].ask = u.query[j].ask
  PROVE  LookingIn(w) = LookingIn(u)
<1>1. \A x : x \in LookingIn(w) <=> x \in LookingIn(u)
  BY InLooking
<1> QED
  BY <1>1, Zenon

(* One query more.                                                         *)
LEMMA LooksLooking ==
  ASSUME NEW u, NEW w, NEW q \in Question, Looks(u, w, q)
  PROVE  LookingIn(w) = LookingIn(u) \cup {q}
<1>0. q # None
  BY ServauthAssumption DEF ServauthAssumption
<1>1. PICK i \in Slot : /\ u.query[i].ask = None /\ w.query[i].ask = q
                        /\ \A j \in Slot \ {i} : w.query[j].ask = u.query[j].ask
  BY DEF Looks
<1>2. ASSUME NEW x, x \in LookingIn(w) PROVE x \in LookingIn(u) \/ x = q
  BY <1>1, <1>2, InLooking
<1>3. ASSUME NEW x, x \in LookingIn(u) PROVE x \in LookingIn(w)
  BY <1>1, <1>3, InLooking
<1>4. q \in LookingIn(w)
  BY <1>0, <1>1, InLooking
<1> QED
  BY <1>2, <1>3, <1>4, Zenon

(* One query less: no other has the same question.                         *)
LEMMA EndsLooking ==
  ASSUME NEW u, Sound(u), NEW w, NEW i \in Slot, NEW v, u.query[i].ask # None, Ends(u, w, i, v)
  PROVE  /\ u.query[i].ask \in LookingIn(u)
         /\ LookingIn(w) = LookingIn(u) \ {u.query[i].ask}
<1> DEFINE q == u.query[i].ask
<1>0. /\ u.query \in [Slot -> QueryBlock] /\ w.query = [u.query EXCEPT ![i] = Idle]
      /\ \A j \in Slot : u.query[j].ask = q => j = i
  BY DEF Sound, UState, Single, Ends
<1>1. w.query[i].ask = None /\ \A j \in Slot \ {i} : w.query[j] = u.query[j]
  BY <1>0, IdleType
<1>2. ASSUME NEW x, x \in LookingIn(w) PROVE x \in LookingIn(u) /\ x # q
  <2>1. PICK j \in Slot : w.query[j].ask = x /\ x # None
    BY <1>2, InLooking
  <2> QED
    BY <1>0, <1>1, <2>1, InLooking
<1>3. ASSUME NEW x, x \in LookingIn(u), x # q PROVE x \in LookingIn(w)
  <2>1. PICK j \in Slot : u.query[j].ask = x /\ x # None
    BY <1>3, InLooking
  <2> QED
    BY <1>1, <1>3, <2>1, InLooking
<1>4. q \in LookingIn(u)
  BY InLooking
<1> QED
  BY <1>2, <1>3, <1>4, Zenon

(* The first line is asked once.                                           *)
LEMMA TailRange ==
  ASSUME NEW s \in Seq(Question), s # <<>>, \A i, j \in DOMAIN s : s[i] = s[j] => i = j
  PROVE  Head(s) \in Range(s) /\ Range(Tail(s)) = Range(s) \ {Head(s)}
<1>1. /\ Len(s) \in Nat /\ Len(s) > 0 /\ DOMAIN s = 1 .. Len(s) /\ Head(s) = s[1]
      /\ DOMAIN Tail(s) = 1 .. Len(s) - 1
      /\ \A j \in 1 .. Len(s) - 1 : Tail(s)[j] = s[j + 1]
  OBVIOUS
<1>2. 1 \in DOMAIN s
  BY <1>1
<1>3. Head(s) \in Range(s)
  BY <1>1, <1>2, InRange, Zenon
<1>4. ASSUME NEW x, x \in Range(Tail(s)) PROVE x \in Range(s) /\ x # Head(s)
  <2>1. PICK j \in DOMAIN Tail(s) : Tail(s)[j] = x
    BY <1>4, InRange, Zenon
  <2>2. j + 1 \in DOMAIN s /\ s[j + 1] = x /\ j + 1 # 1
    BY <1>1, <2>1
  <2>3. x \in Range(s)
    BY <2>2, InRange, Zenon
  <2>4. x # s[1]
    BY <1>2, <2>2, Zenon
  <2> QED
    BY <1>1, <2>3, <2>4
<1>5. ASSUME NEW x, x \in Range(s), x # Head(s) PROVE x \in Range(Tail(s))
  <2>1. PICK j \in DOMAIN s : s[j] = x
    BY <1>5, InRange, Zenon
  <2>2. j - 1 \in DOMAIN Tail(s) /\ Tail(s)[j - 1] = x
    BY <1>1, <1>5, <2>1
  <2> QED
    BY <2>2, InRange, Zenon
<1> QED
  BY <1>3, <1>4, <1>5, Zenon

\* What HelperPromise lets a step do, on the state u it leads to.
FromStart == {<<<<"reverse", Preset>>, "localhost">>}
ToEnd(u) == Range(u.unread) = {} /\ LookingIn(u) = {} /\ Facts(u) = FromStart /\ u.said = None
ToQuiet(u) ==
  /\ Range(u.unread) = Range(unread) /\ LookingIn(u) = LookingIn(State)
  /\ Facts(u) = Facts(State) /\ u.said = None
ToAsk(u, q) ==
  /\ q \notin Range(unread) \cup LookingIn(State)
  /\ Range(u.unread) = Range(unread) \cup {q} /\ LookingIn(u) = LookingIn(State)
  /\ Facts(u) = Facts(State) /\ u.said = None
ToLook(u, q) ==
  /\ q \in Range(unread) /\ Range(u.unread) = Range(unread) \ {q}
  /\ LookingIn(u) = LookingIn(State) \cup {q}
  /\ Facts(u) = Facts(State) /\ u.said = None
ToRepeat(u, q) ==
  /\ q \in Range(unread) /\ Range(u.unread) = Range(unread) \ {q}
  /\ LookingIn(u) = LookingIn(State) /\ Facts(u) = Facts(State)
  /\ \E v \in Verdict : <<<<Kind[q], About[q]>>, v>> \in Facts(State) /\ u.said = <<q, v>>
ToAnswer(u, q) ==
  /\ q \in LookingIn(State) /\ LookingIn(u) = LookingIn(State) \ {q}
  /\ Range(u.unread) = Range(unread)
  /\ \E v \in Verdict : /\ u.said = <<q, v>>
                        /\ Facts(u) \subseteq Facts(State) \cup {<<<<Kind[q], About[q]>>, v>>}

(* A process that has just started, or is gone, has nothing but what main  *)
(* puts in its cache.                                                      *)
LEMMA NothingLeft ==
  ASSUME NEW u, u \in {Boot, Dead}
  PROVE  ToEnd(u)
<1>1. /\ u.unread = <<>> /\ u.query = [i \in Slot |-> Idle] /\ u.said = None
      /\ u.cache = [k \in Cached |-> [at |-> IF k = "reverse" THEN <<PresetFact>> ELSE <<>>, age |-> <<>>]]
  <2>1. u = Boot \/ u = Dead
    OBVIOUS
  <2>2. Dead.unread = Boot.unread /\ Dead.query = Boot.query /\ Dead.said = Boot.said /\ Dead.cache = Boot.cache
    BY DEF Boot, Dead
  <2> QED
    BY <2>1, <2>2 DEF Boot
<1>2. Range(u.unread) = {}
  BY <1>1 DEF Range
<1>3. \A i \in Slot : u.query[i].ask = None
  BY <1>1, IdleType
<1>4. LookingIn(u) = {}
  BY <1>3 DEF LookingIn
<1>5. ASSUME NEW k \in Cached
      PROVE  Range(u.cache[k].at) = IF k = "reverse" THEN {PresetFact} ELSE {}
  <2>1. u.cache[k].at = IF k = "reverse" THEN <<PresetFact>> ELSE <<>>
    BY <1>1
  <2>2. Range(<<PresetFact>>) = {PresetFact} /\ Range(<<>>) = {}
    BY DEF Range
  <2> QED
    BY <2>1, <2>2
<1>6. "reverse" \in Cached /\ PresetFact[1] = Preset /\ PresetFact[2] = "localhost"
  BY DEF Cached, PresetFact
<1>7. \A x : x \in Facts(u) <=> x = <<<<"reverse", PresetFact[1]>>, PresetFact[2]>>
  BY <1>5, <1>6, InFacts
<1>8. Facts(u) = FromStart
  BY <1>6, <1>7 DEF FromStart
<1> QED
  BY <1>1, <1>2, <1>4, <1>8 DEF ToEnd

(* A step of the process is one HelperPromise allows, on what it asks and  *)
(* answers.                                                                *)
LEMMA StepKeepsPromise ==
  ASSUME IInv, NEW u, Sound(u), Move(u)
  PROVE  \/ ToEnd(u) \/ ToQuiet(u)
         \/ \E q \in Question : ToAsk(u, q) \/ ToLook(u, q) \/ ToRepeat(u, q) \/ ToAnswer(u, q)
<1>0. /\ Sound(State) /\ State \in UState /\ State.unread = unread /\ State.query = query
      /\ State.cache = cache /\ State.said = None /\ unread \in Seq(Question)
      /\ \A i, j \in DOMAIN unread : unread[i] = unread[j] => i = j
  BY StateSound DEF Sound, UState, Single
<1>1. CASE u \in {Boot, Dead}
  BY <1>1, NothingLeft
<1>2. ASSUME NEW q \in Question, Fresh(State, q), u = [State EXCEPT !.unread = Append(unread, q)]
      PROVE  ToAsk(u, q)
  <2>1. /\ u.unread = Append(unread, q) /\ u.query = State.query /\ u.cache = State.cache
        /\ u.said = None
    BY <1>0, <1>2 DEF State
  <2>2. /\ Len(unread) \in Nat /\ DOMAIN unread = 1 .. Len(unread)
        /\ DOMAIN Append(unread, q) = 1 .. Len(unread) + 1
        /\ \A j \in 1 .. Len(unread) : Append(unread, q)[j] = unread[j]
        /\ Append(unread, q)[Len(unread) + 1] = q
    BY <1>0
  <2>3. ASSUME NEW x, x \in Range(Append(unread, q)) PROVE x \in Range(unread) \/ x = q
    <3>1. PICK j \in DOMAIN Append(unread, q) : Append(unread, q)[j] = x
      BY <2>3, InRange, Zenon
    <3>2. x = q \/ (j \in DOMAIN unread /\ unread[j] = x)
      BY <2>2, <3>1
    <3> QED
      BY <3>2, InRange, Zenon
  <2>4. ASSUME NEW x, x \in Range(unread) PROVE x \in Range(Append(unread, q))
    <3>1. PICK j \in DOMAIN unread : unread[j] = x
      BY <2>4, InRange, Zenon
    <3>2. j \in DOMAIN Append(unread, q) /\ Append(unread, q)[j] = x
      BY <2>2, <3>1
    <3> QED
      BY <3>2, InRange, Zenon
  <2>5. q \in Range(Append(unread, q))
    <3>1. Len(unread) + 1 \in DOMAIN Append(unread, q)
      BY <2>2
    <3> QED
      BY <2>2, <3>1, InRange, Zenon
  <2>6. Range(Append(unread, q)) = Range(unread) \cup {q}
    BY <2>3, <2>4, <2>5, Zenon
  <2>7. LookingIn(u) = LookingIn(State) /\ Facts(u) = Facts(State)
    BY <2>1, SameLooking, SameFacts
  <2>8. q \notin LookingIn(State) /\ q \notin Range(unread)
    BY <1>0, <1>2, InLooking DEF Fresh
  <2> QED
    BY <2>1, <2>6, <2>7, <2>8 DEF ToAsk
<1>3. ASSUME Same(State, u)
      PROVE  ToQuiet(u)
  <2>1. LookingIn(u) = LookingIn(State) /\ Facts(u) = Facts(State)
    BY <1>3, SameLooking, SameFacts DEF Same
  <2> QED
    BY <1>0, <1>3, <2>1 DEF Same, ToQuiet
<1>4. ASSUME NEW i \in Slot, NEW v \in Verdict, State.query[i].ask # None, Ends(State, u, i, v)
      PROVE  State.query[i].ask \in Question /\ ToAnswer(u, State.query[i].ask)
  <2>1. State.query[i].ask \in Question
    BY <1>0, <1>4 DEF UState, QueryBlock
  <2>2. /\ State.query[i].ask \in LookingIn(State)
        /\ LookingIn(u) = LookingIn(State) \ {State.query[i].ask}
    BY <1>0, <1>4, EndsLooking
  <2> QED
    BY <1>0, <1>4, <2>1, <2>2, Zenon DEF Ends, ToAnswer
<1>5. ASSUME unread # <<>>, Fresh(Taken, Head(unread)),
             Looks(Taken, u, Head(unread)) \/ Repeats(Taken, u, Head(unread))
      PROVE  \E q \in Question : ToLook(u, q) \/ ToRepeat(u, q)
  <2> DEFINE q == Head(unread)
  <2>1. q \in Question /\ q \in Range(unread) /\ Range(Tail(unread)) = Range(unread) \ {q}
    BY <1>0, <1>5, TailRange DEF Fresh
  <2>2. /\ Taken.unread = Tail(unread) /\ Taken.query = State.query
        /\ Taken.cache = State.cache /\ Taken.said = None
    BY DEF Taken, State
  <2>3. LookingIn(Taken) = LookingIn(State) /\ Facts(Taken) = Facts(State)
    BY <2>2, SameLooking, SameFacts
  <2> HIDE DEF q
  <2>4. CASE Looks(Taken, u, q)
    <3>1. LookingIn(u) = LookingIn(Taken) \cup {q}
      BY <2>1, <2>4, LooksLooking
    <3>2. Facts(u) = Facts(Taken) /\ u.unread = Tail(unread) /\ u.said = None
      BY <2>2, <2>4, SameFacts DEF Looks
    <3>3. ToLook(u, q)
      BY <2>1, <2>3, <3>1, <3>2 DEF ToLook
    <3> QED
      BY <2>1, <3>3
  <2>5. CASE Repeats(Taken, u, q)
    <3>1. LookingIn(u) = LookingIn(Taken)
      BY <2>5, SameLooking DEF Repeats
    <3>2. /\ Facts(u) = Facts(Taken) /\ u.unread = Tail(unread)
          /\ \E v \in Verdict : <<<<Kind[q], About[q]>>, v>> \in Facts(Taken) /\ u.said = <<q, v>>
      BY <2>2, <2>5 DEF Repeats
    <3>3. ToRepeat(u, q)
      BY <2>1, <2>3, <3>1, <3>2 DEF ToRepeat
    <3> QED
      BY <2>1, <3>3
  <2> QED
    BY <1>5, <2>4, <2>5 DEF q
<1> QED
  BY <1>1, <1>2, <1>3, <1>4, <1>5, Zenon DEF Move

(* The variables of HelperPromise, in terms of states.                     *)
LEMMA Mapped ==
  ASSUME IInv, NEW u, Becomes(u)
  PROVE  /\ LookingIn(State) = Looking
         /\ Facts(State) = UNION {{<<<<k, fact[1]>>, fact[2]>> : fact \in Range(cache[k].at)} : k \in Cached}
         /\ Range(unread)' = Range(u.unread) /\ Looking' = LookingIn(u) /\ said' = u.said
         /\ (UNION {{<<<<k, fact[1]>>, fact[2]>> : fact \in Range(cache[k].at)} : k \in Cached})' = Facts(u)
<1>1. State.query = query /\ State.cache = cache
  BY DEF State
<1>2. query' = u.query /\ cache' = u.cache /\ unread' = u.unread /\ said' = u.said
  BY DEF Becomes
<1> QED
  BY <1>1, <1>2 DEF Looking, LookingIn, Facts

(* Each question gets one answer, and what is repeated was found before,   *)
(* or put there by main (query_*_done, cache_*_pick): the helper           *)
(* implements HelperPromise, for any questions and limits, in whatever     *)
(* order sockets and timers come.                                          *)
THEOREM HelperKeepsPromise == Spec => KeepsPromise
<1> DEFINE kept == UNION {{<<<<k, fact[1]>>, fact[2]>> : fact \in Range(cache[k].at)} : k \in Cached}
<1>1. Init => Promise!Init
  <2> SUFFICES ASSUME Init
               PROVE  Range(unread) = {} /\ Looking = {} /\ kept = FromStart /\ said = None
    BY DEF Promise!Init, FromStart
  <2>1. ToEnd(Boot) /\ Boot.unread = <<>>
    BY NothingLeft DEF Boot
  <2>2. Looking = LookingIn(Boot) /\ kept = Facts(Boot)
    BY DEF Init, Looking, LookingIn, Facts
  <2> QED
    BY <2>1, <2>2 DEF Init, ToEnd
<1>2. IInv /\ [Next]_vars => [Promise!Next]_Promise!vars
  <2> SUFFICES ASSUME IInv, [Next]_vars
               PROVE  [Promise!Next]_Promise!vars
    OBVIOUS
  <2>1. CASE UNCHANGED vars
    BY <2>1 DEF vars, Promise!vars, Looking
  <2>2. CASE Next
    <3>1. PICK u : Sound(u) /\ Becomes(u) /\ Move(u)
      BY <2>2, StepShape DEF Shape
    <3>2. /\ LookingIn(State) = Looking /\ Facts(State) = kept
          /\ Range(unread)' = Range(u.unread) /\ Looking' = LookingIn(u) /\ said' = u.said
          /\ kept' = Facts(u)
      BY <3>1, Mapped
    <3> HIDE DEF kept
    <3>3. CASE ToEnd(u)
      <4>1. Promise!End
        BY <3>2, <3>3 DEF ToEnd, FromStart, Promise!End, kept
      <4> QED
        BY <4>1 DEF Promise!Next
    <3>4. CASE ToQuiet(u)
      <4>1. Promise!Quiet
        BY <3>2, <3>4 DEF ToQuiet, Promise!Quiet, kept
      <4> QED
        BY <4>1 DEF Promise!Next
    <3>5. ASSUME NEW q \in Question, ToAsk(u, q)
          PROVE  Promise!Ask(q)
      BY <3>2, <3>5 DEF ToAsk, Promise!Ask, kept
    <3>6. ASSUME NEW q \in Question, ToLook(u, q)
          PROVE  Promise!Look(q)
      BY <3>2, <3>6 DEF ToLook, Promise!Look, kept
    <3>7. ASSUME NEW q \in Question, ToRepeat(u, q)
          PROVE  Promise!Repeat(q)
      BY <3>2, <3>7 DEF ToRepeat, Promise!Repeat, kept
    <3>8. ASSUME NEW q \in Question, ToAnswer(u, q)
          PROVE  Promise!Answer(q)
      BY <3>2, <3>8, ServauthAssumption DEF ServauthAssumption, ToAnswer, Promise!Answer, kept
    <3> QED
      BY <3>1, <3>3, <3>4, <3>5, <3>6, <3>7, <3>8, StepKeepsPromise DEF Promise!Next
  <2> QED
    BY <2>1, <2>2
<1> QED
  BY <1>1, <1>2, InitInv, NextInv, PTL DEF Spec, KeepsPromise, Promise!Spec
=============================================================================
