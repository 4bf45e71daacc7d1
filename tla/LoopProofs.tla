----------------------------- MODULE LoopProofs -----------------------------
(***************************************************************************)
(* The two halves of ircd_loop, for constants of any size: the timers,     *)
(* EventLoop, and the descriptors, PollTable.                              *)
(*                                                                         *)
(* Clients and timers stay in agreement and no timer is called early:      *)
(* PointersAgree and NeverEarly.  What makes the walk of timer_run safe is *)
(* the order of timer_list: a callback that runs no line frees one block   *)
(* at most, the ping timer of its client, which is the timer being called  *)
(* or, when the throttle is, stands before it.  So the block the walk has  *)
(* remembered, the one behind, is not freed.  That needs the kind of each  *)
(* client's timers and their order, which IInv adds to PointersAgree.  A   *)
(* line that the throttle has run frees any clients' ping timers: either   *)
(* the block behind is none of them, or the walk is lost (astray) and the  *)
(* server with it.  CalledInTime counts what settings of the clock cost,   *)
(* while there is a server: LateInv.                                       *)
(*                                                                         *)
(* The second part, io_pfds and io_list, starts at EventSet.               *)
(* The third, connect.c and the helper together, starts at ConnBlock: a    *)
(* lemma for what each handler makes of a block, its timer and its socket, *)
(* and from Kinds on one for what each callback makes of the queries.      *)
(***************************************************************************)
EXTENDS EventLoop, PollTable, Outgoing, SequenceTheorems, WellFoundedInduction, FiniteSetTheorems, TLAPS

\* What a timer calls, and for whom.
Callbacks == {"exit", "ping", "reset", "throttle", "start", "timeout"}
Whose    == Client \cup Conn

Timer ==
  [left : Int, every : Int, refs : {0, 1},
   call : Callbacks \cup {"none"}, arg : Whose \cup {"none"}]
Store == [list : Seq(Slot), free : Seq(Slot), at : [Slot -> Timer]]

Stored(s) == s \in Store /\ StoreOK(s)

\* a is listed in front of b.
InFront(s, a, b) ==
  \E i \in DOMAIN s.list, j \in DOMAIN s.list : i < j /\ s.list[i] = a /\ s.list[j] = b

\* s2 is what s was, in order, but for the timers of S.
Kept(s, s2, S) ==
  /\ \A x \in Range(s.list) \ S : x \in Range(s2.list) /\ s2.at[x] = s.at[x]
  /\ \A x \in Range(s2.list) \ S : x \in Range(s.list)
  /\ \A a \in Range(s.list) \ S, b \in Range(s.list) \ S :
       InFront(s, a, b) => InFront(s2, a, b)

\* The same, but that timers may be due at another time.
KeptButTime(s, s2, S) ==
  /\ \A x \in Range(s.list) \ S : /\ x \in Range(s2.list)
                                  /\ s2.at[x].refs = s.at[x].refs
                                  /\ s2.at[x].call = s.at[x].call
                                  /\ s2.at[x].arg = s.at[x].arg
  /\ \A x \in Range(s2.list) \ S : x \in Range(s.list)
  /\ \A a \in Range(s.list) \ S, b \in Range(s.list) \ S :
       InFront(s, a, b) => InFront(s2, a, b)

\* The same timers, due at another time.
Retimed(s, s2) ==
  /\ s2.list = s.list /\ s2.free = s.free
  /\ \A x \in Range(s.list) : /\ s2.at[x].refs = s.at[x].refs
                              /\ s2.at[x].call = s.at[x].call
                              /\ s2.at[x].arg = s.at[x].arg
                              /\ s2.at[x].every = s.at[x].every

Pointer == [Client -> Slot \cup {NoTimer}]

Typed ==
  /\ Stored(st)
  /\ phase \in {"poll", "run", "line", "crashed", "drift", "io", "collect"}
  /\ astray \in BOOLEAN
  /\ user \in [Client -> {"none", "unknown", "user"}]
  /\ ptimer \in Pointer /\ rtimer \in Pointer /\ ttimer \in Pointer
  /\ drift \in Int /\ real \in [Slot -> Int]
  /\ phase \in {"io", "collect", "poll"} => drift = 0

\* y is listed next behind x, or nothing is.
NextBehind(s, x, y) ==
  /\ y # NoTimer => InFront(s, x, y)
  /\ \A z : InFront(s, x, z) => y # NoTimer /\ (z = y \/ InFront(s, y, z))

\* timer_run remembers what stands behind the timer it is at, ...
OnList ==
  /\ phase # "crashed"
  /\ walk.cur = NoTimer => walk.next = NoTimer
  /\ walk.cur # NoTimer => Listed(st, walk.cur) /\ NextBehind(st, walk.cur, walk.next)

\* ... or that was freed, and is where timer_run goes.
OffList ==
  IF phase = "line" THEN walk.next # NoTimer /\ ~Listed(st, walk.next)
  ELSE walk.cur # NoTimer /\ ~Listed(st, walk.cur)

InWalk == phase \in {"run", "line"}

Remembers ==
  IF InWalk \/ phase = "crashed"
  THEN /\ walk = [cur |-> walk.cur, next |-> walk.next]
       /\ walk.cur \in Slot \cup {NoTimer} /\ walk.next \in Slot \cup {NoTimer}
       /\ phase = "line" => /\ walk.cur # NoTimer /\ Listed(st, walk.cur)
                            /\ st.at[walk.cur].call = "throttle"
       /\ IF astray THEN OffList ELSE OnList
  ELSE walk = Idle /\ ~astray

Its(c) == {ptimer[c], rtimer[c], ttimer[c]} \ {NoTimer}

\* A client's timers: which, when it has them, and in which order.
Has(c) ==
  /\ \A s \in Its(c) : Listed(st, s) /\ st.at[s].arg = c /\ st.at[s].refs = 1
  /\ ptimer[c] # NoTimer => st.at[ptimer[c]].call \in {"exit", "ping"}
  /\ rtimer[c] # NoTimer => st.at[rtimer[c]].call = "reset"
  /\ ttimer[c] # NoTimer => st.at[ttimer[c]].call = "throttle"
  /\ (ptimer[c] = NoTimer) = (user[c] = "none")
  /\ user[c] # "user" => rtimer[c] = NoTimer /\ ttimer[c] = NoTimer
  /\ ttimer[c] # NoTimer => InFront(st, ptimer[c], ttimer[c])

OwnTimers ==
  /\ \A c \in Client : Has(c)
  /\ \A s \in Range(st.list) :
       st.at[s].refs > 0 => st.at[s].arg \in Client /\ s \in Its(st.at[s].arg)

\* What is left of a deadline is no less than what really is.
NoneEarly ==
  ~forward => \A s \in Range(st.list) : st.at[s].refs > 0 =>
                real[s] <= st.at[s].left /\ real[s] <= st.at[s].left + drift

IInv == Typed /\ Remembers /\ OwnTimers /\ NoneEarly

-----------------------------------------------------------------------------
(* Lists of blocks.                                                        *)

(* What a list has in it.                                                  *)
LEMMA ListFacts ==
  ASSUME NEW L \in Seq(Slot)
  PROVE  /\ Len(L) \in Nat /\ DOMAIN L = 1 .. Len(L) /\ Range(L) \in SUBSET Slot
         /\ \A i \in DOMAIN L : L[i] \in Slot /\ L[i] \in Range(L)
         /\ \A x \in Range(L) : \E i \in DOMAIN L : L[i] = x
         /\ (L = <<>>) = (Len(L) = 0)
  BY DEF Range

(* dlink_add_tail of a block that is not there.                            *)
LEMMA AppendFacts ==
  ASSUME NEW S, NEW L \in Seq(S), IsInjective(L), NEW x \in S, x \notin Range(L)
  PROVE  /\ Append(L, x) \in Seq(S) /\ IsInjective(Append(L, x))
         /\ Range(Append(L, x)) = Range(L) \cup {x}
         /\ \A i \in DOMAIN L : i \in DOMAIN Append(L, x) /\ Append(L, x)[i] = L[i]
         /\ \A i \in DOMAIN L : i < Len(L) + 1
         /\ Len(L) + 1 \in DOMAIN Append(L, x) /\ Append(L, x)[Len(L) + 1] = x
<1> DEFINE M == Append(L, x)
<1>1. /\ M \in Seq(S) /\ Len(M) = Len(L) + 1 /\ Len(L) \in Nat
      /\ DOMAIN M = 1 .. Len(L) + 1 /\ DOMAIN L = 1 .. Len(L)
      /\ \A i \in 1 .. Len(L) : M[i] = L[i]
      /\ M[Len(L) + 1] = x
  OBVIOUS
<1> HIDE DEF M
<1>2. \A i \in 1 .. Len(L) : L[i] # x
  BY <1>1 DEF Range
<1>3. IsInjective(M)
  <2> SUFFICES ASSUME NEW i \in 1 .. Len(L) + 1, NEW j \in 1 .. Len(L) + 1, M[i] = M[j]
               PROVE  i = j
    BY <1>1 DEF IsInjective
  <2>1. CASE i \in 1 .. Len(L) /\ j \in 1 .. Len(L)
    BY <1>1, <2>1 DEF IsInjective
  <2>2. CASE i = Len(L) + 1 /\ j \in 1 .. Len(L)
    BY <1>1, <1>2, <2>2
  <2>3. CASE j = Len(L) + 1 /\ i \in 1 .. Len(L)
    BY <1>1, <1>2, <2>3
  <2>4. CASE j = Len(L) + 1 /\ i = Len(L) + 1
    BY <2>4
  <2> QED
    BY <1>1, <2>1, <2>2, <2>3, <2>4
<1>4. Range(M) = Range(L) \cup {x}
  <2>1. Range(M) = {M[i] : i \in 1 .. Len(L) + 1} /\ Range(L) = {L[i] : i \in 1 .. Len(L)}
    BY <1>1, Zenon DEF Range
  <2>2. 1 .. Len(L) + 1 = (1 .. Len(L)) \cup {Len(L) + 1}
    BY <1>1
  <2> QED
    BY <1>1, <2>1, <2>2
<1>5. \A i \in DOMAIN L : i \in DOMAIN M /\ M[i] = L[i] /\ i < Len(L) + 1
  BY <1>1
<1>6. Len(L) + 1 \in DOMAIN M
  BY <1>1
<1> QED
  BY <1>1, <1>3, <1>4, <1>5, <1>6 DEF M

(* mem_static_alloc takes the first free block.                            *)
LEMMA TailFacts ==
  ASSUME NEW S, NEW L \in Seq(S), IsInjective(L), L # <<>>
  PROVE  /\ Head(L) \in Range(L) /\ Tail(L) \in Seq(S) /\ IsInjective(Tail(L))
         /\ Range(Tail(L)) = Range(L) \ {Head(L)} /\ Len(Tail(L)) = Len(L) - 1
<1> DEFINE M == Tail(L)
<1>1. /\ M \in Seq(S) /\ Len(M) = Len(L) - 1 /\ Len(L) \in Nat \ {0}
      /\ DOMAIN M = 1 .. Len(L) - 1 /\ DOMAIN L = 1 .. Len(L)
      /\ \A i \in 1 .. Len(L) - 1 : M[i] = L[i + 1]
      /\ Head(L) = L[1]
  OBVIOUS
<1> HIDE DEF M
<1>2. \A i \in DOMAIN L, j \in DOMAIN L : L[i] = L[j] => i = j
  BY ZenonT(60) DEF IsInjective
<1>3. IsInjective(M)
  <2> SUFFICES ASSUME NEW i \in 1 .. Len(L) - 1, NEW j \in 1 .. Len(L) - 1, M[i] = M[j]
               PROVE  i = j
    BY <1>1 DEF IsInjective
  <2>1. i + 1 \in 1 .. Len(L) /\ j + 1 \in 1 .. Len(L) /\ L[i + 1] = L[j + 1]
    BY <1>1
  <2>2. i + 1 = j + 1
    BY <1>1, <1>2, <2>1, Zenon
  <2> QED
    BY <2>2
<1>4. Range(M) = Range(L) \ {Head(L)}
  <2>1. Range(M) = {M[i] : i \in 1 .. Len(L) - 1} /\ Range(L) = {L[i] : i \in 1 .. Len(L)}
    BY <1>1, Zenon DEF Range
  <2>2. ASSUME NEW x \in Range(M) PROVE x \in Range(L) \ {Head(L)}
    <3>1. PICK i \in 1 .. Len(L) - 1 : x = M[i]
      BY <2>1
    <3>2. i + 1 \in 1 .. Len(L) /\ x = L[i + 1] /\ i + 1 # 1 /\ 1 \in 1 .. Len(L)
      BY <1>1, <3>1
    <3> QED
      BY <1>1, <1>2, <2>1, <3>2
  <2>3. ASSUME NEW x \in Range(L) \ {Head(L)} PROVE x \in Range(M)
    <3>1. PICK i \in 1 .. Len(L) : x = L[i]
      BY <2>1
    <3>2. i # 1
      BY <1>1, <3>1
    <3>3. i - 1 \in 1 .. Len(L) - 1 /\ (i - 1) + 1 = i
      BY <1>1, <3>1, <3>2
    <3>4. M[i - 1] = x
      BY <1>1, <3>1, <3>3
    <3> QED
      BY <2>1, <3>3, <3>4
  <2> QED
    BY <2>2, <2>3
<1>5. Head(L) \in Range(L)
  BY <1>1 DEF Range
<1> QED
  BY <1>1, <1>3, <1>4, <1>5 DEF M

(* mem_static_free puts a block in front of the free ones.                 *)
LEMMA PutBackFacts ==
  ASSUME NEW S, NEW L \in Seq(S), IsInjective(L), NEW x \in S, x \notin Range(L)
  PROVE  /\ <<x>> \o L \in Seq(S) /\ IsInjective(<<x>> \o L)
         /\ Range(<<x>> \o L) = Range(L) \cup {x} /\ Len(<<x>> \o L) = Len(L) + 1
<1> DEFINE M == <<x>> \o L
<1>1. /\ M \in Seq(S) /\ Len(M) = Len(L) + 1 /\ Len(L) \in Nat
      /\ DOMAIN M = 1 .. Len(L) + 1 /\ DOMAIN L = 1 .. Len(L)
      /\ M[1] = x
      /\ \A i \in 2 .. Len(L) + 1 : M[i] = L[i - 1]
  OBVIOUS
<1> HIDE DEF M
<1>2. \A i \in DOMAIN L, j \in DOMAIN L : L[i] = L[j] => i = j
  BY ZenonT(60) DEF IsInjective
<1>3. \A i \in 1 .. Len(L) : L[i] # x
  BY <1>1 DEF Range
<1>4. \A i \in 2 .. Len(L) + 1 : i - 1 \in 1 .. Len(L) /\ M[i] # x
  BY <1>1, <1>3
<1>5. IsInjective(M)
  <2> SUFFICES ASSUME NEW i \in 1 .. Len(L) + 1, NEW j \in 1 .. Len(L) + 1, M[i] = M[j]
               PROVE  i = j
    BY <1>1 DEF IsInjective
  <2>1. CASE i \in 2 .. Len(L) + 1 /\ j \in 2 .. Len(L) + 1
    BY <1>1, <1>2, <1>4, <2>1, SMTT(40)
  <2>2. CASE i = 1 \/ j = 1
    BY <1>1, <1>4, <2>2
  <2> QED
    BY <1>1, <2>1, <2>2
<1>6. Range(M) = Range(L) \cup {x}
  <2>1. Range(M) = {M[i] : i \in 1 .. Len(L) + 1} /\ Range(L) = {L[i] : i \in 1 .. Len(L)}
    BY <1>1, Zenon DEF Range
  <2>2. ASSUME NEW y \in Range(M) PROVE y \in Range(L) \cup {x}
    BY <1>1, <1>4, <2>1, SMTT(40)
  <2>3. x \in Range(M)
    BY <1>1, <2>1
  <2>4. ASSUME NEW y \in Range(L) PROVE y \in Range(M)
    <3>1. PICK i \in 1 .. Len(L) : y = L[i]
      BY <2>1
    <3>2. i + 1 \in 2 .. Len(L) + 1 /\ i + 1 \in 1 .. Len(L) + 1 /\ (i + 1) - 1 = i
      BY <1>1
    <3> QED
      BY <1>1, <2>1, <3>1, <3>2
  <2> QED
    BY <2>2, <2>3, <2>4
<1> QED
  BY <1>1, <1>5, <1>6 DEF M

(* RemoveAt takes out one place (dlink_delete).                            *)
LEMMA RemoveAtFacts ==
  ASSUME NEW S, NEW s \in Seq(S), NEW n \in 1 .. Len(s)
  PROVE  /\ RemoveAt(s, n) \in Seq(S) /\ Len(RemoveAt(s, n)) = Len(s) - 1
         /\ \A j \in 1 .. Len(s) - 1 :
              RemoveAt(s, n)[j] = IF j < n THEN s[j] ELSE s[j + 1]
<1> DEFINE a == SubSeq(s, 1, n - 1)
           b == SubSeq(s, n + 1, Len(s))
<1>0. Len(s) \in Nat /\ n \in Int /\ n - 1 \in Int /\ n + 1 \in Int
  OBVIOUS
<1>1. \A i \in 1 .. n - 1 : s[i] \in S
  OBVIOUS
<1>2. \A i \in n + 1 .. Len(s) : s[i] \in S
  OBVIOUS
<1>3. /\ a \in Seq(S) /\ Len(a) = n - 1
      /\ \A i \in 1 .. n - 1 : a[i] = s[i]
  <2>1. /\ a \in Seq(S)
        /\ Len(a) = IF 1 <= n - 1 THEN (n - 1) - 1 + 1 ELSE 0
        /\ \A i \in 1 .. (n - 1) - 1 + 1 : a[i] = s[1 + i - 1]
    BY <1>0, <1>1, SubSeqProperties
  <2> QED
    BY <1>0, <2>1
<1>4. /\ b \in Seq(S) /\ Len(b) = Len(s) - n
      /\ \A i \in 1 .. Len(s) - n : b[i] = s[n + i]
  <2>1. /\ b \in Seq(S)
        /\ Len(b) = IF n + 1 <= Len(s) THEN Len(s) - (n + 1) + 1 ELSE 0
        /\ \A i \in 1 .. Len(s) - (n + 1) + 1 : b[i] = s[n + 1 + i - 1]
    BY <1>0, <1>2, SubSeqProperties
  <2> QED
    BY <1>0, <2>1
<1> HIDE DEF a, b
<1>5. /\ a \o b \in Seq(S) /\ Len(a \o b) = Len(a) + Len(b)
      /\ \A i \in 1 .. Len(a) + Len(b) :
           (a \o b)[i] = IF i <= Len(a) THEN a[i] ELSE b[i - Len(a)]
  <2>1. a \in Seq(S) /\ b \in Seq(S)
    BY <1>3, <1>4
  <2> QED
    BY <2>1, ConcatProperties, Zenon
<1>6. RemoveAt(s, n) = a \o b
  BY DEF RemoveAt, a, b
<1>7. ASSUME NEW j \in 1 .. Len(s) - 1
      PROVE  (a \o b)[j] = IF j < n THEN s[j] ELSE s[j + 1]
  <2>0. (a \o b)[j] = IF j <= n - 1 THEN a[j] ELSE b[j - (n - 1)]
    BY <1>0, <1>3, <1>4, <1>5, SMTT(40)
  <2>1. CASE j < n
    <3>1. j \in 1 .. n - 1
      BY <1>0, <2>1
    <3> QED
      BY <1>3, <2>0, <2>1, <3>1
  <2>2. CASE ~(j < n)
    <3>1. j - (n - 1) \in 1 .. Len(s) - n /\ n + (j - (n - 1)) = j + 1
      BY <1>0, <2>2
    <3>2. b[j - (n - 1)] = s[j + 1]
      BY <1>4, <3>1
    <3> QED
      BY <1>0, <2>0, <2>2, <3>2
  <2> QED
    BY <2>1, <2>2
<1> QED
  BY <1>0, <1>3, <1>4, <1>5, <1>6, <1>7, SMTT(40)

(* dlink_delete keeps the others, in their order.                          *)
LEMMA TakenOut ==
  ASSUME NEW L \in Seq(Slot), IsInjective(L), NEW n \in 1 .. Len(L)
  PROVE  /\ RemoveAt(L, n) \in Seq(Slot) /\ IsInjective(RemoveAt(L, n))
         /\ Range(RemoveAt(L, n)) = Range(L) \ {L[n]}
         /\ \A i \in DOMAIN L \ {n}, j \in DOMAIN L \ {n} : i < j =>
              \E i2 \in DOMAIN RemoveAt(L, n), j2 \in DOMAIN RemoveAt(L, n) :
                i2 < j2 /\ RemoveAt(L, n)[i2] = L[i] /\ RemoveAt(L, n)[j2] = L[j]
<1> DEFINE M == RemoveAt(L, n)
           from(i) == IF i < n THEN i ELSE i + 1
           to(i) == IF i < n THEN i ELSE i - 1
<1>1. /\ M \in Seq(Slot) /\ Len(M) = Len(L) - 1
      /\ \A j \in 1 .. Len(L) - 1 : M[j] = IF j < n THEN L[j] ELSE L[j + 1]
  BY RemoveAtFacts, Zenon
<1> HIDE DEF M
<1>2. DOMAIN M = 1 .. Len(L) - 1 /\ DOMAIN L = 1 .. Len(L) /\ Len(L) \in Nat
  BY <1>1
<1>3. \A i \in 1 .. Len(L) - 1 : from(i) \in 1 .. Len(L) /\ from(i) # n /\ M[i] = L[from(i)]
  BY <1>1, <1>2
<1>4. \A i \in (1 .. Len(L)) \ {n} : to(i) \in 1 .. Len(L) - 1 /\ from(to(i)) = i
  BY <1>2
<1>5. \A i \in (1 .. Len(L)) \ {n}, j \in (1 .. Len(L)) \ {n} : i < j => to(i) < to(j)
  BY <1>2
<1>6. \A i \in 1 .. Len(L) - 1, j \in 1 .. Len(L) - 1 : from(i) = from(j) => i = j
  BY <1>2
<1> HIDE DEF from, to
<1>7. \A i \in 1 .. Len(L), j \in 1 .. Len(L) : L[i] = L[j] => i = j
  BY <1>2, Zenon DEF IsInjective
<1>8. IsInjective(M)
  <2>1. ASSUME NEW i \in 1 .. Len(L) - 1, NEW j \in 1 .. Len(L) - 1, M[i] = M[j]
        PROVE  i = j
    <3>1. from(i) = from(j)
      BY <1>3, <1>7, <2>1, SMTT(40)
    <3> QED
      BY <1>6, <3>1
  <2> QED
    BY <1>2, <2>1 DEF IsInjective
<1>9. \A i \in (1 .. Len(L)) \ {n} : M[to(i)] = L[i]
  BY <1>3, <1>4
<1>10. Range(M) = Range(L) \ {L[n]}
  <2>1. Range(M) = {M[i] : i \in 1 .. Len(L) - 1} /\ Range(L) = {L[i] : i \in 1 .. Len(L)}
    BY <1>2, Zenon DEF Range
  <2>2. ASSUME NEW x \in Range(M) PROVE x \in Range(L) \ {L[n]}
    <3>1. PICK i \in 1 .. Len(L) - 1 : x = M[i]
      BY <2>1
    <3> QED
      BY <1>3, <1>7, <2>1, <3>1
  <2>3. ASSUME NEW x \in Range(L) \ {L[n]} PROVE x \in Range(M)
    <3>1. PICK i \in 1 .. Len(L) : x = L[i]
      BY <2>1
    <3>2. i # n
      BY <3>1
    <3>3. to(i) \in 1 .. Len(L) - 1 /\ M[to(i)] = x
      BY <1>4, <1>9, <3>1, <3>2
    <3> QED
      BY <2>1, <3>3
  <2> QED
    BY <2>2, <2>3
<1>11. ASSUME NEW i \in DOMAIN L \ {n}, NEW j \in DOMAIN L \ {n}, i < j
       PROVE  \E i2 \in DOMAIN M, j2 \in DOMAIN M : i2 < j2 /\ M[i2] = L[i] /\ M[j2] = L[j]
  <2>1. to(i) \in DOMAIN M /\ to(j) \in DOMAIN M /\ to(i) < to(j)
    BY <1>2, <1>4, <1>5, <1>11
  <2>2. M[to(i)] = L[i] /\ M[to(j)] = L[j]
    BY <1>2, <1>9, <1>11
  <2> QED
    BY <2>1, <2>2
<1> QED
  BY <1>1, <1>8, <1>10, <1>11 DEF M

-----------------------------------------------------------------------------
(* Operations on the store.                                                *)

(* What a store has in it.                                                 *)
LEMMA StoreFacts ==
  ASSUME NEW s, Stored(s)
  PROVE  /\ s.list \in Seq(Slot) /\ s.free \in Seq(Slot) /\ s.at \in [Slot -> Timer]
         /\ IsInjective(s.list) /\ IsInjective(s.free)
         /\ Range(s.list) \cap Range(s.free) = {}
         /\ Range(s.list) \cup Range(s.free) = Slot
         /\ \A x \in Range(s.list) : x \in Slot
         /\ \A x \in Slot : /\ s.at[x] \in Timer
                            /\ s.at[x].left \in Int /\ s.at[x].every \in Int
                            /\ s.at[x].refs \in {0, 1}
                            /\ s.at[x].arg \in Whose \cup {"none"}
                            /\ s.at[x].call \in Callbacks \cup {"none"}
<1>1. s \in Store /\ StoreOK(s)
  BY DEF Stored
<1>2. s.list \in Seq(Slot) /\ s.free \in Seq(Slot) /\ s.at \in [Slot -> Timer]
  BY <1>1 DEF Store
<1>3. \A x \in Slot : s.at[x] \in Timer
  BY <1>2
<1> QED
  BY <1>1, <1>2, <1>3 DEF StoreOK, Timer

(* A store is made of its parts.                                           *)
LEMMA StoreMade ==
  ASSUME NEW L \in Seq(Slot), NEW F \in Seq(Slot), NEW A \in [Slot -> Timer],
         IsInjective(L), IsInjective(F),
         Range(L) \cap Range(F) = {}, Range(L) \cup Range(F) = Slot
  PROVE  Stored([list |-> L, free |-> F, at |-> A])
  BY DEF Stored, StoreOK, Store

(* What is kept twice is kept.                                             *)
LEMMA KeptTwice ==
  ASSUME NEW s, NEW s2, NEW s3, NEW S, NEW T, Kept(s, s2, S), Kept(s2, s3, T)
  PROVE  Kept(s, s3, S \cup T)
  BY Zenon DEF Kept

\* s2 is s with a timer started in x, behind all others.
Starts(s, s2, x, call, c, left) ==
  /\ Stored(s2) /\ Kept(s, s2, {x}) /\ x \in Slot /\ ~Listed(s, x) /\ Listed(s2, x)
  /\ s2.at[x] = [left |-> left, every |-> left, refs |-> 1, call |-> call, arg |-> c]
  /\ \A a \in Range(s.list) : InFront(s2, a, x)
  /\ Len(s2.free) = Len(s.free) - 1

(* timer_start.                                                            *)
LEMMA StartFacts ==
  ASSUME NEW s, Stored(s), s.free # <<>>,
         NEW call \in Callbacks, NEW c \in Whose, NEW left \in Int
  PROVE  Starts(s, StartTimer(s, call, c, left), NextSlot(s), call, c, left)
<1> DEFINE x == NextSlot(s)
           new == [left |-> left, every |-> left, refs |-> 1, call |-> call, arg |-> c]
           s2 == StartTimer(s, call, c, left)
           L == Append(s.list, x)
           A == [s.at EXCEPT ![x] = new]
<1>0. /\ s.list \in Seq(Slot) /\ s.free \in Seq(Slot) /\ s.at \in [Slot -> Timer]
      /\ IsInjective(s.list) /\ IsInjective(s.free)
      /\ Range(s.list) \cap Range(s.free) = {}
      /\ Range(s.list) \cup Range(s.free) = Slot
  BY StoreFacts
<1>1. /\ x \in Range(s.free) /\ Tail(s.free) \in Seq(Slot) /\ IsInjective(Tail(s.free))
      /\ Range(Tail(s.free)) = Range(s.free) \ {x} /\ Len(Tail(s.free)) = Len(s.free) - 1
  BY <1>0, TailFacts, Zenon DEF NextSlot
<1>2. x \in Slot /\ x \notin Range(s.list)
  BY <1>0, <1>1
<1>3. s2 = [list |-> L, free |-> Tail(s.free), at |-> A]
  BY DEF StartTimer
<1> HIDE DEF x, s2
<1>4. /\ L \in Seq(Slot) /\ IsInjective(L) /\ Range(L) = Range(s.list) \cup {x}
      /\ \A i \in DOMAIN s.list : i \in DOMAIN L /\ L[i] = s.list[i]
      /\ \A i \in DOMAIN s.list : i < Len(s.list) + 1
      /\ Len(s.list) + 1 \in DOMAIN L /\ L[Len(s.list) + 1] = x
  <2>1. /\ s.list \in Seq(Slot) /\ IsInjective(s.list)
        /\ x \in Slot /\ x \notin Range(s.list)
    BY <1>0, <1>2
  <2> QED
    BY <2>1, AppendFacts
<1>5. A \in [Slot -> Timer] /\ A[x] = new /\ \A y \in Slot \ {x} : A[y] = s.at[y]
  <2>1. new \in Timer
    BY DEF Timer
  <2> HIDE DEF new
  <2> QED
    BY <1>0, <1>2, <2>1
<1> HIDE DEF L, A, new
<1>6. s2.list = L /\ s2.at = A
  BY <1>3
<1>7. Stored(s2)
  <2>1. Range(L) \cap Range(Tail(s.free)) = {} /\ Range(L) \cup Range(Tail(s.free)) = Slot
    BY <1>0, <1>1, <1>2, <1>4
  <2> QED
    BY <1>1, <1>3, <1>4, <1>5, <2>1, StoreMade, Zenon
<1>8. Kept(s, s2, {x})
  <2>1. \A y \in Range(s.list) \ {x} : y \in Range(s2.list) /\ s2.at[y] = s.at[y]
    BY <1>0, <1>4, <1>5, <1>6
  <2>2. \A y \in Range(s2.list) \ {x} : y \in Range(s.list)
    BY <1>4, <1>6
  <2>3. \A a, b : InFront(s, a, b) => InFront(s2, a, b)
    BY <1>4, <1>6, Zenon DEF InFront
  <2> QED
    BY <2>1, <2>2, <2>3, Zenon DEF Kept
<1>9. \A a \in Range(s.list) : InFront(s2, a, x)
  <2> SUFFICES ASSUME NEW a \in Range(s.list) PROVE InFront(s2, a, x)
    OBVIOUS
  <2>1. PICK i \in DOMAIN s.list : s.list[i] = a
    BY DEF Range
  <2> QED
    BY <1>4, <1>6, <2>1, Zenon DEF InFront
<1>10. Listed(s2, x) /\ ~Listed(s, x) /\ s2.at[x] = new
  BY <1>2, <1>4, <1>5, <1>6 DEF Listed
<1>11. Len(s2.free) = Len(s.free) - 1
  BY <1>1, <1>3
<1> QED
  BY <1>2, <1>7, <1>8, <1>9, <1>10, <1>11 DEF x, s2, new, Starts

(* timer_remove frees the block.                                           *)
LEMMA RemoveFacts ==
  ASSUME NEW s, Stored(s), NEW x \in Range(s.list)
  PROVE  /\ Stored(RemoveTimer(s, x)) /\ Kept(s, RemoveTimer(s, x), {x})
         /\ ~Listed(RemoveTimer(s, x), x)
         /\ Len(RemoveTimer(s, x).free) = Len(s.free) + 1
         /\ \A y \in Range(s.list) \ {x} : Listed(RemoveTimer(s, x), y)
<1> DEFINE s2 == RemoveTimer(s, x)
           n == Place(s, x)
           L == RemoveAt(s.list, n)
           F == <<x>> \o s.free
           A == [s.at EXCEPT ![x] = Blank]
<1>0. /\ s.list \in Seq(Slot) /\ s.free \in Seq(Slot) /\ s.at \in [Slot -> Timer]
      /\ IsInjective(s.list) /\ IsInjective(s.free)
      /\ Range(s.list) \cap Range(s.free) = {}
      /\ Range(s.list) \cup Range(s.free) = Slot
  BY StoreFacts
<1>1. n \in DOMAIN s.list /\ s.list[n] = x /\ DOMAIN s.list = 1 .. Len(s.list)
  BY <1>0 DEF Place, Range
<1>2. x \in Slot /\ x \notin Range(s.free)
  BY <1>0
<1>3. s2 = [list |-> L, free |-> F, at |-> A]
  BY DEF RemoveTimer, Listed
<1> HIDE DEF s2, n
<1>4. /\ L \in Seq(Slot) /\ IsInjective(L) /\ Range(L) = Range(s.list) \ {s.list[n]}
      /\ \A i \in DOMAIN s.list \ {n}, j \in DOMAIN s.list \ {n} : i < j =>
              \E i2 \in DOMAIN L, j2 \in DOMAIN L :
                i2 < j2 /\ L[i2] = s.list[i] /\ L[j2] = s.list[j]
  BY <1>0, <1>1, TakenOut, ZenonT(60)
<1>5. F \in Seq(Slot) /\ IsInjective(F) /\ Range(F) = Range(s.free) \cup {x}
      /\ Len(F) = Len(s.free) + 1
  BY <1>0, <1>2, PutBackFacts
<1>7. A \in [Slot -> Timer] /\ \A y \in Slot \ {x} : A[y] = s.at[y]
  <2>1. Blank \in Timer
    BY DEF Blank, Timer
  <2> QED
    BY <1>0, <1>2, <2>1
<1> HIDE DEF L, F, A
<1>8. s2.list = L /\ s2.at = A /\ s2.free = F
  BY <1>3
<1>9. Stored(s2)
  <2>1. Range(L) \cap Range(F) = {} /\ Range(L) \cup Range(F) = Slot
    BY <1>0, <1>1, <1>2, <1>4, <1>5
  <2> QED
    BY <1>3, <1>4, <1>5, <1>7, <2>1, StoreMade, Zenon
<1>10. Kept(s, s2, {x})
  <2>1. \A y \in Range(s.list) \ {x} : y \in Range(s2.list) /\ s2.at[y] = s.at[y]
    BY <1>0, <1>1, <1>4, <1>7, <1>8
  <2>2. \A y \in Range(s2.list) \ {x} : y \in Range(s.list)
    BY <1>4, <1>8
  <2>3. ASSUME NEW a \in Range(s.list) \ {x}, NEW b \in Range(s.list) \ {x}, InFront(s, a, b)
        PROVE  InFront(s2, a, b)
    <3>1. PICK i \in DOMAIN s.list, j \in DOMAIN s.list :
             i < j /\ s.list[i] = a /\ s.list[j] = b
      BY <2>3 DEF InFront
    <3>2. i \in DOMAIN s.list \ {n} /\ j \in DOMAIN s.list \ {n}
      BY <1>1, <2>3, <3>1
    <3>3. \E i2 \in DOMAIN L, j2 \in DOMAIN L :
            i2 < j2 /\ L[i2] = s.list[i] /\ L[j2] = s.list[j]
      BY <1>4, <3>1, <3>2
    <3> QED
      BY <1>8, <3>1, <3>3 DEF InFront
  <2> QED
    BY <2>1, <2>2, <2>3, Zenon DEF Kept
<1>11. ~Listed(s2, x)
  BY <1>1, <1>4, <1>8 DEF Listed
<1>12. Len(s2.free) = Len(s.free) + 1 /\ \A y \in Range(s.list) \ {x} : Listed(s2, y)
  BY <1>5, <1>8, <1>10 DEF Kept, Listed
<1> QED
  BY <1>9, <1>10, <1>11, <1>12 DEF s2

(* Nothing happens to a timer nobody points to.                            *)
LEMMA SameFacts ==
  ASSUME NEW s, NEW S
  PROVE  Kept(s, s, S)
  BY Zenon DEF Kept

(* timer_cancel.                                                           *)
LEMMA CancelFacts ==
  ASSUME NEW s, Stored(s), NEW x, x = NoTimer \/ Listed(s, x)
  PROVE  /\ Stored(CancelTimer(s, x)) /\ Kept(s, CancelTimer(s, x), {x})
         /\ ~Listed(CancelTimer(s, x), x)
         /\ x # NoTimer => Len(CancelTimer(s, x).free) = Len(s.free) + 1
         /\ \A y \in Range(s.list) \ {x} : Listed(CancelTimer(s, x), y)
<1>1. CASE x = NoTimer
  <2>1. CancelTimer(s, x) = s
    BY <1>1 DEF CancelTimer
  <2>2. ~Listed(s, x)
    BY <1>1, StoreFacts, NoTimerAssumption, Zenon DEF Listed, NoTimerAssumption
  <2> QED
    BY <1>1, <2>1, <2>2, SameFacts DEF Listed
<1>2. CASE x # NoTimer
  <2>1. CancelTimer(s, x) = RemoveTimer(s, x) /\ x \in Range(s.list)
    BY <1>2 DEF CancelTimer, Listed
  <2> DEFINE d == RemoveTimer(s, x)
  <2>2. /\ Stored(d) /\ Kept(s, d, {x}) /\ ~Listed(d, x) /\ Len(d.free) = Len(s.free) + 1
        /\ \A y \in Range(s.list) \ {x} : Listed(d, y)
    BY <2>1, RemoveFacts
  <2>3. CancelTimer(s, x) = d
    BY <2>1
  <2> HIDE DEF d
  <2> QED
    BY <1>2, <2>2, <2>3
<1> QED
  BY <1>1, <1>2

(* A store one timer of which is written to.                               *)
LEMMA WriteFacts ==
  ASSUME NEW s, Stored(s), NEW x \in Slot, NEW q \in Timer
  PROVE  /\ Stored([s EXCEPT !.at = [s.at EXCEPT ![x] = q]])
         /\ Kept(s, [s EXCEPT !.at = [s.at EXCEPT ![x] = q]], {x})
         /\ [s EXCEPT !.at = [s.at EXCEPT ![x] = q]].list = s.list
         /\ [s EXCEPT !.at = [s.at EXCEPT ![x] = q]].free = s.free
         /\ [s EXCEPT !.at = [s.at EXCEPT ![x] = q]].at[x] = q
         /\ \A y \in Slot \ {x} : [s EXCEPT !.at = [s.at EXCEPT ![x] = q]].at[y] = s.at[y]
<1> DEFINE A == [s.at EXCEPT ![x] = q]
           s2 == [s EXCEPT !.at = A]
<1>0. /\ s.list \in Seq(Slot) /\ s.free \in Seq(Slot) /\ s.at \in [Slot -> Timer]
      /\ IsInjective(s.list) /\ IsInjective(s.free)
      /\ Range(s.list) \cap Range(s.free) = {}
      /\ Range(s.list) \cup Range(s.free) = Slot
      /\ Range(s.list) \subseteq Slot
  BY StoreFacts
<1>1. A \in [Slot -> Timer] /\ A[x] = q /\ \A y \in Slot \ {x} : A[y] = s.at[y]
  BY <1>0
<1> HIDE DEF A
<1>2. s2 = [list |-> s.list, free |-> s.free, at |-> A]
  BY DEF Stored, Store
<1> HIDE DEF s2
<1>3. Stored(s2)
  BY <1>0, <1>1, <1>2, StoreMade, Zenon
<1>4. s2.list = s.list /\ s2.free = s.free /\ s2.at = A
  BY <1>2
<1>5. Kept(s, s2, {x})
  BY <1>0, <1>1, <1>4 DEF Kept, InFront
<1> QED
  BY <1>1, <1>3, <1>4, <1>5 DEF s2, A

(* timer_push: nobody waits for the timer any more.                        *)
LEMMA PushFacts ==
  ASSUME NEW s, Stored(s), NEW x, x = NoTimer \/ Listed(s, x)
  PROVE  /\ Stored(PushTimer(s, x)) /\ Kept(s, PushTimer(s, x), {x})
         /\ PushTimer(s, x).list = s.list
         /\ x # NoTimer => PushTimer(s, x).at[x].refs = 0
<1>1. CASE x = NoTimer \/ s.at[x].refs = 0
  <2>1. PushTimer(s, x) = s
    BY <1>1 DEF PushTimer
  <2> QED
    BY <1>1, <2>1, SameFacts, Zenon
<1>2. CASE ~(x = NoTimer \/ s.at[x].refs = 0)
  <2>0. x \in Slot /\ s.at[x] \in Timer /\ s.at[x].refs \in {0, 1} /\ s \in Store
    BY <1>2, StoreFacts DEF Listed, Stored
  <2> DEFINE q == [s.at[x] EXCEPT !.refs = 0]
  <2>1. PushTimer(s, x) = [s EXCEPT !.at[x].refs = @ - 1]
    BY <1>2 DEF PushTimer
  <2>2. s.at[x].refs - 1 = 0
    BY <1>2, <2>0
  <2>3. PushTimer(s, x) = [s EXCEPT !.at = [s.at EXCEPT ![x] = q]]
    BY <2>1, <2>2
  <2>4. q \in Timer /\ q.refs = 0
    BY <2>0 DEF Timer
  <2> HIDE DEF q
  <2> DEFINE s2 == [s EXCEPT !.at = [s.at EXCEPT ![x] = q]]
  <2>5. Stored(s2) /\ Kept(s, s2, {x}) /\ s2.list = s.list /\ s2.at[x] = q
    <3>1. x \in Slot /\ q \in Timer
      BY <2>0, <2>4
    <3> QED
      BY <3>1, WriteFacts
  <2> HIDE DEF s2
  <2>6. PushTimer(s, x) = s2
    BY <2>3 DEF s2
  <2> QED
    BY <2>4, <2>5, <2>6
<1> QED
  BY <1>1, <1>2, Zenon

(* It does not write what a timer calls.                                   *)
LEMMA PushCalls ==
  ASSUME NEW s, Stored(s), NEW x, NEW y \in Range(s.list)
  PROVE  PushTimer(s, x).at[y].call = s.at[y].call
<1>1. CASE x = NoTimer \/ s.at[x].refs = 0
  BY <1>1 DEF PushTimer
<1>2. CASE ~(x = NoTimer \/ s.at[x].refs = 0)
  <2>1. PushTimer(s, x) = [s EXCEPT !.at[x].refs = @ - 1] /\ y \in Slot /\ s \in Store
    BY <1>2, StoreFacts DEF PushTimer, Stored
  <2> DEFINE A == [s.at EXCEPT ![x].refs = @ - 1]
  <2>2. PushTimer(s, x).at = A
    BY <2>1 DEF Store
  <2>3. s.at \in [Slot -> Timer] /\ s.at[y] \in Timer
    BY <2>1, StoreFacts
  <2>4. A[y].call = s.at[y].call
    <3>1. CASE x = y
      <4>1. A[y] = [s.at[y] EXCEPT !.refs = @ - 1]
        BY <2>1, <2>3, <3>1
      <4> QED
        BY <2>3, <4>1 DEF Timer
    <3>2. CASE x # y
      BY <2>3, <3>2
    <3> QED
      BY <3>1, <3>2
  <2> QED
    BY <2>2, <2>4
<1> QED
  BY <1>1, <1>2

(* What timer_run writes when a callback wants no more calls, ...          *)
LEMMA CalledOnceFacts ==
  ASSUME NEW s, Stored(s), NEW x \in Range(s.list)
  PROVE  /\ Stored(Called(s, x, 1)) /\ Kept(s, Called(s, x, 1), {x})
         /\ Called(s, x, 1).list = s.list /\ Called(s, x, 1).at[x].refs = 0
<1>0. x \in Slot /\ s.at[x] \in Timer /\ s \in Store
  BY StoreFacts DEF Stored
<1> DEFINE q == [s.at[x] EXCEPT !.refs = 0]
<1>1. Called(s, x, 1) = [s EXCEPT !.at[x].refs = 0]
  BY DEF Called, Listed
<1>2. Called(s, x, 1) = [s EXCEPT !.at = [s.at EXCEPT ![x] = q]]
  BY <1>1
<1>3. q \in Timer /\ q.refs = 0
  BY <1>0 DEF Timer
<1> HIDE DEF q
<1> DEFINE s2 == [s EXCEPT !.at = [s.at EXCEPT ![x] = q]]
<1>4. Stored(s2) /\ Kept(s, s2, {x}) /\ s2.list = s.list /\ s2.at[x] = q
  <2>1. x \in Slot /\ q \in Timer
    BY <1>0, <1>3
  <2> QED
    BY <2>1, WriteFacts, ZenonT(60)
<1> HIDE DEF s2
<1>5. Called(s, x, 1) = s2
  BY <1>2 DEF s2
<1> QED
  BY <1>3, <1>4, <1>5

(* ... and when it is to be called again.                                  *)
LEMMA CalledAgainFacts ==
  ASSUME NEW s, Stored(s), NEW x \in Slot
  PROVE  /\ Stored(Called(s, x, 0)) /\ Retimed(s, Called(s, x, 0))
         /\ \A y \in Range(s.list) :
              Called(s, x, 0).at[y].left =
                IF y = x THEN s.at[y].left + s.at[y].every ELSE s.at[y].left
<1>0. /\ s.at[x] \in Timer /\ s.at[x].left \in Int /\ s.at[x].every \in Int /\ s \in Store
      /\ \A y \in Range(s.list) : y \in Slot
  BY StoreFacts DEF Stored
<1>1. CASE ~Listed(s, x)
  <2>1. Called(s, x, 0) = s /\ x \notin Range(s.list)
    BY <1>1 DEF Called, Listed
  <2>2. Retimed(s, s)
    BY DEF Retimed
  <2> QED
    BY <2>1, <2>2
<1>2. CASE Listed(s, x)
  <2> DEFINE q == [s.at[x] EXCEPT !.left = @ + s.at[x].every]
             s2 == [s EXCEPT !.at = [s.at EXCEPT ![x] = q]]
  <2>1. Called(s, x, 0) = [s EXCEPT !.at[x].left = @ + s.at[x].every]
    BY <1>2 DEF Called
  <2>2. Called(s, x, 0) = s2
    BY <2>1
  <2>3. /\ q \in Timer /\ q.left = s.at[x].left + s.at[x].every
        /\ q.refs = s.at[x].refs /\ q.call = s.at[x].call /\ q.arg = s.at[x].arg
        /\ q.every = s.at[x].every
    BY <1>0 DEF Timer
  <2> HIDE DEF q
  <2>4. /\ Stored(s2) /\ s2.list = s.list /\ s2.free = s.free /\ s2.at[x] = q
        /\ \A y \in Slot \ {x} : s2.at[y] = s.at[y]
    BY <1>0, <2>3, WriteFacts, ZenonT(60)
  <2> HIDE DEF s2
  <2>5. Retimed(s, s2)
    BY <1>0, <2>3, <2>4 DEF Retimed
  <2>6. \A y \in Range(s.list) :
          s2.at[y].left = IF y = x THEN s.at[y].left + s.at[y].every ELSE s.at[y].left
    BY <1>0, <2>3, <2>4
  <2> QED
    BY <2>2, <2>4, <2>5, <2>6, Zenon
<1> QED
  BY <1>1, <1>2

(* timer_update and timer_shift move all deadlines.                        *)
LEMMA PassFacts ==
  ASSUME NEW s, Stored(s), NEW e \in Int
  PROVE  /\ Stored(Pass(s, e)) /\ Retimed(s, Pass(s, e))
         /\ \A y \in Range(s.list) : Pass(s, e).at[y].left = s.at[y].left - e
<1> DEFINE A == [y \in Slot |-> IF Listed(s, y) THEN [s.at[y] EXCEPT !.left = @ - e] ELSE s.at[y]]
           s2 == [s EXCEPT !.at = A]
<1>0. /\ s.list \in Seq(Slot) /\ s.free \in Seq(Slot) /\ s.at \in [Slot -> Timer]
      /\ IsInjective(s.list) /\ IsInjective(s.free)
      /\ Range(s.list) \cap Range(s.free) = {}
      /\ Range(s.list) \cup Range(s.free) = Slot
      /\ \A y \in Range(s.list) : y \in Slot
      /\ \A y \in Slot : s.at[y] \in Timer
  BY StoreFacts
<1>1. Pass(s, e) = s2
  BY Zenon DEF Pass
<1>2. \A y \in Slot : A[y] \in Timer
  <2>1. ASSUME NEW y \in Slot PROVE [s.at[y] EXCEPT !.left = @ - e] \in Timer
    <3>1. s.at[y] \in Timer
      BY <1>0
    <3> QED
      BY <3>1 DEF Timer
  <2> QED
    BY <1>0, <2>1
<1>3. A \in [Slot -> Timer]
  BY <1>2
<1>4. \A y \in Range(s.list) : A[y] = [s.at[y] EXCEPT !.left = @ - e]
  BY <1>0 DEF Listed
<1>5. \A y \in Range(s.list) : /\ A[y].left = s.at[y].left - e /\ A[y].refs = s.at[y].refs
                               /\ A[y].call = s.at[y].call /\ A[y].arg = s.at[y].arg
                               /\ A[y].every = s.at[y].every
  <2> SUFFICES ASSUME NEW y \in Range(s.list)
               PROVE  /\ A[y].left = s.at[y].left - e /\ A[y].refs = s.at[y].refs
                      /\ A[y].call = s.at[y].call /\ A[y].arg = s.at[y].arg
                      /\ A[y].every = s.at[y].every
    OBVIOUS
  <2> DEFINE q == s.at[y]
  <2>1. q \in Timer
    BY <1>0
  <2>2. A[y] = [q EXCEPT !.left = @ - e]
    BY <1>4
  <2> HIDE DEF A, q
  <2>3. /\ A[y].left = q.left - e /\ A[y].refs = q.refs /\ A[y].call = q.call
        /\ A[y].arg = q.arg /\ A[y].every = q.every
    BY <2>1, <2>2 DEF Timer
  <2> QED
    BY <2>3 DEF q
<1> HIDE DEF A
<1>6. s2 = [list |-> s.list, free |-> s.free, at |-> A]
  BY DEF Stored, Store
<1> HIDE DEF s2
<1>7. Stored(s2)
  BY <1>0, <1>3, <1>6, StoreMade, Zenon
<1>8. s2.list = s.list /\ s2.free = s.free /\ s2.at = A
  BY <1>6
<1>9. Retimed(s, s2)
  BY <1>5, <1>8 DEF Retimed
<1> QED
  BY <1>1, <1>5, <1>7, <1>8, <1>9

(* The timer behind another.                                               *)
LEMMA AfterFacts ==
  ASSUME NEW s, Stored(s), NEW x \in Range(s.list), After(s, x) # NoTimer
  PROVE  /\ Listed(s, After(s, x)) /\ After(s, x) # x
         /\ \A a : InFront(s, a, x) => a # After(s, x)
<1> DEFINE n == Place(s, x)
           L == s.list
<1>0. L \in Seq(Slot) /\ IsInjective(L)
  BY StoreFacts
<1>1. n \in DOMAIN L /\ L[n] = x /\ DOMAIN L = 1 .. Len(L) /\ Len(L) \in Nat
  BY <1>0 DEF Place, Range
<1>2. After(s, x) = L[n + 1] /\ x # L[Len(L)]
  BY DEF After, Listed, Last
<1> HIDE DEF n
<1>3. n + 1 \in 1 .. Len(L) /\ n + 1 # n
  BY <1>1, <1>2
<1>4. \A i \in 1 .. Len(L), j \in 1 .. Len(L) : L[i] = L[j] => i = j
  BY <1>0, <1>1, Zenon DEF IsInjective
<1>5. L[n + 1] # x /\ L[n + 1] \in Range(L)
  BY <1>1, <1>3, <1>4 DEF Range
<1>6. ASSUME NEW a, InFront(s, a, x) PROVE a # L[n + 1]
  <2>1. PICK i \in 1 .. Len(L), j \in 1 .. Len(L) : i < j /\ L[i] = a /\ L[j] = x
    BY <1>1, <1>6 DEF InFront
  <2>2. j = n
    BY <1>1, <1>4, <2>1
  <2>3. i # n + 1
    BY <1>1, <2>1, <2>2
  <2> QED
    BY <1>3, <1>4, <2>1, <2>3
<1> QED
  BY <1>2, <1>5, <1>6 DEF Listed

(* What is listed behind a timer is the next one or behind that.           *)
LEMMA BehindFacts ==
  ASSUME NEW s, Stored(s), NEW x, NEW b, InFront(s, x, b)
  PROVE  After(s, x) # NoTimer /\ (b = After(s, x) \/ InFront(s, After(s, x), b))
<1> DEFINE n == Place(s, x)
           L == s.list
<1>0. /\ L \in Seq(Slot) /\ IsInjective(L) /\ DOMAIN L = 1 .. Len(L) /\ Len(L) \in Nat
      /\ \A i \in 1 .. Len(L) : L[i] \in Slot
  BY StoreFacts
<1>1. PICK i \in 1 .. Len(L), j \in 1 .. Len(L) : i < j /\ L[i] = x /\ L[j] = b
  BY <1>0 DEF InFront
<1>2. \A k \in 1 .. Len(L), m \in 1 .. Len(L) : L[k] = L[m] => k = m
  BY <1>0, Zenon DEF IsInjective
<1>3. n = i
  <2>1. n \in 1 .. Len(L) /\ L[n] = x
    BY <1>0, <1>1 DEF Place
  <2> QED
    BY <1>1, <1>2, <2>1
<1>4. x \in Slot /\ x # NoTimer /\ Listed(s, x)
  BY <1>0, <1>1, NoTimerAssumption DEF Listed, Range, NoTimerAssumption
<1>5. i + 1 \in 1 .. Len(L) /\ i # Len(L) /\ Len(L) \in 1 .. Len(L)
  BY <1>0, <1>1
<1>6. x # L[Len(L)]
  BY <1>1, <1>2, <1>5
<1>7. After(s, x) = L[i + 1]
  BY <1>3, <1>4, <1>6 DEF After, Last
<1>8. L[i + 1] # NoTimer
  BY <1>0, <1>5, NoTimerAssumption DEF NoTimerAssumption
<1>9. CASE j = i + 1
  BY <1>1, <1>7, <1>8, <1>9
<1>10. CASE j # i + 1
  <2>1. i + 1 < j
    BY <1>0, <1>1, <1>10
  <2>2. InFront(s, L[i + 1], b)
    BY <1>0, <1>1, <1>5, <2>1 DEF InFront
  <2> QED
    BY <1>7, <1>8, <2>2
<1> QED
  BY <1>9, <1>10

(* dlink's next is what stands next.                                       *)
LEMMA NextFacts ==
  ASSUME NEW s, Stored(s), NEW x \in Range(s.list)
  PROVE  NextBehind(s, x, After(s, x)) /\ After(s, x) \in Slot \cup {NoTimer}
<1>1. \A z : InFront(s, x, z) =>
        After(s, x) # NoTimer /\ (z = After(s, x) \/ InFront(s, After(s, x), z))
  BY BehindFacts
<1>2. ASSUME After(s, x) # NoTimer PROVE InFront(s, x, After(s, x)) /\ After(s, x) \in Slot
  <2> DEFINE n == Place(s, x)
             L == s.list
  <2>0. /\ L \in Seq(Slot) /\ DOMAIN L = 1 .. Len(L) /\ Len(L) \in Nat
        /\ \A i \in 1 .. Len(L) : L[i] \in Slot
    BY StoreFacts
  <2>1. n \in 1 .. Len(L) /\ L[n] = x
    BY <2>0 DEF Place, Range
  <2>2. After(s, x) = L[n + 1] /\ x # L[Len(L)]
    BY <1>2 DEF After, Listed, Last
  <2> HIDE DEF n
  <2>3. n + 1 \in 1 .. Len(L) /\ n < n + 1
    BY <2>0, <2>1, <2>2
  <2> QED
    BY <2>0, <2>1, <2>2, <2>3 DEF InFront
<1> QED
  BY <1>1, <1>2 DEF NextBehind

(* Being in front is a total order of what is listed.                      *)
LEMMA OrderFacts ==
  ASSUME NEW s, Stored(s)
  PROVE  /\ \A a, b : InFront(s, a, b) =>
              /\ a \in Range(s.list) /\ b \in Range(s.list) /\ a # b /\ ~InFront(s, b, a)
         /\ \A a \in Range(s.list), b \in Range(s.list) :
              a # b => InFront(s, a, b) \/ InFront(s, b, a)
<1> DEFINE L == s.list
<1>0. DOMAIN L = 1 .. Len(L) /\ Len(L) \in Nat
  BY StoreFacts
<1>1. \A k \in 1 .. Len(L), m \in 1 .. Len(L) : L[k] = L[m] => k = m
  BY <1>0, StoreFacts, Zenon DEF IsInjective
<1>2. ASSUME NEW a, NEW b, InFront(s, a, b)
      PROVE  a \in Range(L) /\ b \in Range(L) /\ a # b /\ ~InFront(s, b, a)
  <2>1. PICK i \in 1 .. Len(L), j \in 1 .. Len(L) : i < j /\ L[i] = a /\ L[j] = b
    BY <1>0, <1>2 DEF InFront
  <2>2. a # b
    BY <1>1, <2>1
  <2>3. ASSUME InFront(s, b, a) PROVE FALSE
    <3>1. PICK k \in 1 .. Len(L), m \in 1 .. Len(L) : k < m /\ L[k] = b /\ L[m] = a
      BY <1>0, <2>3 DEF InFront
    <3>2. k = j /\ m = i
      BY <1>1, <2>1, <3>1
    <3> QED
      BY <2>1, <3>1, <3>2
  <2> QED
    BY <1>0, <2>1, <2>2, <2>3 DEF Range
<1>3. ASSUME NEW a \in Range(L), NEW b \in Range(L), a # b
      PROVE  InFront(s, a, b) \/ InFront(s, b, a)
  <2>1. PICK i \in 1 .. Len(L), j \in 1 .. Len(L) : L[i] = a /\ L[j] = b
    BY <1>0 DEF Range
  <2>2. i < j \/ j < i
    BY <1>3, <2>1
  <2> QED
    BY <1>0, <2>1, <2>2 DEF InFront
<1> QED
  BY <1>2, <1>3

(* What is next stays next when others are taken from the list.            *)
LEMMA NextStays ==
  ASSUME NEW s, NEW s2, Stored(s), Stored(s2), NEW p,
         \A x \in Range(s2.list) : x \in Range(s.list) /\ x # p,
         \A a \in Range(s.list) \ {p}, b \in Range(s.list) \ {p} :
           InFront(s, a, b) => InFront(s2, a, b),
         NEW x \in Range(s.list), x # p, NEW y, y # p, NextBehind(s, x, y)
  PROVE  NextBehind(s2, x, y)
<1>1. \A a, b : InFront(s2, a, b) => InFront(s, a, b) /\ a # p /\ b # p
  <2> SUFFICES ASSUME NEW a, NEW b, InFront(s2, a, b) PROVE InFront(s, a, b) /\ a # p /\ b # p
    OBVIOUS
  <2>1. a \in Range(s2.list) /\ b \in Range(s2.list) /\ a # b /\ ~InFront(s2, b, a)
    BY OrderFacts
  <2>2. a \in Range(s.list) /\ b \in Range(s.list) /\ a # p /\ b # p
    BY <2>1
  <2>3. InFront(s, a, b) \/ InFront(s, b, a)
    BY <2>1, <2>2, OrderFacts
  <2> QED
    BY <2>1, <2>2, <2>3
<1>2. \A a, b : InFront(s, a, b) /\ a # p /\ b # p => InFront(s2, a, b)
  BY OrderFacts
<1> QED
  BY <1>1, <1>2 DEF NextBehind

(* A set of numbers has a smallest.                                        *)
LEMMA LeastIn ==
  ASSUME NEW S \in SUBSET Nat, S # {}
  PROVE  \E x \in S : \A y \in S : x <= y
<1>1. \E x \in S : \A y \in S : ~ (<<y, x>> \in OpToRel(<, Nat))
  BY NatLessThanWellFounded, WFMin, Zenon
<1>2. \A x \in S, y \in S : <<y, x>> \in OpToRel(<, Nat) <=> y < x
  <2>1. \A x \in Nat, y \in Nat : <<y, x>> \in {p \in Nat \X Nat : p[1] < p[2]} <=> y < x
    OBVIOUS
  <2> QED
    BY <2>1, Zenon DEF OpToRel
<1>3. \E x \in S : \A y \in S : ~(y < x)
  BY <1>1, <1>2, Zenon
<1> QED
  BY <1>3

(* timer_timeout is the time that is left of the next deadline, or 0.      *)
LEMMA TimeoutFacts ==
  ASSUME NEW s, Stored(s)
  PROVE  /\ TimeoutOf(s) \in Int
         /\ s.list # <<>> => TimeoutOf(s) >= 0
         /\ \A x \in Range(s.list) : TimeoutOf(s) <= s.at[x].left \/ TimeoutOf(s) = 0
<1> DEFINE L == s.list
           X == {s.at[x].left : x \in Range(L)}
           Bad == {n \in 1 .. Len(L) : \A i \in 1 .. n : \E j \in 1 .. n :
                     ~(s.at[L[i]].left <= s.at[L[j]].left)}
<1>0. /\ L \in Seq(Slot) /\ Len(L) \in Nat /\ DOMAIN L = 1 .. Len(L)
      /\ \A i \in 1 .. Len(L) : L[i] \in Slot /\ s.at[L[i]].left \in Int
  BY StoreFacts
<1>1. CASE L = <<>>
  BY <1>0, <1>1 DEF TimeoutOf, Range
<1>2. CASE L # <<>>
  <2>0. Len(L) \in 1 .. Len(L)
    BY <1>0, <1>2
  <2>1. Bad = {}
    <3> SUFFICES ASSUME Bad # {} PROVE FALSE
      OBVIOUS
    <3>1. PICK n \in Bad : \A m \in Bad : n <= m
      BY LeastIn, Bad \in SUBSET Nat
    <3>2. /\ n \in 1 .. Len(L)
          /\ \A i \in 1 .. n : \E j \in 1 .. n : ~(s.at[L[i]].left <= s.at[L[j]].left)
      BY <3>1
    <3>3. n # 1
      <4> SUFFICES ASSUME n = 1 PROVE FALSE
        OBVIOUS
      <4>1. 1 \in 1 .. n /\ \A j \in 1 .. n : j = 1
        OBVIOUS
      <4>2. ~(s.at[L[1]].left <= s.at[L[1]].left)
        BY <3>2, <4>1
      <4>3. s.at[L[1]].left \in Int
        BY <1>0, <3>2
      <4> QED
        BY <4>2, <4>3, SMTT(40)
    <3>4. n - 1 \in 1 .. Len(L) /\ ~(n <= n - 1)
      BY <1>0, <3>2, <3>3
    <3>5. n - 1 \notin Bad
      BY <3>1, <3>4
    <3>6. PICK i \in 1 .. n - 1 : \A j \in 1 .. n - 1 : s.at[L[i]].left <= s.at[L[j]].left
      BY <3>4, <3>5
    <3>7. i \in 1 .. n /\ n \in 1 .. n /\ 1 .. n = (1 .. n - 1) \cup {n}
      BY <3>2, <3>3, <3>6, SMTT(40)
    <3>8. \A j \in 1 .. n : s.at[L[j]].left \in Int
      BY <1>0, <3>2, SMTT(40)
    <3>9. CASE s.at[L[i]].left <= s.at[L[n]].left
      BY <3>2, <3>6, <3>7, <3>9
    <3>10. CASE ~(s.at[L[i]].left <= s.at[L[n]].left)
      <4>1. ASSUME NEW j \in 1 .. n PROVE s.at[L[n]].left <= s.at[L[j]].left
        <5> DEFINE a == s.at[L[n]].left
                   b == s.at[L[i]].left
                   c == s.at[L[j]].left
        <5>1. a \in Int /\ b \in Int /\ c \in Int
          BY <3>7, <3>8
        <5>2. ~(b <= a)
          BY <3>10
        <5>3. CASE j \in 1 .. n - 1
          <6>1. b <= c
            BY <3>6, <5>3
          <6> HIDE DEF a, b, c
          <6>2. a <= c
            BY <5>1, <5>2, <6>1
          <6> QED
            BY <6>2 DEF a, c
        <5>4. CASE j = n
          <6>1. a = c
            BY <5>4
          <6> HIDE DEF a, c
          <6>2. a <= c
            BY <5>1, <6>1
          <6> QED
            BY <6>2 DEF a, c
        <5> QED
          BY <3>7, <5>3, <5>4
      <4> QED
        BY <3>2, <3>7, <4>1
    <3> QED
      BY <3>9, <3>10
  <2>2. PICK i \in 1 .. Len(L) : \A j \in 1 .. Len(L) : s.at[L[i]].left <= s.at[L[j]].left
    BY <2>0, <2>1
  <2>3. X = {s.at[L[j]].left : j \in 1 .. Len(L)}
    BY <1>0 DEF Range
  <2>4. \E m \in X : \A y \in X : m <= y
    BY <2>2, <2>3
  <2>5. Min(X) \in X /\ \A y \in X : Min(X) <= y
    BY <2>4 DEF Min
  <2>6. Min(X) \in Int
    BY <1>0, <2>3, <2>5
  <2>7. TimeoutOf(s) = IF Min(X) < 0 THEN 0 ELSE Min(X)
    BY <1>2 DEF TimeoutOf
  <2>8. \A x \in Range(L) : s.at[x].left \in X
    OBVIOUS
  <2> HIDE DEF X
  <2>9. \A x \in Range(L) : Min(X) <= s.at[x].left
    BY <2>5, <2>8
  <2> QED
    BY <2>6, <2>7, <2>9
<1> QED
  BY <1>1, <1>2

(* timer_collect frees the timers nobody waits for, and no others: on its  *)
(* way it never comes to one that it has already freed.                    *)
LEMMA CollectFacts ==
  ASSUME NEW s, Stored(s)
  PROVE  /\ Stored(CollectTimers(s))
         /\ Kept(s, CollectTimers(s), {x \in Range(s.list) : s.at[x].refs = 0})
         /\ \A x \in Range(CollectTimers(s).list) : x \in Range(s.list) /\ s.at[x].refs # 0
<1> DEFINE L == s.list
           Dead == {x \in Range(L) : s.at[x].refs = 0}
           Step(f, n) == IF n = 0 THEN s
                         ELSE IF s.at[L[n]].refs = 0 THEN RemoveTimer(f[n - 1], L[n])
                         ELSE f[n - 1]
           Upto(k) == \E f : f = [n \in 0 .. k |-> Step(f, n)]
           collect == CHOOSE f : f = [n \in 0 .. Len(L) |-> Step(f, n)]
<1>0. /\ L \in Seq(Slot) /\ Len(L) \in Nat /\ DOMAIN L = 1 .. Len(L)
      /\ \A i \in 1 .. Len(L) : L[i] \in Slot /\ L[i] \in Range(L)
      /\ \A i \in 1 .. Len(L), j \in 1 .. Len(L) : L[i] = L[j] => i = j
      /\ \A x \in Range(L) : \E i \in 1 .. Len(L) : x = L[i]
  <2>1. L \in Seq(Slot) /\ IsInjective(L)
    BY StoreFacts
  <2> QED
    BY <2>1 DEF IsInjective, Range
<1>1. CollectTimers(s) = collect[Len(L)]
  BY DEF CollectTimers
<1>2. ASSUME NEW k \in Nat PROVE Upto(k)
  <2> DEFINE Bad == {m \in Nat : ~Upto(m)}
  <2> SUFFICES ASSUME Bad # {} PROVE FALSE
    OBVIOUS
  <2> HIDE DEF Upto
  <2>1. PICK m \in Bad : \A n \in Bad : m <= n
    BY LeastIn, Bad \in SUBSET Nat
  <2>2. m \in Nat /\ ~Upto(m)
    BY <2>1
  <2>3. Upto(0)
    <3> DEFINE f == [n \in 0 .. 0 |-> s]
    <3>1. f = [n \in 0 .. 0 |-> Step(f, n)]
      OBVIOUS
    <3> HIDE DEF f
    <3> QED
      BY <3>1, Zenon DEF Upto
  <2>4. m # 0 /\ m - 1 \in Nat /\ ~(m <= m - 1)
    BY <2>2, <2>3
  <2>5. Upto(m - 1)
    BY <2>1, <2>4
  <2>6. PICK f : f = [n \in 0 .. m - 1 |-> Step(f, n)]
    BY <2>5 DEF Upto
  <2> DEFINE g == [n \in 0 .. m |-> IF n = m THEN Step(f, m) ELSE f[n]]
  <2>7. \A n \in 0 .. m - 1 : f[n] = Step(f, n)
    BY <2>6
  <2>8. \A n \in 0 .. m : g[n] = Step(g, n)
    <3> SUFFICES ASSUME NEW n \in 0 .. m PROVE g[n] = Step(g, n)
      OBVIOUS
    <3>1. n # 0 => n - 1 \in 0 .. m /\ n - 1 # m
      BY <2>2
    <3>2. n # 0 => g[n - 1] = f[n - 1]
      BY <3>1
    <3>3. Step(g, n) = Step(f, n)
      BY <3>2
    <3>4. CASE n = m
      BY <3>3, <3>4, SMTT(40)
    <3>5. CASE n # m
      <4>1. n \in 0 .. m - 1
        BY <2>2, <3>5
      <4> QED
        BY <2>7, <3>3, <3>5, <4>1
    <3> QED
      BY <3>4, <3>5
  <2>9. g = [n \in 0 .. m |-> g[n]]
    OBVIOUS
  <2> HIDE DEF g, Step
  <2>10. g = [n \in 0 .. m |-> Step(g, n)]
    BY <2>8, <2>9
  <2> QED
    BY <2>2, <2>10, Zenon DEF Upto
<1>3. collect = [n \in 0 .. Len(L) |-> Step(collect, n)]
  <2>1. Upto(Len(L))
    BY <1>0, <1>2
  <2> QED
    BY <2>1, Zenon
<1> HIDE DEF collect
<1>4. \A n \in 0 .. Len(L) : collect[n] = Step(collect, n)
  BY <1>3
\* What is freed of the first n.
<1> DEFINE Gone(n) == {x \in Dead : \E i \in 1 .. n : x = L[i]}
           Good(n) == /\ Stored(collect[n]) /\ Kept(s, collect[n], Gone(n))
                      /\ \A x \in Range(collect[n].list) : x \in Range(L) \ Gone(n)
<1>5. \A n \in 0 .. Len(L) : Good(n)
  <2> DEFINE Bad == {n \in 0 .. Len(L) : ~Good(n)}
  <2> SUFFICES ASSUME Bad # {} PROVE FALSE
    OBVIOUS
  <2>1. PICK n \in Bad : \A m \in Bad : n <= m
    <3>1. Bad \in SUBSET Nat
      BY <1>0
    <3> QED
      BY <3>1, LeastIn
  <2>2. n \in 0 .. Len(L) /\ ~Good(n)
    BY <2>1
  <2>3. n # 0
    <3> SUFFICES ASSUME n = 0 PROVE FALSE
      OBVIOUS
    <3>1. collect[0] = s
      BY <1>0, <1>4
    <3>2. Gone(0) = {}
      OBVIOUS
    <3> HIDE DEF Gone, Dead
    <3> QED
      BY <2>2, <3>1, <3>2, SameFacts
  <2>4. n - 1 \in 0 .. Len(L) /\ ~(n <= n - 1) /\ n \in 1 .. Len(L)
        /\ 1 .. n = (1 .. n - 1) \cup {n}
    BY <1>0, <2>2, <2>3, SMTT(40)
  <2>5. Good(n - 1)
    BY <2>1, <2>4
  <2> DEFINE c == collect[n - 1]
  <2>6. CASE s.at[L[n]].refs # 0
    <3>1. collect[n] = c
      BY <1>4, <2>2, <2>3, <2>6
    <3>2. Gone(n) = Gone(n - 1)
      BY <2>4, <2>6
    <3> HIDE DEF Gone
    <3> QED
      BY <2>2, <2>5, <3>1, <3>2
  <2>7. CASE s.at[L[n]].refs = 0
    <3>1. collect[n] = RemoveTimer(c, L[n])
      BY <1>4, <2>2, <2>3, <2>7
    <3>2. Gone(n) = Gone(n - 1) \cup {L[n]} /\ L[n] \notin Gone(n - 1)
      <4>1. L[n] \in Dead
        BY <1>0, <2>4, <2>7
      <4>2. \A i \in 1 .. n - 1 : L[i] # L[n]
        BY <1>0, <2>2, <2>4
      <4> QED
        BY <2>4, <4>1, <4>2
    <3> HIDE DEF Gone, Dead, Step
    <3>3. L[n] \in Range(c.list)
      BY <1>0, <2>4, <2>5, <3>2 DEF Kept
    <3> DEFINE d == RemoveTimer(c, L[n])
    <3>4. Stored(d) /\ Kept(c, d, {L[n]}) /\ ~Listed(d, L[n])
      BY <2>5, <3>3, RemoveFacts
    <3> HIDE DEF c, d
    <3>5. Kept(s, d, Gone(n - 1) \cup {L[n]})
      BY <2>5, <3>4, KeptTwice, Zenon DEF c
    <3>6. \A x \in Range(d.list) : x \in Range(L) \ Gone(n)
      BY <2>5, <3>2, <3>4 DEF Kept, Listed, c
    <3> QED
      BY <2>2, <3>1, <3>2, <3>4, <3>5, <3>6 DEF d
  <2> QED
    BY <2>6, <2>7
<1>6. Gone(Len(L)) = Dead
  BY <1>0
<1> HIDE DEF Gone
<1>7. Good(Len(L))
  BY <1>0, <1>5
<1> QED
  BY <1>1, <1>6, <1>7

(* To stay the same is more than to stay the same but for the time.        *)
LEMMA ButTime ==
  /\ \A s, s2, S : Kept(s, s2, S) => KeptButTime(s, s2, S)
  /\ \A s, s2, s3, S : KeptButTime(s, s2, S) /\ Retimed(s2, s3) => KeptButTime(s, s3, S)
<1>1. ASSUME NEW s, NEW s2, NEW S, Kept(s, s2, S) PROVE KeptButTime(s, s2, S)
  BY <1>1 DEF Kept, KeptButTime
<1>2. ASSUME NEW s, NEW s2, NEW s3, NEW S, KeptButTime(s, s2, S), Retimed(s2, s3)
      PROVE  KeptButTime(s, s3, S)
  <2>1. \A a, b : InFront(s2, a, b) => InFront(s3, a, b)
    BY <1>2 DEF Retimed, InFront
  <2> QED
    BY <1>2, <2>1 DEF Retimed, KeptButTime
<1> QED
  BY <1>1, <1>2, Zenon

-----------------------------------------------------------------------------
(* Clients and their timers.                                               *)

(* The timers of two clients are two.                                      *)
LEMMA ItsFacts ==
  ASSUME Typed, OwnTimers, NEW c \in Client
  PROVE  /\ Its(c) \in SUBSET Range(st.list) /\ Has(c)
         /\ \A d \in Client \ {c} : Its(d) \cap {ptimer[c], rtimer[c], ttimer[c]} = {}
         /\ \A x \in Its(c) : x \in Slot /\ st.at[x].refs = 1 /\ st.at[x].arg = c
<1>1. \A d \in Client : Has(d)
  BY DEF OwnTimers
<1>2. \A d \in Client : \A x \in Its(d) : x \in Range(st.list) /\ st.at[x].refs = 1 /\ st.at[x].arg = d
  BY <1>1 DEF Has, Listed
<1>3. \A x \in Range(st.list) : x \in Slot
  BY StoreFacts DEF Typed
<1>4. \A d \in Client \ {c} : Its(d) \cap Its(c) = {}
  BY <1>2
<1>5. \A d \in Client : NoTimer \notin Its(d)
  BY DEF Its
<1>6. {ptimer[c], rtimer[c], ttimer[c]} \subseteq Its(c) \cup {NoTimer}
  BY DEF Its
<1> QED
  BY <1>1, <1>2, <1>3, <1>4, <1>5, <1>6

(* What a step owes when it touches the timers of S and the clients of C.  *)
LEMMA OwnedStep ==
  ASSUME Typed, OwnTimers, NEW C \in SUBSET Client, NEW S, KeptButTime(st, st', S),
         \A d \in Client \ C : /\ ptimer'[d] = ptimer[d] /\ rtimer'[d] = rtimer[d]
                               /\ ttimer'[d] = ttimer[d] /\ user'[d] = user[d]
                               /\ Its(d) \cap S = {},
         \A c \in C : Has(c)' /\ Its(c) \ S \subseteq Its(c)',
         \A x \in Range(st'.list) \cap S : st'.at[x].refs > 0 =>
           \E c \in C : st'.at[x].arg = c /\ x \in Its(c)'
  PROVE  OwnTimers'
<1>1. ASSUME NEW d \in Client \ C PROVE Has(d)' /\ Its(d)' = Its(d)
  <2>1. Its(d)' = Its(d)
    BY DEF Its
  <2>2. Has(d)
    BY DEF OwnTimers
  <2>3. \A x \in Its(d) : x \in Range(st.list) \ S
    BY <2>2 DEF Has, Listed
  <2>4. \A x \in Its(d) : /\ x \in Range(st'.list) /\ st'.at[x].refs = 1 /\ st'.at[x].arg = d
                          /\ st'.at[x].call = st.at[x].call
    BY <2>2, <2>3 DEF Has, KeptButTime
  <2>5. /\ ptimer[d] # NoTimer => ptimer[d] \in Its(d)
        /\ rtimer[d] # NoTimer => rtimer[d] \in Its(d)
        /\ ttimer[d] # NoTimer => ttimer[d] \in Its(d)
    BY DEF Its
  <2>6. ttimer[d] # NoTimer => ptimer[d] # NoTimer
    BY <2>2 DEF Has
  <2>7. ttimer[d] # NoTimer => InFront(st', ptimer[d], ttimer[d])
    BY <2>2, <2>3, <2>5, <2>6 DEF Has, KeptButTime
  <2>8. /\ ptimer[d] # NoTimer => st'.at[ptimer[d]].call \in {"exit", "ping"}
        /\ rtimer[d] # NoTimer => st'.at[rtimer[d]].call = "reset"
        /\ ttimer[d] # NoTimer => st'.at[ttimer[d]].call = "throttle"
    BY <2>2, <2>4, <2>5 DEF Has
  <2>9. /\ (ptimer[d] = NoTimer) = (user[d] = "none")
        /\ user[d] # "user" => rtimer[d] = NoTimer /\ ttimer[d] = NoTimer
    BY <2>2 DEF Has
  <2>10. Has(d)'
    BY <2>1, <2>4, <2>7, <2>8, <2>9 DEF Has, Listed
  <2> QED
    BY <2>1, <2>10
<1>2. ASSUME NEW x \in Range(st'.list), st'.at[x].refs > 0
      PROVE  \E c \in Client : st'.at[x].arg = c /\ x \in Its(c)'
  <2>1. CASE x \in S
    BY <1>2, <2>1
  <2>2. CASE x \notin S
    <3>1. x \in Range(st.list) /\ st'.at[x].refs = st.at[x].refs /\ st'.at[x].arg = st.at[x].arg
      BY <2>2 DEF KeptButTime
    <3>2. PICK c \in Client : st.at[x].arg = c /\ x \in Its(c)
      BY <1>2, <3>1 DEF OwnTimers
    <3>3. CASE c \in C
      BY <2>2, <3>1, <3>2, <3>3
    <3>4. CASE c \notin C
      <4>1. x \in Its(c)'
        BY <1>1, <3>2, <3>4
      <4> QED
        BY <3>1, <3>2, <4>1
    <3> QED
      BY <3>3, <3>4
  <2> QED
    BY <2>1, <2>2
<1>3. \A c \in Client : Has(c)'
  BY <1>1
<1> QED
  BY <1>2, <1>3 DEF OwnTimers, Its

(* The same clients with the same timers.                                  *)
LEMMA OwnedSame ==
  ASSUME Typed, OwnTimers, NEW S, KeptButTime(st, st', S), UNCHANGED <<user, pointers>>,
         \A x \in S : Listed(st, x) => st.at[x].refs = 0,
         \A x \in Range(st'.list) \cap S : st'.at[x].refs = 0
  PROVE  OwnTimers'
<1>1. UNCHANGED <<user, ptimer, rtimer, ttimer>>
  BY DEF pointers
<1>2. \A d \in Client : Its(d) \cap S = {}
  BY ItsFacts DEF Listed
<1> DEFINE C == {}
<1>3. C \in SUBSET Client /\ \A d \in Client \ C : d \in Client
  OBVIOUS
<1>4. \A c \in C : FALSE
  OBVIOUS
<1>5. \A x \in Range(st'.list) \cap S : ~(st'.at[x].refs > 0)
  OBVIOUS
<1> HIDE DEF C
<1> QED
  BY <1>1, <1>2, <1>3, <1>4, <1>5, OwnedStep

(* A client lets go of its timers: one is freed, the others are nobody's.  *)
LEMMA ReleasedFacts ==
  ASSUME Typed, OwnTimers, NEW c \in Client
  PROVE  /\ Stored(Released(st, c))
         /\ Kept(st, Released(st, c), {ptimer[c], rtimer[c], ttimer[c]})
         /\ \A x \in {ptimer[c], rtimer[c], ttimer[c]} :
              Listed(Released(st, c), x) => Released(st, c).at[x].refs = 0
         /\ \A x \in Range(st.list) \ {ptimer[c]} : Listed(Released(st, c), x)
         /\ ~Listed(Released(st, c), ptimer[c])
         /\ \A a \in Range(st.list) \ {ptimer[c]}, b \in Range(st.list) \ {ptimer[c]} :
              InFront(st, a, b) => InFront(Released(st, c), a, b)
<1> DEFINE p == ptimer[c]
           r == rtimer[c]
           q == ttimer[c]
           s1 == PushTimer(st, r)
           s2 == PushTimer(s1, q)
           s3 == CancelTimer(s2, p)
<1>0. Stored(st) /\ Has(c)
  BY ItsFacts DEF Typed
<1>1. /\ p = NoTimer \/ Listed(st, p)
      /\ r = NoTimer \/ Listed(st, r)
      /\ q = NoTimer \/ Listed(st, q)
  BY <1>0 DEF Has, Its
<1>2. /\ p # NoTimer => p # r /\ p # q
      /\ r # NoTimer => r # q
  BY <1>0 DEF Has
<1>3. Released(st, c) = s3
  BY DEF Released
<1> HIDE DEF p, r, q, s3
<1>4. /\ Stored(s1) /\ Kept(st, s1, {r}) /\ s1.list = st.list
      /\ r # NoTimer => s1.at[r].refs = 0
  BY <1>0, <1>1, PushFacts, Zenon
<1> HIDE DEF s1
<1>5. q = NoTimer \/ Listed(s1, q)
  BY <1>1, <1>4 DEF Listed
<1>6. /\ Stored(s2) /\ Kept(s1, s2, {q}) /\ s2.list = s1.list
      /\ q # NoTimer => s2.at[q].refs = 0
  BY <1>4, <1>5, PushFacts, Zenon
<1> HIDE DEF s2
<1>7. p = NoTimer \/ Listed(s2, p)
  BY <1>1, <1>4, <1>6 DEF Listed
<1>8. /\ Stored(s3) /\ Kept(s2, s3, {p}) /\ ~Listed(s3, p)
      /\ \A y \in Range(s2.list) \ {p} : Listed(s3, y)
  BY <1>6, <1>7, CancelFacts, Zenon DEF s3
<1>9. Kept(st, s3, {p, r, q})
  <2>1. Kept(st, s2, {r} \cup {q})
    BY <1>4, <1>6, KeptTwice, Zenon
  <2>2. Kept(st, s3, ({r} \cup {q}) \cup {p})
    BY <1>8, <2>1, KeptTwice, Zenon
  <2>3. ({r} \cup {q}) \cup {p} = {p, r, q}
    OBVIOUS
  <2> QED
    BY <2>2, <2>3
<1>10. \A y : Listed(s3, y) => y \in Slot /\ y # NoTimer
  BY <1>8, StoreFacts, NoTimerAssumption, Zenon DEF Listed, NoTimerAssumption
<1>11. \A x \in {p, r, q} : Listed(s3, x) => s3.at[x].refs = 0
  <2>1. r # NoTimer => s2.at[r].refs = 0
    <3> SUFFICES ASSUME r # NoTimer PROVE s2.at[r].refs = 0
      OBVIOUS
    <3>1. r \in Range(s1.list) \ {q}
      BY <1>1, <1>2, <1>4 DEF Listed
    <3> QED
      BY <1>4, <1>6, <3>1 DEF Kept
  <2>2. ASSUME NEW x \in {r, q}, Listed(s3, x) PROVE s3.at[x].refs = 0
    <3>1. x # NoTimer /\ x # p
      BY <1>8, <1>10, <2>2
    <3>2. x \in Range(s2.list) \ {p}
      BY <1>1, <1>4, <1>6, <2>2, <3>1 DEF Listed
    <3>3. s2.at[x].refs = 0
      BY <1>6, <2>1, <2>2, <3>1
    <3> QED
      BY <1>8, <3>2, <3>3 DEF Kept
  <2> QED
    BY <1>8, <2>2
<1>12. \A a \in Range(st.list) \ {p}, b \in Range(st.list) \ {p} :
         InFront(st, a, b) => InFront(s3, a, b)
  <2>1. s2.list = st.list
    BY <1>4, <1>6
  <2>2. \A a, b : InFront(st, a, b) => InFront(s2, a, b)
    BY <2>1, Zenon DEF InFront
  <2> QED
    BY <1>8, <2>1, <2>2, Zenon DEF Kept
<1> QED
  BY <1>3, <1>4, <1>6, <1>8, <1>9, <1>11, <1>12 DEF p, r, q

(* Timers that stay call what they called.                                 *)
LEMMA ReleasedCalls ==
  ASSUME Typed, OwnTimers, NEW c \in Client, NEW x \in Range(st.list), x # ptimer[c]
  PROVE  Released(st, c).at[x].call = st.at[x].call
<1> DEFINE s1 == PushTimer(st, rtimer[c])
           s2 == PushTimer(s1, ttimer[c])
           s3 == CancelTimer(s2, ptimer[c])
<1>0. Stored(st) /\ Has(c)
  BY ItsFacts DEF Typed
<1>1. /\ ptimer[c] = NoTimer \/ Listed(st, ptimer[c])
      /\ rtimer[c] = NoTimer \/ Listed(st, rtimer[c])
      /\ ttimer[c] = NoTimer \/ Listed(st, ttimer[c])
  BY <1>0 DEF Has, Its
<1>2. Released(st, c) = s3
  BY DEF Released
<1> HIDE DEF s3
<1>3. Stored(s1) /\ s1.list = st.list /\ s1.at[x].call = st.at[x].call
  BY <1>0, <1>1, PushFacts, PushCalls
<1> HIDE DEF s1
<1>4. ttimer[c] = NoTimer \/ Listed(s1, ttimer[c])
  BY <1>1, <1>3 DEF Listed
<1>5. Stored(s2) /\ s2.list = s1.list /\ s2.at[x].call = s1.at[x].call
  <2>1. Stored(s2) /\ s2.list = s1.list
    BY <1>3, <1>4, PushFacts
  <2>2. x \in Range(s1.list)
    BY <1>3
  <2>3. s2.at[x].call = s1.at[x].call
    BY <1>3, <2>2, PushCalls, Zenon
  <2> QED
    BY <2>1, <2>3
<1> HIDE DEF s2
<1>6. ptimer[c] = NoTimer \/ Listed(s2, ptimer[c])
  BY <1>1, <1>3, <1>5 DEF Listed
<1>7. Kept(s2, s3, {ptimer[c]})
  BY <1>5, <1>6, CancelFacts, Zenon DEF s3
<1>8. x \in Range(s2.list) \ {ptimer[c]}
  BY <1>3, <1>5
<1>9. s3.at[x] = s2.at[x]
  BY <1>7, <1>8, Zenon DEF Kept
<1> QED
  BY <1>2, <1>3, <1>5, <1>9

-----------------------------------------------------------------------------
(* Steps.                                                                  *)

(* Intervals are numbers.                                                  *)
LEMMA Intervals ==
  PingFreq \in Nat /\ FloodInterval \in Nat /\ ThrottleInterval \in Nat /\ MaxLate \in Nat
  BY EventLoopAssumption DEF EventLoopAssumption

(* What a step owes to the time of the timers of S.                        *)
LEMMA EarlyStep ==
  ASSUME NoneEarly, NEW S, Kept(st, st', S), forward' = forward, drift' = drift,
         \A x \in Range(st'.list) \ S : real'[x] = real[x],
         \A x \in Range(st'.list) \cap S : st'.at[x].refs > 0 =>
           real'[x] <= st'.at[x].left /\ real'[x] <= st'.at[x].left + drift'
  PROVE  NoneEarly'
<1> SUFFICES ASSUME ~forward, NEW x \in Range(st'.list), st'.at[x].refs > 0
             PROVE  real'[x] <= st'.at[x].left /\ real'[x] <= st'.at[x].left + drift'
  BY DEF NoneEarly
<1>1. CASE x \in S
  BY <1>1
<1>2. CASE x \notin S
  <2>1. x \in Range(st.list) /\ st'.at[x] = st.at[x] /\ real'[x] = real[x]
    BY <1>2 DEF Kept
  <2> QED
    BY <2>1 DEF NoneEarly
<1> QED
  BY <1>1, <1>2

Periods == {PingFreq, FloodInterval, ThrottleInterval}

\* A handler leaves a running timer alone or starts it.
Begun ==
  \A x \in Range(st'.list) : st'.at[x].refs > 0 =>
    \/ x \in Range(st.list) /\ st'.at[x] = st.at[x] /\ real'[x] = real[x]
    \/ st'.at[x].every \in Periods /\ st'.at[x].left = st'.at[x].every /\ real'[x] = st'.at[x].every

\* A step of the walk puts off the timer it calls, and leaves the others and
\* what stands behind the next one.
Walked ==
  /\ \A x \in Range(st'.list) : st'.at[x].refs > 0 =>
       /\ x \in Range(st.list) /\ st.at[x].refs > 0 /\ st'.at[x].every = st.at[x].every
       /\ \/ /\ x = walk.cur
             /\ st'.at[x].left = st.at[x].left + st.at[x].every
             /\ real'[x] = real[x] + st.at[x].every
          \/ /\ x = walk.cur => st.at[x].left > 0
             /\ st'.at[x].left = st.at[x].left /\ real'[x] = real[x]
  /\ \A x \in Range(st'.list) : st'.at[x].refs > 0 /\ InFront(st, walk.next, x) =>
       InFront(st', walk.next, x)

(* The I/O phase.                                                          *)
LEMMA HandlerFacts ==
  ASSUME IInv, Handler
  PROVE  /\ drift = 0 /\ drift' = 0 /\ forward' = forward
         /\ phase' = "collect" /\ Remembers' /\ astray' = astray
  BY DEF IInv, Typed, Handler, Remembers, InWalk

(* What a handler leaves.                                                  *)
LEMMA HandlerKeeps ==
  ASSUME IInv, Handler, Stored(st'), OwnTimers', NoneEarly',
         ptimer' \in Pointer, rtimer' \in Pointer, ttimer' \in Pointer,
         user' \in [Client -> {"none", "unknown", "user"}], real' \in [Slot -> Int]
  PROVE  IInv'
  BY HandlerFacts DEF IInv, Typed

(* Timers that are started are due after their interval, with no clock     *)
(* time left to account for.                                               *)
LEMMA StartedFacts ==
  ASSUME IInv, Handler, Stored(st'), NEW X, Started(X), NEW S, X \subseteq S, Kept(st, st', S),
         \A x \in Range(st'.list) \cap S :
           st'.at[x].refs > 0 => /\ x \in X /\ st'.at[x].left = st'.at[x].every
                                 /\ st'.at[x].every \in Periods
  PROVE  NoneEarly' /\ real' \in [Slot -> Int] /\ Begun
<1>1. real' = [x \in Slot |-> IF x \in X THEN st'.at[x].every ELSE real[x]]
  BY DEF Started
<1>2. \A x \in Slot : st'.at[x].every \in Int /\ real[x] \in Int
  BY StoreFacts DEF IInv, Typed
<1>3. \A x \in Range(st'.list) : x \in Slot
  BY StoreFacts
<1>4. real' \in [Slot -> Int]
  BY <1>1, <1>2
<1>5. \A x \in Range(st'.list) \ S : real'[x] = real[x]
  BY <1>1, <1>3
<1>6. ASSUME NEW x \in Range(st'.list) \cap S, st'.at[x].refs > 0
      PROVE  real'[x] <= st'.at[x].left /\ real'[x] <= st'.at[x].left + drift'
  <2>1. x \in X /\ st'.at[x].left = st'.at[x].every /\ x \in Slot
    BY <1>3, <1>6
  <2>2. real'[x] = st'.at[x].left /\ st'.at[x].left \in Int
    BY <1>1, <1>2, <2>1
  <2> QED
    BY <2>2, HandlerFacts
<1>7. Begun
  <2> SUFFICES ASSUME NEW x \in Range(st'.list), st'.at[x].refs > 0
               PROVE  \/ x \in Range(st.list) /\ st'.at[x] = st.at[x] /\ real'[x] = real[x]
                      \/ /\ st'.at[x].every \in Periods /\ st'.at[x].left = st'.at[x].every
                         /\ real'[x] = st'.at[x].every
    BY DEF Begun
  <2>1. CASE x \in S
    BY <1>1, <1>3, <2>1
  <2>2. CASE x \notin S
    BY <1>5, <2>2 DEF Kept
  <2> QED
    BY <2>1, <2>2
<1> QED
  BY <1>4, <1>5, <1>6, <1>7, EarlyStep, HandlerFacts DEF IInv

(* lclient_new starts the timeout of a login.                              *)
LEMMA AcceptKeeps ==
  ASSUME IInv, NEW c \in Client, Accept(c)
  PROVE  IInv' /\ Begun
<1> DEFINE x == NextSlot(st)
           S == {x}
           C == {c}
<1>1. /\ Handler /\ user[c] = "none" /\ st.free # <<>>
      /\ st' = StartTimer(st, "exit", c, PingFreq)
      /\ ptimer' = [ptimer EXCEPT ![c] = x] /\ rtimer' = rtimer /\ ttimer' = ttimer
      /\ user' = [user EXCEPT ![c] = "unknown"] /\ Started(S)
  BY DEF Accept, Room
<1>2. Typed /\ OwnTimers /\ Stored(st)
  BY DEF IInv, Typed
<1>3. /\ Stored(st') /\ Kept(st, st', S) /\ x \in Slot /\ ~Listed(st, x) /\ Listed(st', x)
      /\ st'.at[x] = [left |-> PingFreq, every |-> PingFreq, refs |-> 1, call |-> "exit", arg |-> c]
  <2>1. PingFreq \in Int /\ "exit" \in Callbacks /\ c \in Whose
    BY Intervals DEF Callbacks, Whose
  <2>2. Starts(st, StartTimer(st, "exit", c, PingFreq), NextSlot(st), "exit", c, PingFreq)
    BY <1>1, <1>2, <2>1, StartFacts, Zenon
  <2>3. Starts(st, st', x, "exit", c, PingFreq)
    BY <1>1, <2>2
  <2> QED
    BY <2>3, Zenon DEF Starts
<1>4. /\ ptimer' \in Pointer /\ rtimer' \in Pointer /\ ttimer' \in Pointer
      /\ user' \in [Client -> {"none", "unknown", "user"}]
  BY <1>1, <1>2, <1>3 DEF Typed, Pointer
<1> HIDE DEF x
<1>5. NoneEarly' /\ real' \in [Slot -> Int] /\ Begun
  <2>1. \A y \in Range(st'.list) \cap S :
           st'.at[y].refs > 0 => /\ y \in S /\ st'.at[y].left = st'.at[y].every
                                 /\ st'.at[y].every \in Periods
    BY <1>3 DEF Periods
  <2> HIDE DEF S
  <2> QED
    BY <1>1, <1>3, <2>1, StartedFacts
<1>6. OwnTimers'
  <2>1. Has(c) /\ ptimer[c] = NoTimer /\ rtimer[c] = NoTimer /\ ttimer[c] = NoTimer
    BY <1>1, <1>2 DEF OwnTimers, Has
  <2>2. ptimer'[c] = x /\ rtimer'[c] = NoTimer /\ ttimer'[c] = NoTimer /\ user'[c] = "unknown"
    BY <1>1, <1>2, <2>1 DEF Typed, Pointer
  <2>3. x # NoTimer
    BY <1>3, NoTimerAssumption DEF NoTimerAssumption
  <2>4. Its(c)' = {x} /\ Its(c) = {}
    BY <2>1, <2>2, <2>3 DEF Its
  <2>5. Has(c)'
    BY <1>3, <2>2, <2>3, <2>4 DEF Has
  <2>6. \A d \in Client \ C : /\ ptimer'[d] = ptimer[d] /\ rtimer'[d] = rtimer[d]
                              /\ ttimer'[d] = ttimer[d] /\ user'[d] = user[d]
                              /\ Its(d) \cap S = {}
    BY <1>1, <1>2, <1>3, ItsFacts DEF Typed, Pointer, Listed
  <2>7. \A e \in C : Has(e)' /\ Its(e) \ S \subseteq Its(e)'
    BY <2>4, <2>5
  <2>8. \A y \in Range(st'.list) \cap S : st'.at[y].refs > 0 =>
           \E e \in C : st'.at[y].arg = e /\ y \in Its(e)'
    BY <1>3, <2>4
  <2> HIDE DEF S, C
  <2>9. C \in SUBSET Client /\ KeptButTime(st, st', S)
    BY <1>3, ButTime, Zenon DEF C
  <2> QED
    BY <1>2, <2>6, <2>7, <2>8, <2>9, OwnedStep, SMTT(40)
<1> QED
  BY <1>1, <1>3, <1>4, <1>5, <1>6, HandlerKeeps

(* lc_mflood_parse starts the throttle, behind the ping timer.             *)
LEMMA ThrottleKeeps ==
  ASSUME IInv, NEW c \in Client, Throttle(c)
  PROVE  IInv' /\ Begun
<1> DEFINE x == NextSlot(st)
           S == {x}
           C == {c}
<1>1. /\ Handler /\ user[c] = "user" /\ ttimer[c] = NoTimer /\ st.free # <<>>
      /\ st' = StartTimer(st, "throttle", c, ThrottleInterval)
      /\ ttimer' = [ttimer EXCEPT ![c] = x] /\ rtimer' = rtimer /\ ptimer' = ptimer
      /\ user' = user /\ Started(S)
  BY DEF Throttle, Room
<1>2. Typed /\ OwnTimers /\ Stored(st)
  BY DEF IInv, Typed
<1>3. /\ Stored(st') /\ Kept(st, st', S) /\ x \in Slot /\ ~Listed(st, x) /\ Listed(st', x)
      /\ st'.at[x] = [left |-> ThrottleInterval, every |-> ThrottleInterval, refs |-> 1,
                      call |-> "throttle", arg |-> c]
      /\ \A a \in Range(st.list) : InFront(st', a, x)
  <2>1. ThrottleInterval \in Int /\ "throttle" \in Callbacks /\ c \in Whose
    BY Intervals DEF Callbacks, Whose
  <2>2. Starts(st, StartTimer(st, "throttle", c, ThrottleInterval), NextSlot(st), "throttle", c, ThrottleInterval)
    BY <1>1, <1>2, <2>1, StartFacts, Zenon
  <2>3. Starts(st, st', x, "throttle", c, ThrottleInterval)
    BY <1>1, <2>2
  <2> QED
    BY <2>3, Zenon DEF Starts
<1>4. /\ ptimer' \in Pointer /\ rtimer' \in Pointer /\ ttimer' \in Pointer
      /\ user' \in [Client -> {"none", "unknown", "user"}]
  BY <1>1, <1>2, <1>3 DEF Typed, Pointer
<1> HIDE DEF x
<1>5. NoneEarly' /\ real' \in [Slot -> Int] /\ Begun
  <2>1. \A y \in Range(st'.list) \cap S :
           st'.at[y].refs > 0 => /\ y \in S /\ st'.at[y].left = st'.at[y].every
                                 /\ st'.at[y].every \in Periods
    BY <1>3 DEF Periods
  <2> HIDE DEF S
  <2> QED
    BY <1>1, <1>3, <2>1, StartedFacts
<1>6. OwnTimers'
  <2>1. Has(c) /\ ptimer[c] # NoTimer
    BY <1>1, <1>2 DEF OwnTimers, Has
  <2>2. ptimer'[c] = ptimer[c] /\ rtimer'[c] = rtimer[c] /\ ttimer'[c] = x /\ user'[c] = "user"
    BY <1>1, <1>2 DEF Typed, Pointer
  <2>3. x # NoTimer
    BY <1>3, NoTimerAssumption DEF NoTimerAssumption
  <2>4. Its(c)' = Its(c) \cup {x}
    BY <1>1, <2>2, <2>3 DEF Its
  <2>5. Its(c) \in SUBSET Range(st.list)
    BY <1>2, ItsFacts
  <2>6. \A y \in Its(c) : Listed(st', y) /\ st'.at[y] = st.at[y]
    BY <1>3, <2>5 DEF Kept, Listed
  <2>7. Has(c)'
    <3>1. /\ ptimer[c] \in Its(c)
          /\ rtimer[c] # NoTimer => rtimer[c] \in Its(c)
      BY <2>1 DEF Its
    <3>2. \A y \in Its(c)' : Listed(st', y) /\ st'.at[y].arg = c /\ st'.at[y].refs = 1
      BY <1>3, <2>1, <2>4, <2>6 DEF Has
    <3>3. InFront(st', ptimer[c], x)
      BY <1>3, <2>5, <3>1
    <3>4. /\ st'.at[ptimer[c]].call \in {"exit", "ping"}
          /\ rtimer[c] # NoTimer => st'.at[rtimer[c]].call = "reset"
          /\ st'.at[x].call = "throttle"
      BY <1>3, <2>1, <2>6, <3>1 DEF Has
    <3> QED
      BY <2>1, <2>2, <3>2, <3>3, <3>4 DEF Has
  <2>8. \A d \in Client \ C : /\ ptimer'[d] = ptimer[d] /\ rtimer'[d] = rtimer[d]
                              /\ ttimer'[d] = ttimer[d] /\ user'[d] = user[d]
                              /\ Its(d) \cap S = {}
    BY <1>1, <1>2, <1>3, ItsFacts DEF Typed, Pointer, Listed
  <2>9. \A e \in C : Has(e)' /\ Its(e) \ S \subseteq Its(e)'
    BY <2>4, <2>7
  <2>10. \A y \in Range(st'.list) \cap S : st'.at[y].refs > 0 =>
           \E e \in C : st'.at[y].arg = e /\ y \in Its(e)'
    BY <1>3, <2>4
  <2> HIDE DEF S, C
  <2>11. C \in SUBSET Client /\ KeptButTime(st, st', S)
    BY <1>3, ButTime, Zenon DEF C
  <2> QED
    BY <1>2, <2>8, <2>9, <2>10, <2>11, OwnedStep
<1> QED
  BY <1>1, <1>3, <1>4, <1>5, <1>6, HandlerKeeps

(* lclient_register exchanges the login's timeout for a ping timer, and    *)
(* starts the flood counter's.                                             *)
LEMMA RegisterKeeps ==
  ASSUME IInv, NEW c \in Client, Register(c)
  PROVE  IInv' /\ Begun
<1> DEFINE p == ptimer[c]
           s1 == CancelTimer(st, p)
           x == NextSlot(s1)
           s2 == StartTimer(s1, "ping", c, PingFreq)
           y == NextSlot(s2)
           s3 == StartTimer(s2, "reset", c, FloodInterval)
           X == {x, y}
           S == {p, x, y}
           C == {c}
<1>1. /\ Handler /\ user[c] = "unknown" /\ Len(st.free) >= 1 /\ st' = s3
      /\ ptimer' = [ptimer EXCEPT ![c] = x] /\ rtimer' = [rtimer EXCEPT ![c] = y]
      /\ ttimer' = ttimer /\ user' = [user EXCEPT ![c] = "user"] /\ Started(X)
  BY DEF Register, Room
<1>2. Typed /\ OwnTimers /\ Stored(st) /\ Has(c)
  BY DEF IInv, Typed, OwnTimers
<1>3. p # NoTimer /\ Listed(st, p) /\ rtimer[c] = NoTimer /\ ttimer[c] = NoTimer
  BY <1>1, <1>2 DEF Has, Its
<1> HIDE DEF p
<1>4. /\ Stored(s1) /\ Kept(st, s1, {p}) /\ ~Listed(s1, p) /\ Len(s1.free) = Len(st.free) + 1
  BY <1>2, <1>3, CancelFacts, Zenon
<1>5. Len(st.free) \in Nat /\ s1.free # <<>> /\ Len(s1.free) >= 2
  <2>1. st.free \in Seq(Slot) /\ s1.free \in Seq(Slot)
    BY <1>2, <1>4, StoreFacts
  <2> QED
    BY <1>1, <1>4, <2>1
<1> HIDE DEF s1
<1>6. Starts(s1, s2, x, "ping", c, PingFreq)
  <2>1. PingFreq \in Int /\ "ping" \in Callbacks /\ c \in Whose
    BY Intervals DEF Callbacks, Whose
  <2> QED
    BY <1>4, <1>5, <2>1, StartFacts, Zenon
<1> HIDE DEF s2, x
<1>7. Stored(s2) /\ s2.free # <<>>
  <2>1. Stored(s2) /\ Len(s2.free) = Len(s1.free) - 1
    BY <1>6 DEF Starts
  <2>2. s2.free \in Seq(Slot) /\ s1.free \in Seq(Slot)
    BY <1>4, <2>1, StoreFacts
  <2> QED
    BY <1>5, <2>1, <2>2
<1>8. Starts(s2, st', y, "reset", c, FloodInterval)
  <2>1. FloodInterval \in Int /\ "reset" \in Callbacks /\ c \in Whose
    BY Intervals DEF Callbacks, Whose
  <2>2. Starts(s2, s3, y, "reset", c, FloodInterval)
    BY <1>7, <2>1, StartFacts, Zenon
  <2> QED
    BY <1>1, <2>2
<1> HIDE DEF s3, y
<1>9. /\ Kept(s1, s2, {x}) /\ x \in Slot /\ Listed(s2, x) /\ ~Listed(s1, x)
      /\ s2.at[x] = [left |-> PingFreq, every |-> PingFreq, refs |-> 1, call |-> "ping", arg |-> c]
  BY <1>6, Zenon DEF Starts
<1>10. /\ Stored(st') /\ Kept(s2, st', {y}) /\ y \in Slot /\ Listed(st', y) /\ ~Listed(s2, y)
       /\ st'.at[y] = [left |-> FloodInterval, every |-> FloodInterval, refs |-> 1,
                       call |-> "reset", arg |-> c]
  BY <1>8, Zenon DEF Starts
<1>11. Kept(st, st', S)
  <2>1. Kept(st, st', ({p} \cup {x}) \cup {y})
    BY <1>4, <1>9, <1>10, KeptTwice, Zenon
  <2>2. ({p} \cup {x}) \cup {y} = S
    OBVIOUS
  <2> QED
    BY <2>1, <2>2
<1>12. x # y /\ Listed(st', x) /\ st'.at[x] = s2.at[x]
  BY <1>9, <1>10 DEF Kept, Listed
<1>13. ~Listed(st', p) \/ p \in X
  BY <1>4, <1>9, <1>10 DEF Kept, Listed
<1>14. x # NoTimer /\ y # NoTimer
  BY <1>9, <1>10, NoTimerAssumption DEF NoTimerAssumption
<1>15. /\ ptimer' \in Pointer /\ rtimer' \in Pointer /\ ttimer' \in Pointer
       /\ user' \in [Client -> {"none", "unknown", "user"}]
  BY <1>1, <1>2, <1>9, <1>10 DEF Typed, Pointer
<1>16. NoneEarly' /\ real' \in [Slot -> Int] /\ Begun
  <2>1. \A z \in Range(st'.list) \cap S :
           st'.at[z].refs > 0 => /\ z \in X /\ st'.at[z].left = st'.at[z].every
                                 /\ st'.at[z].every \in Periods
    BY <1>9, <1>10, <1>12, <1>13 DEF Listed, Periods
  <2>2. X \subseteq S
    OBVIOUS
  <2> HIDE DEF S, X
  <2> QED
    BY <1>1, <1>10, <1>11, <2>1, <2>2, StartedFacts
<1>17. OwnTimers'
  <2>1. ptimer'[c] = x /\ rtimer'[c] = y /\ ttimer'[c] = NoTimer /\ user'[c] = "user"
    BY <1>1, <1>2, <1>3 DEF Typed, Pointer
  <2>2. Its(c)' = X /\ Its(c) = {p}
    BY <1>3, <1>14, <2>1 DEF Its, p
  <2>3. Has(c)'
    BY <1>9, <1>10, <1>12, <1>14, <2>1, <2>2 DEF Has
  <2>4. \A d \in Client \ C : /\ ptimer'[d] = ptimer[d] /\ rtimer'[d] = rtimer[d]
                              /\ ttimer'[d] = ttimer[d] /\ user'[d] = user[d]
    BY <1>1, <1>2 DEF Typed, Pointer
  <2>5. \A d \in Client \ C : Its(d) \cap S = {}
    <3> SUFFICES ASSUME NEW d \in Client \ C PROVE Its(d) \cap S = {}
      OBVIOUS
    <3>1. Its(d) \in SUBSET Range(st.list) /\ p \notin Its(d)
      BY <1>2, ItsFacts DEF p
    <3>2. \A z \in Its(d) : Listed(s1, z)
      BY <1>4, <3>1 DEF Kept, Listed
    <3>3. \A z \in Its(d) : z # x /\ Listed(s2, z)
      BY <1>9, <3>2 DEF Kept, Listed
    <3> QED
      BY <1>10, <3>1, <3>3
  <2>6. \A e \in C : Has(e)' /\ Its(e) \ S \subseteq Its(e)'
    BY <2>2, <2>3
  <2>7. \A z \in Range(st'.list) \cap S : st'.at[z].refs > 0 =>
           \E e \in C : st'.at[z].arg = e /\ z \in Its(e)'
    BY <1>9, <1>10, <1>12, <1>13, <2>2 DEF Listed
  <2> HIDE DEF S, C
  <2>8. C \in SUBSET Client /\ KeptButTime(st, st', S)
    BY <1>11, ButTime, Zenon DEF C
  <2> QED
    BY <1>2, <2>4, <2>5, <2>6, <2>7, <2>8, OwnedStep
<1> QED
  BY <1>1, <1>10, <1>15, <1>16, <1>17, HandlerKeeps

(* What lclient_release leaves, seen from a client that is gone.           *)
LEMMA GoneFacts ==
  ASSUME Typed, OwnTimers, NEW c \in Client, Forget(c),
         KeptButTime(st, st', {ptimer[c], rtimer[c], ttimer[c]}),
         \A x \in {ptimer[c], rtimer[c], ttimer[c]} : Listed(st', x) => st'.at[x].refs = 0
  PROVE  /\ OwnTimers' /\ ptimer' \in Pointer /\ rtimer' \in Pointer /\ ttimer' \in Pointer
         /\ user' \in [Client -> {"none", "unknown", "user"}]
<1> DEFINE S == {ptimer[c], rtimer[c], ttimer[c]}
           C == {c}
<1>1. /\ user' = [user EXCEPT ![c] = "none"] /\ ptimer' = [ptimer EXCEPT ![c] = NoTimer]
      /\ rtimer' = [rtimer EXCEPT ![c] = NoTimer] /\ ttimer' = [ttimer EXCEPT ![c] = NoTimer]
  BY DEF Forget
<1>2. ptimer'[c] = NoTimer /\ rtimer'[c] = NoTimer /\ ttimer'[c] = NoTimer /\ user'[c] = "none"
  BY <1>1 DEF Typed, Pointer
<1>3. Its(c)' = {}
  BY <1>2 DEF Its
<1>4. Has(c)'
  BY <1>2, <1>3 DEF Has
<1>5. \A d \in Client \ C : /\ ptimer'[d] = ptimer[d] /\ rtimer'[d] = rtimer[d]
                            /\ ttimer'[d] = ttimer[d] /\ user'[d] = user[d]
                            /\ Its(d) \cap S = {}
  BY <1>1, ItsFacts DEF Typed, Pointer
<1>6. Its(c) \subseteq S
  BY DEF Its
<1>7. \A e \in C : Has(e)' /\ Its(e) \ S \subseteq Its(e)'
  BY <1>4, <1>6
<1>8. \A z \in Range(st'.list) \cap S : st'.at[z].refs > 0 =>
           \E e \in C : st'.at[z].arg = e /\ z \in Its(e)'
  BY DEF Listed
<1>9. C \in SUBSET Client
  OBVIOUS
<1>10. OwnTimers'
  <2> HIDE DEF C
  <2> QED
    BY <1>5, <1>7, <1>8, <1>9, OwnedStep
<1> QED
  BY <1>1, <1>10 DEF Typed, Pointer

(* A client leaves.                                                        *)
LEMMA QuitKeeps ==
  ASSUME IInv, NEW c \in Client, Quit(c)
  PROVE  IInv' /\ Begun
<1> DEFINE S == {ptimer[c], rtimer[c], ttimer[c]}
<1>1. Handler /\ st' = Released(st, c) /\ Forget(c) /\ real' = real
  BY DEF Quit
<1>2. Typed /\ OwnTimers /\ Stored(st)
  BY DEF IInv, Typed
<1>3. /\ Stored(st') /\ Kept(st, st', S)
      /\ \A x \in S : Listed(st', x) => st'.at[x].refs = 0
  BY <1>1, <1>2, ReleasedFacts
<1>4. KeptButTime(st, st', S)
  BY <1>3, ButTime, Zenon
<1>5. /\ OwnTimers' /\ ptimer' \in Pointer /\ rtimer' \in Pointer /\ ttimer' \in Pointer
      /\ user' \in [Client -> {"none", "unknown", "user"}]
  BY <1>1, <1>2, <1>3, <1>4, GoneFacts
<1>6. NoneEarly'
  <2>1. \A x \in Range(st'.list) \cap S : ~(st'.at[x].refs > 0)
    BY <1>3 DEF Listed
  <2>2. \A x \in Range(st'.list) \ S : real'[x] = real[x]
    BY <1>1
  <2>3. NoneEarly /\ forward' = forward /\ drift' = drift
    BY <1>1, HandlerFacts DEF IInv
  <2> HIDE DEF S
  <2> QED
    BY <1>3, <2>1, <2>2, <2>3, EarlyStep
<1>7. Begun
  <2>1. \A x \in Range(st'.list) \cap S : ~(st'.at[x].refs > 0)
    BY <1>3 DEF Listed
  <2>2. \A x \in Range(st'.list) \ S : x \in Range(st.list) /\ st'.at[x] = st.at[x]
    BY <1>3 DEF Kept
  <2> HIDE DEF S
  <2> QED
    BY <1>1, <2>1, <2>2 DEF Begun
<1> QED
  BY <1>1, <1>2, <1>3, <1>5, <1>6, <1>7, HandlerKeeps DEF Typed

(* Nothing arrives.                                                        *)
LEMMA QuietKeeps ==
  ASSUME IInv, Quiet
  PROVE  IInv' /\ Begun
<1>1. Handler /\ UNCHANGED <<st, user, ptimer, rtimer, ttimer, real>>
  BY DEF Quiet, pointers
<1>2. Typed /\ OwnTimers /\ NoneEarly /\ drift' = drift /\ forward' = forward
  BY <1>1, HandlerFacts DEF IInv
<1>3. OwnTimers'
  BY <1>1, <1>2 DEF OwnTimers, Has, Its, InFront, Listed
<1>4. NoneEarly'
  BY <1>1, <1>2 DEF NoneEarly
<1>5. Stored(st')
  BY <1>1, <1>2 DEF Typed
<1>6. Begun
  BY <1>1 DEF Begun
<1> QED
  BY <1>1, <1>2, <1>3, <1>4, <1>5, <1>6, HandlerKeeps DEF Typed

(* What a step of timer_run finds, and what every one of them leaves.      *)
LEMMA RunStepFacts ==
  ASSUME IInv, RunStep
  PROVE  /\ phase = "run" /\ ~astray /\ walk.cur # NoTimer
         /\ UNCHANGED <<phase, drift, forward, steps, astray>> /\ walk' = Onward(st', walk)
         /\ \/ /\ st.at[walk.cur].refs = 0 /\ st' = RemoveTimer(st, walk.cur)
               /\ last' = NoTimer /\ UNCHANGED <<user, ptimer, rtimer, ttimer, real>>
            \/ /\ st.at[walk.cur].refs > 0 /\ Due(st, walk.cur) /\ Callback(walk.cur)
               /\ last' = walk.cur
               /\ real' = [real EXCEPT ![walk.cur] = @ + st.at[walk.cur].every]
            \/ /\ st.at[walk.cur].refs > 0 /\ ~Due(st, walk.cur)
               /\ last' = NoTimer /\ UNCHANGED <<st, user, ptimer, rtimer, ttimer, real>>
<1> DEFINE L == Range(st.list)
           s == walk.cur
<1>1. PICK x \in L :
        \/ /\ At(x) /\ st.at[x].refs = 0 /\ st' = RemoveTimer(st, x)
           /\ last' = NoTimer /\ UNCHANGED <<user, pointers, real>>
        \/ Calling(x) /\ Callback(x) /\ last' = x /\ Owed(x)
        \/ /\ At(x) /\ st.at[x].refs > 0 /\ ~Due(st, x)
           /\ last' = NoTimer /\ UNCHANGED <<st, user, pointers, real>>
  BY DEF RunStep
<1>2. phase = "run" /\ s # NoTimer /\ x = s
  BY <1>1 DEF At, Calling
<1>3. ~astray
  BY <1>1, <1>2 DEF IInv, Remembers, InWalk, OffList, Listed
<1>4. UNCHANGED <<phase, drift, forward, steps, astray>> /\ walk' = Onward(st', walk)
  BY DEF RunStep
<1>5. \/ /\ st.at[s].refs = 0 /\ st' = RemoveTimer(st, s)
         /\ last' = NoTimer /\ UNCHANGED <<user, ptimer, rtimer, ttimer, real>>
      \/ /\ st.at[s].refs > 0 /\ Due(st, s) /\ Callback(s) /\ last' = s
         /\ real' = [real EXCEPT ![s] = @ + st.at[s].every]
      \/ /\ st.at[s].refs > 0 /\ ~Due(st, s)
         /\ last' = NoTimer /\ UNCHANGED <<st, user, ptimer, rtimer, ttimer, real>>
  BY <1>1, <1>2 DEF Calling, Owed, pointers
<1> QED
  BY <1>2, <1>3, <1>4, <1>5

(* A step of the walk is sound when what it remembered is still listed.    *)
LEMMA WalkGoesOn ==
  ASSUME IInv, InWalk, ~astray, phase' = "run", ~astray', walk.cur # NoTimer, Stored(st'),
         walk' = Onward(st', walk), walk.next # NoTimer => Listed(st', walk.next)
  PROVE  Remembers'
<1>1. walk' = [cur |-> walk.next, next |-> After(st', walk.next)]
  BY DEF Onward
<1>2. walk.next \in Slot \cup {NoTimer}
  BY DEF IInv, Remembers, InWalk
<1>3. CASE walk.next = NoTimer
  <2>1. After(st', walk.next) = NoTimer
    BY <1>3 DEF After
  <2> QED
    BY <1>1, <1>2, <1>3, <2>1 DEF Remembers, InWalk, OnList
<1>4. CASE walk.next # NoTimer
  <2>1. /\ NextBehind(st', walk.next, After(st', walk.next))
        /\ After(st', walk.next) \in Slot \cup {NoTimer}
    BY <1>4, NextFacts DEF Listed
  <2> QED
    BY <1>1, <1>2, <1>4, <2>1 DEF Remembers, InWalk, OnList
<1> QED
  BY <1>3, <1>4

(* Which timer the walk is at, and what may happen to the one behind it.   *)
LEMMA AtFacts ==
  ASSUME IInv, InWalk, ~astray, walk.cur # NoTimer
  PROVE  /\ walk.cur \in Range(st.list) /\ walk.cur \in Slot
         /\ NextBehind(st, walk.cur, walk.next)
         /\ walk.next # NoTimer =>
              /\ Listed(st, walk.next) /\ walk.next # walk.cur
              /\ \A a : InFront(st, a, walk.cur) => a # walk.next
<1>1. Stored(st) /\ Listed(st, walk.cur) /\ NextBehind(st, walk.cur, walk.next)
  BY DEF IInv, Typed, Remembers, OnList
<1>2. walk.next # NoTimer => InFront(st, walk.cur, walk.next)
  BY <1>1 DEF NextBehind
<1>3. walk.next # NoTimer =>
        /\ walk.next \in Range(st.list) /\ walk.cur # walk.next
        /\ ~InFront(st, walk.next, walk.cur)
  BY <1>1, <1>2, OrderFacts
<1>4. walk.cur \in Range(st.list) /\ walk.cur \in Slot
  BY <1>1, StoreFacts DEF Listed
<1>5. walk.next # NoTimer => \A a : InFront(st, a, walk.cur) => a # walk.next
  BY <1>3
<1> QED
  BY <1>1, <1>3, <1>4, <1>5 DEF Listed

(* The callback of a timer is its client's.                                *)
LEMMA CallbackFacts ==
  ASSUME IInv, NEW s \in Range(st.list), st.at[s].refs # 0
  PROVE  \E c \in Client :
           /\ st.at[s].arg = c /\ s \in Its(c)
           /\ st.at[s].call \in {"exit", "ping"} => s = ptimer[c]
           /\ st.at[s].call = "throttle" =>
                s = ttimer[c] /\ s # ptimer[c] /\ s # rtimer[c] /\ InFront(st, ptimer[c], s)
<1>1. st.at[s].refs \in {0, 1}
  BY StoreFacts DEF IInv, Typed
<1>2. PICK c \in Client : st.at[s].arg = c /\ s \in Its(c)
  BY <1>1 DEF IInv, OwnTimers
<1>3. Has(c)
  BY DEF IInv, OwnTimers
<1>4. s \in {ptimer[c], rtimer[c], ttimer[c]} /\ s # NoTimer
  BY <1>2 DEF Its
<1>5. st.at[s].call \in {"exit", "ping"} => s = ptimer[c]
  BY <1>3, <1>4 DEF Has
<1>6. st.at[s].call = "throttle" =>
        s = ttimer[c] /\ s # ptimer[c] /\ s # rtimer[c] /\ InFront(st, ptimer[c], s)
  BY <1>3, <1>4 DEF Has
<1> QED
  BY <1>2, <1>5, <1>6

(* What the walk leaves alone.                                             *)
LEMMA RunKeeps ==
  ASSUME IInv, phase' \in {"run", "line", "crashed"}, drift' = drift, astray' \in BOOLEAN,
         Stored(st'), Remembers', OwnTimers', NoneEarly',
         ptimer' \in Pointer, rtimer' \in Pointer, ttimer' \in Pointer,
         user' \in [Client -> {"none", "unknown", "user"}], real' \in [Slot -> Int]
  PROVE  IInv'
  BY DEF IInv, Typed

(* timer_run meets a timer nobody waits for.                               *)
LEMMA SweepKeeps ==
  ASSUME IInv, RunStep, st.at[walk.cur].refs = 0
  PROVE  IInv' /\ Walked
<1> DEFINE s == walk.cur
           S == {s}
<1>1. /\ phase = "run" /\ s # NoTimer /\ st' = RemoveTimer(st, s)
      /\ UNCHANGED <<phase, drift, forward, user, pointers, real>> /\ walk' = Onward(st', walk)
  BY RunStepFacts DEF pointers
<1>2. UNCHANGED <<user, ptimer, rtimer, ttimer>> /\ InWalk /\ ~astray /\ ~astray'
      /\ astray' \in BOOLEAN
  BY <1>1, RunStepFacts DEF IInv, Typed, pointers, InWalk
<1>3. Typed /\ OwnTimers /\ NoneEarly /\ Stored(st)
  BY DEF IInv, Typed
<1>4. s \in Range(st.list) /\ (walk.next # NoTimer => Listed(st, walk.next) /\ walk.next # s)
  BY <1>1, <1>2, AtFacts
<1> HIDE DEF s
<1>5. /\ Stored(st') /\ Kept(st, st', S) /\ ~Listed(st', s)
      /\ \A y \in Range(st.list) \ {s} : Listed(st', y)
  BY <1>1, <1>3, <1>4, RemoveFacts
<1>6. Remembers'
  <2>1. walk.next # NoTimer => Listed(st', walk.next)
    BY <1>4, <1>5 DEF Listed
  <2> QED
    BY <1>1, <1>2, <1>5, <2>1, WalkGoesOn DEF s
<1>7. OwnTimers'
  <2>1. KeptButTime(st, st', S)
    BY <1>5, ButTime, Zenon
  <2>2. \A x \in S : Listed(st, x) => st.at[x].refs = 0
    BY DEF s
  <2>3. \A x \in Range(st'.list) \cap S : st'.at[x].refs = 0
    BY <1>5 DEF Listed
  <2> HIDE DEF S
  <2> QED
    BY <1>1, <1>3, <2>1, <2>2, <2>3, OwnedSame
<1>8. NoneEarly'
  <2>1. \A x \in Range(st'.list) \cap S : FALSE
    BY <1>5 DEF Listed
  <2>2. \A x \in Range(st'.list) \ S : real'[x] = real[x]
    BY <1>1
  <2> HIDE DEF S
  <2> QED
    BY <1>1, <1>3, <1>5, <2>1, <2>2, EarlyStep
<1>9. Walked
  <2>1. \A x \in Range(st'.list) : x \in Range(st.list) \ S /\ st'.at[x] = st.at[x] /\ x # s
    BY <1>5 DEF Kept, Listed
  <2>2. ASSUME NEW x \in Range(st'.list), InFront(st, walk.next, x)
        PROVE  InFront(st', walk.next, x)
    <3>1. walk.next \in Slot
      BY <1>3, <2>2, StoreFacts DEF InFront, Range
    <3>2. walk.next \in Range(st.list) \ S
      BY <1>4, <3>1, NoTimerAssumption DEF Listed, NoTimerAssumption
    <3> QED
      BY <1>5, <2>1, <2>2, <3>2 DEF Kept
  <2> HIDE DEF S
  <2> QED
    BY <1>1, <2>1, <2>2 DEF Walked, s
<1> QED
  BY <1>1, <1>2, <1>3, <1>5, <1>6, <1>7, <1>8, <1>9, RunKeeps DEF Typed

(* The callback takes the client away: its ping timer is freed, which is   *)
(* the timer that is called or stands in front of it.                      *)
LEMMA ExitKeeps ==
  ASSUME IInv, RunStep, st.at[walk.cur].refs # 0, NEW c \in Client, Exits(c),
         st.at[walk.cur].arg = c, st.at[walk.cur].call \in {"exit", "ping", "throttle"},
         real' = [real EXCEPT ![walk.cur] = @ + st.at[walk.cur].every]
  PROVE  IInv' /\ Walked
<1> DEFINE s == walk.cur
           R == Released(st, c)
           S == {ptimer[c], rtimer[c], ttimer[c]}
<1>1. /\ phase = "run" /\ s # NoTimer /\ st' = Called(R, s, 0) /\ Forget(c)
      /\ UNCHANGED <<phase, drift, forward>> /\ walk' = Onward(st', walk)
      /\ InWalk /\ ~astray /\ ~astray' /\ astray' \in BOOLEAN
  BY RunStepFacts DEF IInv, Typed, Exits, InWalk
<1>2. Typed /\ OwnTimers /\ NoneEarly /\ Stored(st)
  BY DEF IInv, Typed
<1>3. /\ s \in Range(st.list) /\ s \in Slot
      /\ walk.next # NoTimer => /\ Listed(st, walk.next) /\ walk.next # s
                                /\ \A a : InFront(st, a, s) => a # walk.next
  BY <1>1, AtFacts
<1>4. s \in S /\ (walk.next # NoTimer => walk.next # ptimer[c])
  BY <1>3, CallbackFacts
<1>5. /\ Stored(R) /\ Kept(st, R, S)
      /\ \A x \in S : Listed(R, x) => R.at[x].refs = 0
      /\ \A x \in Range(st.list) \ {ptimer[c]} : Listed(R, x)
  BY <1>2, ReleasedFacts
<1> HIDE DEF R, s
<1>6. /\ Stored(st') /\ Retimed(R, st')
      /\ \A y \in Range(R.list) :
           st'.at[y].left = IF y = s THEN R.at[y].left + R.at[y].every ELSE R.at[y].left
  BY <1>1, <1>3, <1>5, CalledAgainFacts
<1>7. Remembers'
  <2>1. walk.next # NoTimer => Listed(st', walk.next)
    BY <1>3, <1>4, <1>5, <1>6 DEF Retimed, Listed
  <2> QED
    BY <1>1, <1>6, <2>1, WalkGoesOn DEF s
<1>8. \A x \in S : Listed(st', x) => st'.at[x].refs = 0
  BY <1>5, <1>6 DEF Retimed, Listed
<1>9. /\ OwnTimers' /\ ptimer' \in Pointer /\ rtimer' \in Pointer /\ ttimer' \in Pointer
      /\ user' \in [Client -> {"none", "unknown", "user"}]
  <2>1. KeptButTime(st, st', S)
    BY <1>5, <1>6, ButTime, Zenon
  <2> QED
    BY <1>1, <1>2, <1>8, <2>1, GoneFacts
<1>10. real' \in [Slot -> Int] /\ \A x \in Slot : x # s => real'[x] = real[x]
  <2>1. real \in [Slot -> Int] /\ st.at[s].every \in Int
    BY <1>2, <1>3, StoreFacts DEF Typed
  <2> QED
    BY <1>3, <2>1 DEF s
<1>11. ASSUME NEW x \in Range(st'.list), st'.at[x].refs > 0
       PROVE  /\ x \in Range(st.list) /\ x \notin S /\ x # s /\ st.at[x].refs > 0
              /\ st'.at[x].left = st.at[x].left /\ st'.at[x].every = st.at[x].every
              /\ real'[x] = real[x]
  <2>1. x \notin S
    BY <1>8, <1>11 DEF Listed
  <2>2. x \in Range(st.list) /\ x \in Range(R.list) /\ R.at[x] = st.at[x] /\ x # s /\ x \in Slot
    BY <1>4, <1>5, <1>6, <2>1, StoreFacts DEF Kept, Retimed
  <2> QED
    BY <1>6, <1>10, <1>11, <2>1, <2>2 DEF Retimed
<1>12. NoneEarly'
  BY <1>1, <1>2, <1>11 DEF NoneEarly
<1>13. Walked
  <2>1. ASSUME NEW x \in Range(st'.list), st'.at[x].refs > 0, InFront(st, walk.next, x)
        PROVE  InFront(st', walk.next, x)
    <3>1. walk.next \in Slot
      BY <1>2, <2>1, StoreFacts DEF InFront, Range
    <3>2. walk.next \in Range(st.list) \ {ptimer[c]}
      BY <1>3, <1>4, <3>1, NoTimerAssumption DEF Listed, NoTimerAssumption
    <3>3. x \in Range(st.list) \ {ptimer[c]}
      BY <1>11, <2>1
    <3>4. InFront(R, walk.next, x)
      BY <1>2, <2>1, <3>2, <3>3, ReleasedFacts DEF R
    <3> QED
      BY <1>6, <3>4 DEF Retimed, InFront
  <2> HIDE DEF S
  <2> QED
    BY <1>11, <2>1 DEF Walked, s
<1> QED
  BY <1>1, <1>6, <1>7, <1>9, <1>10, <1>12, <1>13, RunKeeps

(* The callback wants to be called again.                                  *)
LEMMA AgainKeeps ==
  ASSUME IInv, InWalk, walk.cur # NoTimer, Listed(st, walk.cur), st' = Called(st, walk.cur, 0),
         phase' = "run", UNCHANGED <<drift, forward, user, pointers, astray>>,
         walk' = Onward(st', walk), real' = [real EXCEPT ![walk.cur] = @ + st.at[walk.cur].every]
  PROVE  IInv' /\ Walked
<1> DEFINE s == walk.cur
<1>1. /\ s # NoTimer /\ st' = Called(st, s, 0)
      /\ UNCHANGED <<drift, forward, user, ptimer, rtimer, ttimer>>
      /\ walk' = Onward(st', walk) /\ phase' = "run" /\ astray' = astray
  BY DEF pointers
<1>2. Typed /\ OwnTimers /\ NoneEarly /\ Stored(st)
  BY DEF IInv, Typed
<1>3. s \in Range(st.list) /\ s \in Slot /\ (walk.next # NoTimer /\ ~astray => Listed(st, walk.next))
  BY <1>1, <1>2, AtFacts, StoreFacts DEF Listed
<1>4. real' = [real EXCEPT ![s] = @ + st.at[s].every]
  OBVIOUS
<1> HIDE DEF s
<1>5. /\ Stored(st') /\ Retimed(st, st')
      /\ \A y \in Range(st.list) :
           st'.at[y].left = IF y = s THEN st.at[y].left + st.at[y].every ELSE st.at[y].left
  BY <1>1, <1>2, <1>3, CalledAgainFacts
<1>6. Remembers'
  <2>1. CASE ~astray
    <3>1. walk.next # NoTimer => Listed(st', walk.next)
      BY <1>3, <1>5, <2>1 DEF Retimed, Listed
    <3> QED
      BY <1>1, <1>5, <2>1, <3>1, WalkGoesOn DEF s
  <2>2. CASE astray
    <3>1. walk.next \in Slot /\ walk.next # NoTimer /\ ~Listed(st, walk.next)
      BY <2>2 DEF IInv, Remembers, InWalk, OffList
    <3>2. ~Listed(st', walk.next)
      BY <1>5, <3>1 DEF Retimed, Listed
    <3>3. walk' = [cur |-> walk.next, next |-> NoTimer]
      BY <1>1, <3>2 DEF Onward, After
    <3> QED
      BY <1>1, <2>2, <3>1, <3>2, <3>3 DEF Remembers, InWalk, OffList
  <2> QED
    BY <2>1, <2>2
<1>7. OwnTimers'
  <2>1. Kept(st, st, {})
    BY SameFacts, Zenon
  <2>2. KeptButTime(st, st', {})
    BY <1>5, <2>1, ButTime, Zenon
  <2> QED
    BY <1>1, <1>2, <2>2, OwnedSame DEF pointers
<1>8. \A x \in Slot : real[x] \in Int /\ st.at[x].every \in Int /\ st.at[x].left \in Int
  BY <1>2, StoreFacts DEF Typed
<1>9. /\ real' \in [Slot -> Int]
      /\ \A x \in Slot : real'[x] = IF x = s THEN real[x] + st.at[x].every ELSE real[x]
  <2>1. real \in [Slot -> Int] /\ real[s] + st.at[s].every \in Int
    BY <1>2, <1>3, <1>8 DEF Typed
  <2> DEFINE v == real[s] + st.at[s].every
  <2>2. real' = [real EXCEPT ![s] = v] /\ v \in Int
    BY <1>4, <2>1
  <2> HIDE DEF v
  <2>3. real' \in [Slot -> Int] /\ \A x \in Slot : real'[x] = IF x = s THEN v ELSE real[x]
    BY <1>3, <2>1, <2>2
  <2> QED
    BY <2>3 DEF v
<1>10. NoneEarly'
  <2> SUFFICES ASSUME ~forward, NEW x \in Range(st'.list), st'.at[x].refs > 0
               PROVE  real'[x] <= st'.at[x].left /\ real'[x] <= st'.at[x].left + drift
    BY <1>1 DEF NoneEarly
  <2>1. x \in Range(st.list) /\ st.at[x].refs > 0 /\ x \in Slot
    BY <1>2, <1>5, StoreFacts DEF Retimed
  <2>2. real[x] <= st.at[x].left /\ real[x] <= st.at[x].left + drift
    BY <1>2, <2>1 DEF NoneEarly
  <2>3. drift \in Int
    BY <1>2 DEF Typed
  <2>4. CASE x = s
    <3>1. real'[x] = real[x] + st.at[x].every /\ st'.at[x].left = st.at[x].left + st.at[x].every
      BY <1>5, <1>9, <2>1, <2>4
    <3> QED
      BY <1>8, <2>1, <2>2, <2>3, <3>1
  <2>5. CASE x # s
    <3>1. real'[x] = real[x] /\ st'.at[x].left = st.at[x].left
      BY <1>5, <1>9, <2>1, <2>5
    <3> QED
      BY <2>2, <3>1
  <2> QED
    BY <2>4, <2>5
<1>11. Walked
  <2>1. \A a, x : InFront(st, a, x) => InFront(st', a, x)
    BY <1>5 DEF Retimed, InFront
  <2>2. \A x \in Range(st'.list) :
          /\ x \in Range(st.list) /\ x \in Slot /\ st'.at[x].refs = st.at[x].refs
          /\ st'.at[x].every = st.at[x].every
    BY <1>2, <1>5, StoreFacts DEF Retimed
  <2> QED
    BY <1>5, <1>9, <2>1, <2>2 DEF Walked, s
<1> QED
  BY <1>1, <1>2, <1>5, <1>6, <1>7, <1>9, <1>10, <1>11, RunKeeps DEF Typed

(* The throttle's callback wants no more calls: the client forgets it.     *)
LEMMA NoMoreKeeps ==
  ASSUME IInv, RunStep, st.at[walk.cur].refs # 0, NEW c \in Client, Stays(c, 1),
         st.at[walk.cur].arg = c, st.at[walk.cur].call = "throttle",
         real' = [real EXCEPT ![walk.cur] = @ + st.at[walk.cur].every]
  PROVE  IInv' /\ Walked
<1> DEFINE s == walk.cur
           S == {s}
           C == {c}
<1>1. /\ phase = "run" /\ s # NoTimer /\ st' = Called(st, s, 1)
      /\ UNCHANGED <<phase, drift, forward, user, ptimer, rtimer>>
      /\ ttimer' = [ttimer EXCEPT ![c] = NoTimer]
      /\ walk' = Onward(st', walk) /\ InWalk /\ ~astray /\ ~astray' /\ astray' \in BOOLEAN
  BY RunStepFacts DEF IInv, Typed, Stays, InWalk
<1>2. Typed /\ OwnTimers /\ NoneEarly /\ Stored(st) /\ Has(c)
  BY DEF IInv, Typed, OwnTimers
<1>3. s \in Range(st.list) /\ s \in Slot /\ (walk.next # NoTimer => Listed(st, walk.next))
  BY <1>1, AtFacts
<1>4. s = ttimer[c] /\ s # ptimer[c] /\ s # rtimer[c]
  BY <1>3, CallbackFacts
<1>5. real' = [real EXCEPT ![s] = @ + st.at[s].every]
  OBVIOUS
<1> HIDE DEF s
<1>6. /\ Stored(st') /\ Kept(st, st', S) /\ st'.list = st.list /\ st'.at[s].refs = 0
  BY <1>1, <1>2, <1>3, CalledOnceFacts
<1>7. Remembers'
  <2>1. walk.next # NoTimer => Listed(st', walk.next)
    BY <1>3, <1>6 DEF Listed
  <2> QED
    BY <1>1, <1>6, <2>1, WalkGoesOn DEF s
<1>8. real' \in [Slot -> Int] /\ \A x \in Slot : x # s => real'[x] = real[x]
  <2>1. real \in [Slot -> Int] /\ st.at[s].every \in Int
    BY <1>2, <1>3, StoreFacts DEF Typed
  <2> DEFINE v == real[s] + st.at[s].every
  <2>2. real' = [real EXCEPT ![s] = v]
    BY <1>5
  <2>3. s \in Slot
    BY <1>3
  <2>4. real[s] \in Int
    BY <2>1, <2>3
  <2>5. v \in Int
    BY <2>1, <2>4
  <2> HIDE DEF v
  <2> QED
    BY <2>1, <2>2, <2>3, <2>5
<1>9. ttimer' \in Pointer /\ ttimer'[c] = NoTimer /\ \A d \in Client \ C : ttimer'[d] = ttimer[d]
  BY <1>1, <1>2 DEF Typed, Pointer
<1>10. OwnTimers'
  <2>1. Its(c)' = Its(c) \ {s}
    BY <1>1, <1>4, <1>9 DEF Its
  <2>2. \A x \in Its(c) \ {s} : Listed(st', x) /\ st'.at[x] = st.at[x]
    BY <1>2, <1>6 DEF Has, Kept, Listed
  <2>3. Has(c)'
    <3>1. \A x \in Its(c)' : Listed(st', x) /\ st'.at[x].arg = c /\ st'.at[x].refs = 1
      BY <1>2, <2>1, <2>2 DEF Has
    <3>2. /\ ptimer[c] # NoTimer => ptimer[c] \in Its(c) \ {s}
          /\ rtimer[c] # NoTimer => rtimer[c] \in Its(c) \ {s}
      BY <1>4 DEF Its
    <3>3. /\ ptimer[c] # NoTimer => st'.at[ptimer[c]].call \in {"exit", "ping"}
          /\ rtimer[c] # NoTimer => st'.at[rtimer[c]].call = "reset"
      BY <1>2, <2>2, <3>2 DEF Has
    <3> QED
      BY <1>1, <1>2, <1>9, <3>1, <3>3 DEF Has
  <2>4. \A d \in Client \ C : /\ ptimer'[d] = ptimer[d] /\ rtimer'[d] = rtimer[d]
                              /\ ttimer'[d] = ttimer[d] /\ user'[d] = user[d]
                              /\ Its(d) \cap S = {}
    <3>1. \A d \in Client \ C : s \notin Its(d)
      BY <1>2, <1>4, ItsFacts
    <3> QED
      BY <1>1, <1>9, <3>1
  <2>5. \A e \in C : Has(e)' /\ Its(e) \ S \subseteq Its(e)'
    BY <2>1, <2>3
  <2>6. \A y \in Range(st'.list) \cap S : ~(st'.at[y].refs > 0)
    BY <1>6
  <2> HIDE DEF S, C
  <2>7. C \in SUBSET Client /\ KeptButTime(st, st', S)
    BY <1>6, ButTime, Zenon DEF C
  <2> QED
    BY <1>2, <2>4, <2>5, <2>6, <2>7, OwnedStep
<1>11. NoneEarly'
  <2>1. \A x \in Range(st'.list) \cap S : ~(st'.at[x].refs > 0)
    BY <1>6
  <2>2. \A x \in Range(st'.list) \ S : real'[x] = real[x]
    BY <1>6, <1>8, StoreFacts
  <2> HIDE DEF S
  <2> QED
    BY <1>1, <1>2, <1>6, <2>1, <2>2, EarlyStep
<1>12. Walked
  <2>1. \A a, x : InFront(st, a, x) => InFront(st', a, x)
    BY <1>6 DEF InFront
  <2>2. \A x \in Range(st'.list) : st'.at[x].refs > 0 =>
          x \in Range(st.list) /\ x # s /\ st'.at[x] = st.at[x] /\ real'[x] = real[x]
    BY <1>2, <1>6, <1>8, StoreFacts DEF Kept
  <2> QED
    BY <2>1, <2>2 DEF Walked, s
<1> QED
  BY <1>1, <1>2, <1>6, <1>7, <1>8, <1>9, <1>10, <1>11, <1>12, RunKeeps DEF Typed

(* A step of timer_run.                                                    *)
LEMMA RunStepKeeps ==
  ASSUME IInv, RunStep
  PROVE  IInv' /\ Walked
<1> DEFINE s == walk.cur
<1>1. /\ phase = "run" /\ s # NoTimer /\ InWalk /\ ~astray /\ ~astray'
      /\ UNCHANGED <<phase, drift, forward, astray>> /\ walk' = Onward(st', walk)
  BY RunStepFacts DEF InWalk
<1>2. s \in Range(st.list)
  BY <1>1, AtFacts
<1>3. CASE st.at[s].refs = 0
  BY <1>3, SweepKeeps
<1>4. CASE st.at[s].refs > 0 /\ Due(st, s)
  <2>1. Callback(s) /\ real' = [real EXCEPT ![s] = @ + st.at[s].every]
    BY <1>4, RunStepFacts
  <2>2. PICK c \in Client : st.at[s].arg = c
    BY <1>2, <1>4, CallbackFacts
  <2>3. \/ Exits(c) /\ st.at[s].call \in {"exit", "ping", "throttle"}
        \/ Stays(c, 0)
        \/ Stays(c, 1) /\ st.at[s].call = "throttle"
    BY <2>1, <2>2 DEF Callback
  <2>4. CASE Exits(c) /\ st.at[s].call \in {"exit", "ping", "throttle"}
    BY <1>4, <2>1, <2>2, <2>4, ExitKeeps
  <2>5. CASE Stays(c, 0)
    <3>1. st' = Called(st, walk.cur, 0) /\ UNCHANGED <<user, pointers>>
      BY <2>5 DEF Stays, pointers
    <3> QED
      BY <1>1, <1>2, <2>1, <3>1, AgainKeeps DEF Listed
  <2>6. CASE Stays(c, 1) /\ st.at[s].call = "throttle"
    BY <1>4, <2>1, <2>2, <2>6, NoMoreKeeps
  <2> QED
    BY <2>3, <2>4, <2>5, <2>6
<1>5. CASE st.at[s].refs > 0 /\ ~Due(st, s)
  <2>1. UNCHANGED <<st, user, ptimer, rtimer, ttimer, real, phase, drift, forward>>
        /\ walk' = Onward(st', walk)
    BY <1>1, <1>5, RunStepFacts
  <2>2. Typed /\ OwnTimers /\ NoneEarly /\ Stored(st')
    BY <2>1 DEF IInv, Typed
  <2>3. Remembers'
    BY <1>1, <2>1, <2>2, AtFacts, WalkGoesOn
  <2>4. OwnTimers'
    BY <2>1, <2>2 DEF OwnTimers, Has, Its, InFront, Listed
  <2>5. NoneEarly'
    BY <2>1, <2>2 DEF NoneEarly
  <2>6. Walked
    <3>1. \A x \in Range(st.list) : st.at[x].refs > 0 => (x = s => st.at[x].left > 0)
      BY <1>2, <1>5, <2>2, StoreFacts DEF Due, Typed
    <3>2. \A a, x : InFront(st, a, x) => InFront(st', a, x)
      BY <2>1 DEF InFront
    <3> QED
      BY <2>1, <3>1, <3>2 DEF Walked
  <2> QED
    BY <1>1, <2>1, <2>2, <2>3, <2>4, <2>5, <2>6, RunKeeps DEF Typed
<1>6. st.at[s].refs = 0 \/ st.at[s].refs > 0
  BY RunStepFacts
<1> QED
  BY <1>3, <1>4, <1>5, <1>6

(* The throttle's timer has a line run.                                    *)
LEMMA RunLineKeeps ==
  ASSUME IInv, RunLine
  PROVE  IInv'
<1>1. /\ phase = "run" /\ walk.cur # NoTimer /\ Listed(st, walk.cur) /\ phase' = "line"
      /\ st.at[walk.cur].call = "throttle"
      /\ UNCHANGED <<st, walk, drift, user, ptimer, rtimer, ttimer, real, forward, astray>>
  BY DEF RunLine, Calling, At, pointers
<1>2. ~astray
  BY <1>1 DEF IInv, Remembers, InWalk, OffList
<1>3. Remembers'
  BY <1>1, <1>2 DEF IInv, Remembers, InWalk, OnList, Listed, NextBehind, InFront
<1>4. OwnTimers' /\ NoneEarly'
  BY <1>1 DEF IInv, OwnTimers, Has, Its, InFront, Listed, NoneEarly
<1>5. Typed'
  BY <1>1 DEF IInv, Typed
<1> QED
  BY <1>3, <1>4, <1>5 DEF IInv

\* What a line leaves of the timers: some of those that wait, all as they were
\* and behind the one that is called as before.
Thinned ==
  \A x \in Range(st'.list) : st'.at[x].refs > 0 =>
    /\ x \in Range(st.list) /\ st'.at[x] = st.at[x] /\ real'[x] = real[x]
    /\ InFront(st, walk.cur, x) => InFront(st', walk.cur, x)

(* The line makes a client leave.  Its ping timer may be what timer_run    *)
(* goes to next.                                                           *)
LEMMA LineExitKeeps ==
  ASSUME IInv, NEW c \in Client, LineExit(c)
  PROVE  IInv' /\ Thinned
<1> DEFINE S == {ptimer[c], rtimer[c], ttimer[c]}
           s == walk.cur
           p == ptimer[c]
<1>1. /\ phase = "line" /\ phase' = "line" /\ user[c] = "user"
      /\ st' = Released(st, c) /\ Forget(c) /\ astray' = (astray \/ p = walk.next)
      /\ UNCHANGED <<walk, drift, real, forward>>
  BY DEF LineExit
<1>2. Typed /\ OwnTimers /\ Stored(st) /\ NoneEarly /\ Has(c)
  BY DEF IInv, Typed, OwnTimers
<1>3. /\ Stored(st') /\ Kept(st, st', S)
      /\ \A x \in S : Listed(st', x) => st'.at[x].refs = 0
      /\ \A x \in Range(st.list) \ {p} : Listed(st', x)
      /\ ~Listed(st', p)
      /\ \A a \in Range(st.list) \ {p}, b \in Range(st.list) \ {p} :
           InFront(st, a, b) => InFront(st', a, b)
  BY <1>1, <1>2, ReleasedFacts
<1>4. p # NoTimer /\ Listed(st, p) /\ st.at[p].call \in {"exit", "ping"}
  BY <1>1, <1>2 DEF Has, Its
<1>5. s # NoTimer /\ Listed(st, s) /\ s # p /\ st.at[s].call = "throttle"
  BY <1>1, <1>4 DEF IInv, Remembers, InWalk
<1>6. Listed(st', s) /\ st'.at[s].call = "throttle"
  BY <1>1, <1>2, <1>3, <1>5, ReleasedCalls DEF Listed
<1>7. \A x \in Range(st'.list) : x \in Range(st.list) /\ x # p
  <2>1. \A x \in S : x = NoTimer \/ Listed(st, x)
    BY <1>2 DEF Has, Its
  <2>2. \A x \in Range(st'.list) : x \in Slot /\ x # NoTimer
    BY <1>3, StoreFacts, NoTimerAssumption DEF NoTimerAssumption
  <2>3. \A x \in Range(st'.list) : x \notin S => x \in Range(st.list)
    BY <1>3, Zenon DEF Kept
  <2>4. \A x \in Range(st'.list) : x # p
    BY <1>3 DEF Listed
  <2> HIDE DEF S, p
  <2> QED
    BY <2>1, <2>2, <2>3, <2>4 DEF Listed
<1>8. Remembers'
  <2>1. walk = [cur |-> s, next |-> walk.next] /\ s \in Slot \cup {NoTimer}
        /\ walk.next \in Slot \cup {NoTimer}
    BY <1>1 DEF IInv, Remembers, InWalk
  <2>2. CASE astray'
    <3>1. walk.next # NoTimer /\ ~Listed(st', walk.next)
      <4>1. CASE p = walk.next
        BY <1>3, <1>4, <4>1
      <4>2. CASE p # walk.next
        <5>1. walk.next # NoTimer /\ ~Listed(st, walk.next)
          BY <1>1, <2>2, <4>2 DEF IInv, Remembers, InWalk, OffList
        <5> QED
          BY <1>7, <5>1 DEF Listed
      <4> QED
        BY <4>1, <4>2
    <3> QED
      BY <1>1, <1>5, <1>6, <2>1, <2>2, <3>1 DEF Remembers, InWalk, OffList
  <2>3. CASE ~astray'
    <3>1. ~astray /\ p # walk.next
      BY <1>1, <2>3
    <3>2. NextBehind(st, s, walk.next)
      BY <1>1, <1>5, <3>1 DEF IInv, Remembers, InWalk, OnList
    <3>3. NextBehind(st', s, walk.next)
      <4> HIDE DEF s, p
      <4> QED
        BY <1>2, <1>3, <1>5, <1>7, <3>1, <3>2, NextStays, Zenon DEF Listed
    <3> QED
      BY <1>1, <1>5, <1>6, <2>1, <2>3, <3>3 DEF Remembers, InWalk, OnList
  <2> QED
    BY <2>2, <2>3
<1>9. /\ OwnTimers' /\ ptimer' \in Pointer /\ rtimer' \in Pointer /\ ttimer' \in Pointer
      /\ user' \in [Client -> {"none", "unknown", "user"}]
  <2>1. KeptButTime(st, st', S)
    BY <1>3, ButTime, Zenon
  <2> QED
    BY <1>1, <1>2, <1>3, <2>1, GoneFacts
<1>10. \A x \in Range(st'.list) \cap S : ~(st'.at[x].refs > 0)
  BY <1>3 DEF Listed
<1>11. NoneEarly'
  <2>1. \A x \in Range(st'.list) \ S : real'[x] = real[x]
    BY <1>1
  <2> HIDE DEF S
  <2> QED
    BY <1>1, <1>2, <1>3, <1>10, <2>1, EarlyStep
<1>12. Thinned
  <2>1. \A x \in Range(st'.list) \ S : x \in Range(st.list) /\ st'.at[x] = st.at[x]
    BY <1>3 DEF Kept
  <2>2. \A x \in Range(st'.list) : InFront(st, s, x) => InFront(st', s, x)
    BY <1>3, <1>5, <1>7 DEF Listed
  <2> HIDE DEF S
  <2> QED
    BY <1>1, <1>10, <2>1, <2>2 DEF Thinned
<1>13. astray' \in BOOLEAN /\ real' \in [Slot -> Int]
  BY <1>1, <1>2 DEF Typed
<1> QED
  BY <1>1, <1>3, <1>8, <1>9, <1>11, <1>12, <1>13, RunKeeps

(* timer_run goes on behind the line, or to a block that was freed.        *)
LEMMA LineDoneKeeps ==
  ASSUME IInv, LineDone
  PROVE  IInv' /\ Walked
<1>1. /\ phase = "line" /\ phase' = "run" /\ st' = Called(st, walk.cur, 0)
      /\ walk' = Onward(st', walk) /\ UNCHANGED <<drift, user, pointers, forward, astray>>
      /\ real' = [real EXCEPT ![walk.cur] = @ + st.at[walk.cur].every]
  BY DEF LineDone, Owed
<1>2. InWalk /\ walk.cur # NoTimer /\ Listed(st, walk.cur)
  BY <1>1 DEF IInv, Remembers, InWalk
<1> QED
  BY <1>1, <1>2, AgainKeeps

(* The freed block is where the server ends.                               *)
LEMMA CrashKeeps ==
  ASSUME IInv, Crash
  PROVE  IInv' /\ astray /\ astray'
<1>1. /\ phase = "run" /\ walk.cur # NoTimer /\ ~Listed(st, walk.cur) /\ phase' = "crashed"
      /\ UNCHANGED <<st, walk, drift, user, ptimer, rtimer, ttimer, real, forward, astray>>
  BY DEF Crash, At, pointers
<1>2. astray
  BY <1>1 DEF IInv, Remembers, InWalk, OnList
<1>3. Remembers'
  BY <1>1, <1>2 DEF IInv, Remembers, InWalk, OffList, Listed
<1>4. OwnTimers' /\ NoneEarly'
  BY <1>1 DEF IInv, OwnTimers, Has, Its, InFront, Listed, NoneEarly
<1>5. Typed'
  BY <1>1 DEF IInv, Typed
<1> QED
  BY <1>1, <1>2, <1>3, <1>4, <1>5 DEF IInv

(* The end of the walk.                                                    *)
LEMMA RunDoneKeeps ==
  ASSUME IInv, RunDone
  PROVE  IInv'
<1>1. /\ phase = "run" /\ walk.cur = NoTimer /\ phase' = "drift"
      /\ UNCHANGED <<st, walk, drift, user, ptimer, rtimer, ttimer, real, forward, astray>>
  BY DEF RunDone, pointers
<1>2. walk = Idle /\ ~astray
  <2>1. ~astray
    BY <1>1 DEF IInv, Remembers, InWalk, OffList
  <2>2. walk.next = NoTimer
    BY <1>1, <2>1 DEF IInv, Remembers, InWalk, OnList
  <2>3. walk = [cur |-> NoTimer, next |-> NoTimer]
    BY <1>1, <2>2 DEF IInv, Remembers, InWalk
  <2> QED
    BY <2>1, <2>3 DEF Idle
<1>3. Typed'
  BY <1>1 DEF IInv, Typed
<1>4. OwnTimers' /\ NoneEarly'
  BY <1>1 DEF IInv, OwnTimers, Has, Its, InFront, Listed, NoneEarly
<1> QED
  BY <1>1, <1>2, <1>3, <1>4 DEF IInv, Remembers, InWalk

(* timer_drift puts back what the clock was set by, or nothing.            *)
LEMMA DriftKeeps ==
  ASSUME IInv, Drift
  PROVE  IInv'
<1>1. /\ phase = "drift" /\ phase' = "io" /\ drift' = 0
      /\ st' = IF drift < -MaxDrift \/ drift > MaxDrift THEN Shift(st, drift) ELSE st
      /\ UNCHANGED <<walk, user, ptimer, rtimer, ttimer, real, forward, astray>>
  BY DEF Drift, pointers
<1>2. Typed /\ OwnTimers /\ NoneEarly /\ Stored(st) /\ drift \in Int
  BY DEF IInv, Typed
<1>3. \E d \in {0, drift} :
        /\ Stored(st') /\ Retimed(st, st')
        /\ \A y \in Range(st.list) : st'.at[y].left = st.at[y].left + d
  <2>1. \A y \in Range(st.list) : st.at[y].left \in Int
    BY <1>2, StoreFacts
  <2>2. CASE drift < -MaxDrift \/ drift > MaxDrift
    <3>0. -drift \in Int
      BY <1>2
    <3>1. st' = Pass(st, -drift)
      BY <1>1, <2>2 DEF Shift
    <3>2. /\ Stored(st') /\ Retimed(st, st')
          /\ \A y \in Range(st.list) : st'.at[y].left = st.at[y].left - (-drift)
      BY <1>2, <3>0, <3>1, PassFacts
    <3>3. \A y \in Range(st.list) : st'.at[y].left = st.at[y].left + drift
      BY <1>2, <2>1, <3>2
    <3> QED
      BY <3>2, <3>3
  <2>3. CASE ~(drift < -MaxDrift \/ drift > MaxDrift)
    <3>1. st' = st
      BY <1>1, <2>3
    <3>2. \A y \in Range(st.list) : st'.at[y].left = st.at[y].left + 0
      BY <2>1, <3>1
    <3> QED
      BY <1>2, <3>1, <3>2 DEF Retimed
  <2> QED
    BY <2>2, <2>3
<1>4. PICK d \in {0, drift} :
        /\ Stored(st') /\ Retimed(st, st')
        /\ \A y \in Range(st.list) : st'.at[y].left = st.at[y].left + d
  BY <1>3
<1>5. Typed'
  BY <1>1, <1>2, <1>4 DEF Typed
<1>6. Remembers'
  BY <1>1 DEF IInv, Remembers, InWalk
<1>7. OwnTimers'
  <2>1. Kept(st, st, {})
    BY SameFacts, Zenon
  <2>2. KeptButTime(st, st', {})
    BY <1>4, <2>1, ButTime, Zenon
  <2> QED
    BY <1>1, <1>2, <2>2, OwnedSame DEF pointers
<1>8. NoneEarly'
  <2> SUFFICES ASSUME ~forward, NEW x \in Range(st'.list), st'.at[x].refs > 0
               PROVE  real'[x] <= st'.at[x].left /\ real'[x] <= st'.at[x].left + 0
    BY <1>1 DEF NoneEarly
  <2>1. x \in Range(st.list) /\ st.at[x].refs > 0 /\ real'[x] = real[x]
        /\ st'.at[x].left = st.at[x].left + d
    BY <1>1, <1>4 DEF Retimed
  <2>2. real[x] <= st.at[x].left /\ real[x] <= st.at[x].left + drift
    BY <1>2, <2>1 DEF NoneEarly
  <2>3. st.at[x].left \in Int /\ real[x] \in Int
    BY <1>2, <2>1, StoreFacts DEF Typed
  <2>4. CASE d = 0
    BY <2>1, <2>2, <2>3, <2>4
  <2>5. CASE d = drift
    BY <1>2, <2>1, <2>2, <2>3, <2>5
  <2> QED
    BY <2>4, <2>5
<1> QED
  BY <1>5, <1>6, <1>7, <1>8 DEF IInv

(* timer_collect frees nobody's timers only.                               *)
LEMMA CollectKeeps ==
  ASSUME IInv, Collect
  PROVE  IInv'
<1> DEFINE S == {x \in Range(st.list) : st.at[x].refs = 0}
<1>1. /\ phase = "collect" /\ phase' = "poll" /\ st' = CollectTimers(st)
      /\ UNCHANGED <<walk, drift, user, ptimer, rtimer, ttimer, real, forward, astray>>
  BY DEF Collect, pointers
<1>2. Typed /\ OwnTimers /\ NoneEarly /\ Stored(st)
  BY DEF IInv, Typed
<1>3. /\ Stored(st') /\ Kept(st, st', S)
      /\ \A x \in Range(st'.list) : x \in Range(st.list) /\ st.at[x].refs # 0
  BY <1>1, <1>2, CollectFacts
<1>4. \A x \in Range(st'.list) \cap S : FALSE
  BY <1>3
<1>5. \A x \in S : Listed(st, x) => st.at[x].refs = 0
  OBVIOUS
<1> HIDE DEF S
<1>6. Typed'
  BY <1>1, <1>2, <1>3 DEF Typed
<1>7. Remembers'
  BY <1>1 DEF IInv, Remembers, InWalk
<1>8. OwnTimers'
  <2>1. KeptButTime(st, st', S)
    BY <1>3, ButTime, Zenon
  <2> QED
    BY <1>1, <1>2, <1>4, <1>5, <2>1, OwnedSame DEF pointers
<1>9. NoneEarly'
  BY <1>1, <1>2, <1>3, <1>4, EarlyStep
<1> QED
  BY <1>6, <1>7, <1>8, <1>9 DEF IInv

(* The clock time of a poll is not less than what timers are told of it,   *)
(* nor what the clock was set by when it was not set forward.              *)
LEMMA PollTimes ==
  ASSUME NEW r \in Int, r >= 0, NEW j \in Int, j <= 0, NEW w \in Int, NEW waited,
         waited = IF w = 0 \/ r + j > w THEN w ELSE Within(r + j, 0, w),
         NEW left \in Int, NEW time \in Int, time <= left
  PROVE  /\ time - r <= left - (r + j)
         /\ w >= 0 => time - r <= left - (r + j) + ((r + j) - waited)
  BY DEF Within

(* timer_deadline frees what timer_collect does; then time passes.         *)
LEMMA PollKeeps ==
  ASSUME IInv, NEW r \in 0 .. PingFreq + MaxLate, NEW j \in ClockSteps \cup {0}, Poll(r, j)
  PROVE  IInv'
<1> DEFINE s0 == CollectTimers(st)
           w == TimeoutOf(s0)
           e == r + j
           over == w = 0 \/ e > w
           waited == IF over THEN w ELSE Within(e, 0, w)
           S == {x \in Range(st.list) : st.at[x].refs = 0}
<1>1. /\ phase = "poll" /\ st' = Pass(s0, e)
      /\ real' = [x \in Slot |-> IF Listed(s0, x) THEN real[x] - r ELSE 0]
      /\ drift' = (IF w < 0 THEN 0 ELSE e - waited)
      /\ phase' = (IF over THEN "run" ELSE "drift")
      /\ walk' = (IF over THEN Begin(st') ELSE Idle)
      /\ forward' = (forward \/ j > 0)
      /\ UNCHANGED <<user, ptimer, rtimer, ttimer, astray>>
  BY DEF Poll, pointers
<1>2. Typed /\ OwnTimers /\ NoneEarly /\ Stored(st) /\ drift = 0 /\ ~astray
  BY <1>1 DEF IInv, Typed, Remembers, InWalk
<1>3. r \in Int /\ r >= 0 /\ j \in Int /\ e \in Int
  BY Intervals, EventLoopAssumption DEF EventLoopAssumption
<1>4. /\ Stored(s0) /\ Kept(st, s0, S)
      /\ \A x \in Range(s0.list) : x \in Range(st.list) /\ st.at[x].refs # 0
  BY <1>2, CollectFacts
<1>5. w \in Int
  BY <1>4, TimeoutFacts
<1> HIDE DEF s0, w
<1>6. /\ Stored(st') /\ Retimed(s0, st')
      /\ \A y \in Range(s0.list) : st'.at[y].left = s0.at[y].left - e
  BY <1>1, <1>3, <1>4, PassFacts
<1>7. waited \in Int
  BY <1>3, <1>5 DEF Within
<1> HIDE DEF waited, over, e
<1>8. Typed'
  <2>1. real' \in [Slot -> Int]
    BY <1>1, <1>2, <1>3 DEF Typed
  <2>2. drift' \in Int
    BY <1>1, <1>3, <1>7
  <2> QED
    BY <1>1, <1>2, <1>6, <2>1, <2>2 DEF Typed
<1>9. Remembers'
  <2>1. CASE over /\ st'.list # <<>>
    <3>1. walk' = [cur |-> Head(st'.list), next |-> After(st', Head(st'.list))] /\ phase' = "run"
      BY <1>1, <2>1 DEF Begin
    <3>2. Head(st'.list) \in Range(st'.list) /\ Head(st'.list) \in Slot
      BY <1>6, <2>1, StoreFacts, TailFacts
    <3>3. /\ NextBehind(st', Head(st'.list), After(st', Head(st'.list)))
          /\ After(st', Head(st'.list)) \in Slot \cup {NoTimer}
      BY <1>6, <3>2, NextFacts
    <3> QED
      BY <1>1, <1>2, <3>1, <3>2, <3>3, NoTimerAssumption
      DEF Remembers, InWalk, OnList, Listed, NoTimerAssumption
  <2>2. CASE over /\ st'.list = <<>>
    <3>1. walk' = Idle /\ phase' = "run"
      BY <1>1, <2>2 DEF Begin
    <3> QED
      BY <1>1, <1>2, <3>1 DEF Remembers, InWalk, OnList, Idle
  <2>3. CASE ~over
    BY <1>1, <1>2, <2>3 DEF Remembers, InWalk
  <2> QED
    BY <2>1, <2>2, <2>3
<1>10. OwnTimers'
  <2>1. KeptButTime(st, st', S)
    BY <1>4, <1>6, ButTime, Zenon
  <2>2. \A x \in S : Listed(st, x) => st.at[x].refs = 0
    OBVIOUS
  <2>3. \A x \in Range(st'.list) \cap S : st'.at[x].refs = 0
    BY <1>4, <1>6 DEF Retimed
  <2> HIDE DEF S
  <2> QED
    BY <1>1, <1>2, <2>1, <2>2, <2>3, OwnedSame DEF pointers
<1>11. NoneEarly'
  <2> SUFFICES ASSUME ~forward', NEW x \in Range(st'.list), st'.at[x].refs > 0
               PROVE  real'[x] <= st'.at[x].left /\ real'[x] <= st'.at[x].left + drift'
    BY DEF NoneEarly
  <2>0. ~(forward \/ j > 0)
    BY <1>1, Zenon
  <2>1. ~forward /\ j <= 0
    BY <1>3, <2>0
  <2>2. x \in Range(s0.list) /\ x \in Range(st.list) \ S /\ x \in Slot
    BY <1>2, <1>4, <1>6, StoreFacts DEF Retimed
  <2>3. s0.at[x] = st.at[x] /\ st'.at[x].refs = st.at[x].refs
    BY <1>4, <1>6, <2>2 DEF Kept, Retimed
  <2>4. st'.at[x].left = st.at[x].left - e /\ real'[x] = real[x] - r
    BY <1>1, <1>6, <2>2, <2>3 DEF Listed
  <2>5. st.at[x].left \in Int /\ real[x] \in Int
    BY <1>2, <2>2, StoreFacts DEF Typed
  <2>6. real[x] <= st.at[x].left
    BY <1>2, <2>1, <2>2, <2>3 DEF NoneEarly
  <2> DEFINE left == st.at[x].left
             time == real[x]
  <2>7. left \in Int /\ time \in Int /\ time <= left
    BY <2>5, <2>6
  <2>8. waited = IF w = 0 \/ r + j > w THEN w ELSE Within(r + j, 0, w)
    BY DEF waited, over, e
  <2> HIDE DEF left, time
  <2>9. /\ time - r <= left - (r + j)
        /\ w >= 0 => time - r <= left - (r + j) + ((r + j) - waited)
    BY <1>3, <1>5, <2>1, <2>7, <2>8, PollTimes
  <2>10. real'[x] = time - r /\ st'.at[x].left = left - (r + j)
    BY <2>4 DEF left, time, e
  <2>11. CASE w < 0
    <3>1. drift' = 0 /\ left - (r + j) \in Int
      BY <1>1, <1>3, <2>7, <2>11
    <3> QED
      BY <2>9, <2>10, <3>1
  <2>12. CASE ~(w < 0)
    <3>1. drift' = (r + j) - waited /\ w >= 0
      BY <1>1, <1>5, <2>12 DEF e
    <3> QED
      BY <2>9, <2>10, <3>1
  <2> QED
    BY <2>11, <2>12
<1> QED
  BY <1>8, <1>9, <1>10, <1>11 DEF IInv

-----------------------------------------------------------------------------
(* No timers, no clients.                                                  *)
LEMMA InitHolds ==
  ASSUME Init
  PROVE  IInv
<1>1. /\ st = NoTimers(Order) /\ walk = Idle /\ phase = "poll" /\ drift = 0
      /\ user = [c \in Client |-> "none"] /\ ptimer = [c \in Client |-> NoTimer]
      /\ rtimer = ptimer /\ ttimer = ptimer /\ real = [s \in Slot |-> 0] /\ astray = FALSE
  BY DEF Init
<1>2. st.list = <<>> /\ st = [list |-> <<>>, free |-> Order, at |-> [s \in Slot |-> Blank]]
  BY <1>1 DEF NoTimers
<1>3. Range(st.list) = {}
  BY <1>2 DEF Range
<1>4. Stored(st)
  <2>1. Order \in Seq(Slot) /\ IsInjective(Order) /\ Range(Order) = Slot
    BY EventLoopAssumption DEF EventLoopAssumption
  <2> DEFINE A == [s \in Slot |-> Blank]
             L == <<>>
  <2>2. A \in [Slot -> Timer]
    BY DEF Timer, Blank
  <2>3. L \in Seq(Slot) /\ IsInjective(L) /\ Range(L) \cap Range(Order) = {}
        /\ Range(L) \cup Range(Order) = Slot
    BY <2>1 DEF IsInjective, Range
  <2>4. st = [list |-> L, free |-> Order, at |-> A]
    BY <1>2
  <2> HIDE DEF A, L
  <2> QED
    BY <2>1, <2>2, <2>3, <2>4, StoreMade, Zenon
<1>5. Typed
  <2>1. astray \in BOOLEAN
    BY <1>1, Zenon
  <2> QED
    BY <1>1, <1>4, <2>1 DEF Typed, Pointer
<1>6. \A c \in Client : Has(c)
  BY <1>1 DEF Has, Its
<1> QED
  BY <1>1, <1>3, <1>5, <1>6 DEF IInv, Remembers, InWalk, OwnTimers, NoneEarly

(* Every step keeps the invariant.                                         *)
LEMMA StepHolds ==
  ASSUME IInv, [Next]_vars
  PROVE  IInv'
<1>1. CASE Wait
  BY <1>1, PollKeeps DEF Wait
<1>2. CASE RunStep
  BY <1>2, RunStepKeeps
<1>3. CASE RunDone
  BY <1>3, RunDoneKeeps
<1>4. CASE Drift
  BY <1>4, DriftKeeps
<1>5. CASE Collect
  BY <1>5, CollectKeeps
<1>6. CASE Quiet
  BY <1>6, QuietKeeps
<1>7. CASE \E c \in Client : Accept(c) \/ Register(c) \/ Throttle(c) \/ Quit(c) \/ LineExit(c)
  BY <1>7, AcceptKeeps, RegisterKeeps, ThrottleKeeps, QuitKeeps, LineExitKeeps
<1>8. CASE UNCHANGED vars
  <2>1. UNCHANGED <<st, walk, phase, drift, user, ptimer, rtimer, ttimer, real, forward, astray>>
    BY <1>8 DEF vars, pointers, history
  <2>2. Typed' /\ Remembers'
    BY <2>1 DEF IInv, Typed, Remembers, InWalk, OnList, OffList, Listed, NextBehind, InFront
  <2>3. OwnTimers' /\ NoneEarly'
    BY <2>1 DEF IInv, OwnTimers, Has, Its, InFront, Listed, NoneEarly
  <2> QED
    BY <2>2, <2>3 DEF IInv
<1>9. CASE RunLine
  BY <1>9, RunLineKeeps
<1>10. CASE LineDone
  BY <1>10, LineDoneKeeps
<1>11. CASE Crash
  BY <1>11, CrashKeeps
<1> QED
  BY <1>1, <1>2, <1>3, <1>4, <1>5, <1>6, <1>7, <1>8, <1>9, <1>10, <1>11 DEF Next

(* The invariant is what PointersAgree says, and more.                     *)
LEMMA InvImplies ==
  ASSUME IInv
  PROVE  PointersAgree
<1>1. Typed /\ OwnTimers /\ Remembers /\ Stored(st)
  BY DEF IInv, Typed
<1>2. \A x : Listed(st, x) => x \in Slot
  BY <1>1, StoreFacts DEF Listed
<1>3. walk.cur \in Slot \cup {NoTimer} /\ walk.next \in Slot \cup {NoTimer}
  BY <1>1 DEF Remembers, Idle
<1>9. IF astray THEN phase \in {"line", "run", "crashed"} ELSE phase # "crashed" /\ WalkListed
  <2>1. CASE InWalk /\ ~astray /\ walk.cur # NoTimer
    <3>1. Listed(st, walk.cur) /\ (walk.next # NoTimer => Listed(st, walk.next))
      BY <2>1, AtFacts DEF Listed
    <3> QED
      BY <2>1, <3>1 DEF WalkListed, InWalk
  <2>2. CASE InWalk /\ ~astray /\ walk.cur = NoTimer
    BY <1>1, <2>2 DEF Remembers, InWalk, OnList, WalkListed
  <2>3. CASE ~InWalk
    BY <1>1, <2>3 DEF Remembers, InWalk, OnList, WalkListed, Idle
  <2>4. CASE InWalk /\ astray
    BY <2>4 DEF InWalk
  <2> QED
    BY <2>1, <2>2, <2>3, <2>4
<1>4. TypeOK
  BY <1>1, <1>3 DEF TypeOK, Typed, Stored
<1>5. \A c \in Client : Has(c)
  BY <1>1 DEF OwnTimers
<1>6. \A c \in Client : \A s \in {ptimer[c], rtimer[c], ttimer[c]} \ {NoTimer} :
        Listed(st, s) /\ st.at[s].arg = c /\ st.at[s].refs = 1
  BY <1>5 DEF Has, Its
<1>7. \A s \in Range(st.list) : st.at[s].refs > 0 =>
        s \in {ptimer[st.at[s].arg], rtimer[st.at[s].arg], ttimer[st.at[s].arg]} \ {NoTimer}
  BY <1>1 DEF OwnTimers, Its
<1>8. \A c \in Client : (ptimer[c] = NoTimer) = (user[c] = "none")
  BY <1>5 DEF Has
<1> QED
  BY <1>4, <1>6, <1>7, <1>8, <1>9 DEF PointersAgree

(* PointersAgree: a client points to its own running timers, no other      *)
(* timer would be called for a client that is gone, and timer_run goes to  *)
(* no block that was freed but in one case: a line that the throttle had   *)
(* run made the client leave whose ping timer was next.  Then the server   *)
(* does not leave that timer_run.                                          *)
THEOREM PointersAlwaysAgree == Spec => []PointersAgree
<1>1. Init => IInv
  BY InitHolds
<1>2. IInv /\ [Next]_vars => IInv'
  BY StepHolds
<1>3. IInv => PointersAgree
  BY InvImplies
<1> QED
  BY <1>1, <1>2, <1>3, PTL DEF Spec

(* A timer is called in a step when it is due and somebody waits for it.   *)
LEMMA CalledWhenDue ==
  ASSUME IInv, [Next]_vars
  PROVE  [\A s \in Slot : last' = s /\ ~forward => real[s] <= 0]_vars
<1>0. SUFFICES ASSUME ~UNCHANGED vars, NEW s \in Slot, last' = s, ~forward
               PROVE  real[s] <= 0
  OBVIOUS
<1>1. s # NoTimer
  BY NoTimerAssumption DEF NoTimerAssumption
<1>2. RunStep \/ RunLine
  BY <1>0, <1>1 DEF Next, Wait, Poll, RunDone, LineExit, LineDone, Crash, Drift, Collect, Quiet,
                   Accept, Register, Throttle, Quit, Handler
<1>3. s = walk.cur /\ st.at[s].refs # 0 /\ Due(st, s) /\ s \in Range(st.list)
  <2>1. CASE RunStep
    <3>1. InWalk /\ ~astray /\ walk.cur # NoTimer
      BY <2>1, RunStepFacts DEF InWalk
    <3>2. s = walk.cur /\ st.at[s].refs > 0 /\ Due(st, s)
      BY <1>0, <1>1, <2>1, RunStepFacts
    <3> QED
      BY <3>1, <3>2, AtFacts
  <2>2. CASE RunLine
    BY <1>0, <2>2 DEF RunLine, Calling, Listed
  <2> QED
    BY <1>2, <2>1, <2>2
<1>5. s \in Range(st.list)
  BY <1>3
<1>6. st.at[s].refs \in {0, 1} /\ st.at[s].left \in Int /\ real[s] \in Int
  BY StoreFacts DEF IInv, Typed
<1>7. real[s] <= st.at[s].left
  BY <1>0, <1>3, <1>5, <1>6 DEF IInv, NoneEarly
<1>8. st.at[s].left <= 0
  BY <1>3 DEF Due
<1> QED
  BY <1>6, <1>7, <1>8

(* NeverEarly: while the clock is not set forward, timer_run calls nothing *)
(* before its time, however late poll is and however the clock is set back.*)
THEOREM NoTimerIsEarly == Spec => NeverEarly
<1>1. Init => IInv
  BY InitHolds
<1>2. IInv /\ [Next]_vars => IInv'
  BY StepHolds
<1>3. IInv /\ [Next]_vars => [\A s \in Slot : last' = s /\ ~forward => real[s] <= 0]_vars
  BY CalledWhenDue
<1> QED
  BY <1>1, <1>2, <1>3, PTL DEF Spec, NeverEarly

-----------------------------------------------------------------------------
(***************************************************************************)
(* How late a timer can be.  F is how late timers may be found by the next *)
(* timer_run, L by how much deadlines have been moved too far; settings of *)
(* the clock pay for both.                                                 *)
(***************************************************************************)

\* Poll is late by TIMER_MAX_DRIFT at most, or timer_drift would take a late
\* poll for a clock that was set; and by no more than any interval, as
\* timer_run calls a timer once on its way.
Punctual == MaxLate <= MaxDrift /\ \A i \in Periods : MaxLate <= i

Pos(x) == IF x > 0 THEN x ELSE 0

\* timer_run is still to come by.
Ahead(s) == InWalk /\ walk.cur # NoTimer /\ (s = walk.cur \/ InFront(st, walk.cur, s))

\* timer_drift will move the deadlines.
Beyond == drift < -MaxDrift \/ drift > MaxDrift

\* One setting of the clock is good for so much.
PerSetting == PingFreq + MaxLate + MaxDrift

\* A timer timer_run has been at is due again an interval later.
DueBy(F, L, s) ==
  /\ st.at[s].every >= MaxLate
  /\ st.at[s].left >= -F - drift
  /\ real[s] >= st.at[s].left - L
  /\ (InWalk \/ phase = "drift") /\ ~Ahead(s) =>
       st.at[s].left >= 0 \/ st.at[s].left >= st.at[s].every - F - drift

Served(F, L) == \A s \in Range(st.list) : st.at[s].refs > 0 => DueBy(F, L, s)

Spent(F, L) ==
  /\ InWalk \/ phase = "drift" \/ L >= 0
  /\ IF Beyond THEN F + Pos(L + drift) <= steps * PerSetting
     ELSE F + Pos(L) + Pos(drift - MaxLate) <= steps * PerSetting

Timely == steps \in Nat /\ \E F \in Nat, L \in Int : Served(F, L) /\ Spent(F, L)

\* A server that is as good as lost calls nothing in time.
LateInv == astray \/ Timely

\* The numbers of a step.
LEMMA LateTypes ==
  ASSUME IInv
  PROVE  /\ drift \in Int
         /\ \A x \in Range(st.list) : /\ x \in Slot /\ st.at[x].left \in Int /\ st.at[x].every \in Int
                                      /\ real[x] \in Int /\ st.at[x].refs \in {0, 1}
  BY StoreFacts DEF IInv, Typed

LEMMA Bounds ==
  /\ PingFreq \in Nat /\ MaxLate \in Nat /\ MaxDrift \in Nat /\ PerSetting \in Nat
  /\ \A i \in Periods : i \in Nat
  BY EventLoopAssumption DEF EventLoopAssumption, PerSetting, Periods

(* Each setting of the clock adds as much as the last.                     *)
LEMMA OneMore ==
  ASSUME NEW n \in Nat, NEW b \in Nat
  PROVE  (n + 1) * b = n * b + b /\ n * b \in Nat
  OBVIOUS

(* Handlers start timers, due after their interval.                        *)
LEMMA LateHandler ==
  ASSUME Punctual, IInv, IInv', Timely, Handler, Begun
  PROVE  Timely'
<1>1. /\ phase = "io" /\ phase' = "collect" /\ drift = 0 /\ drift' = 0 /\ steps' = steps
  BY HandlerFacts DEF Handler
<1>2. PICK F \in Nat, L \in Int : Served(F, L) /\ Spent(F, L)
  BY DEF Timely
<1>3. L >= 0
  BY <1>1, <1>2 DEF Spent, InWalk
<1>4. Spent(F, L)'
  BY <1>1, <1>2 DEF Spent, Beyond, InWalk
<1>5. Served(F, L)'
  <2> SUFFICES ASSUME NEW x \in Range(st'.list), st'.at[x].refs > 0 PROVE DueBy(F, L, x)'
    BY DEF Served
  <2>1. CASE x \in Range(st.list) /\ st'.at[x] = st.at[x] /\ real'[x] = real[x]
    <3>1. DueBy(F, L, x)
      BY <1>2, <2>1 DEF Served
    <3> QED
      BY <1>1, <2>1, <3>1 DEF DueBy, InWalk
  <2>2. CASE /\ st'.at[x].every \in Periods /\ st'.at[x].left = st'.at[x].every
             /\ real'[x] = st'.at[x].every
    <3> DEFINE e == st'.at[x].every
    <3>1. e \in Nat /\ e >= MaxLate /\ st'.at[x].left = e /\ real'[x] = e
      BY <2>2, Bounds DEF Punctual
    <3> HIDE DEF e
    <3>2. e >= -F - 0 /\ e >= e - L
      BY <1>3, <3>1
    <3> QED
      BY <1>1, <3>1, <3>2 DEF DueBy, InWalk, e
  <2> QED
    BY <2>1, <2>2 DEF Begun
<1> QED
  BY <1>1, <1>4, <1>5 DEF Timely

(* A timer the walk is done with was called or was not due.                *)
LEMMA LateRun ==
  ASSUME IInv, IInv', Timely, InWalk, ~astray, walk.cur # NoTimer, walk' = Onward(st', walk),
         phase' = "run", drift' = drift, steps' = steps, Walked
  PROVE  Timely'
<1>1. /\ InWalk /\ InWalk' /\ phase' = "run" /\ drift' = drift /\ steps' = steps
      /\ walk.cur # NoTimer /\ walk'.cur = walk.next
  BY DEF Onward, InWalk
<1>2. PICK F \in Nat, L \in Int : Served(F, L) /\ Spent(F, L)
  BY DEF Timely
<1>3. Spent(F, L)'
  BY <1>1, <1>2 DEF Spent, Beyond
<1>4. NextBehind(st, walk.cur, walk.next)
  BY AtFacts
<1>5. Served(F, L)'
  <2> SUFFICES ASSUME NEW x \in Range(st'.list), st'.at[x].refs > 0 PROVE DueBy(F, L, x)'
    BY DEF Served
  <2>1. /\ x \in Range(st.list) /\ st.at[x].refs > 0 /\ st'.at[x].every = st.at[x].every
        /\ \/ /\ x = walk.cur
              /\ st'.at[x].left = st.at[x].left + st.at[x].every
              /\ real'[x] = real[x] + st.at[x].every
           \/ /\ x = walk.cur => st.at[x].left > 0
              /\ st'.at[x].left = st.at[x].left /\ real'[x] = real[x]
    BY DEF Walked
  <2>2. DueBy(F, L, x)
    BY <1>2, <2>1 DEF Served
  <2>3. ASSUME ~Ahead(x)', x # walk.cur PROVE ~Ahead(x)
    <3> SUFFICES ASSUME InFront(st, walk.cur, x) PROVE FALSE
      BY <2>3 DEF Ahead
    <3>1. walk.next # NoTimer /\ (x = walk.next \/ InFront(st, walk.next, x))
      BY <1>4 DEF NextBehind
    <3>2. x = walk.next \/ InFront(st', walk.next, x)
      BY <3>1 DEF Walked
    <3> QED
      BY <1>1, <2>3, <3>1, <3>2 DEF Ahead
  <2> DEFINE l == st.at[x].left
             e == st.at[x].every
             t0 == real[x]
  <2>4. /\ l \in Int /\ e \in Int /\ t0 \in Int /\ drift \in Int /\ MaxLate \in Nat
        /\ e >= MaxLate /\ l >= -F - drift /\ t0 >= l - L
        /\ ~Ahead(x) => l >= 0 \/ l >= e - F - drift
    BY <1>1, <2>1, <2>2, LateTypes, Bounds DEF DueBy
  <2>5. CASE st'.at[x].left = l + e /\ real'[x] = t0 + e
    <3> HIDE DEF l, e, t0
    <3>1. l + e >= -F - drift /\ t0 + e >= (l + e) - L /\ l + e >= e - F - drift
      BY <2>4
    <3> QED
      BY <1>1, <2>1, <2>4, <2>5, <3>1 DEF DueBy, e
  <2>6. CASE st'.at[x].left = l /\ real'[x] = t0 /\ (x = walk.cur => l > 0)
    <3>1. ~Ahead(x)' => l >= 0 \/ l >= e - F - drift
      <4>1. CASE x = walk.cur
        <5> HIDE DEF l
        <5> QED
          BY <2>4, <2>6, <4>1
      <4>2. CASE x # walk.cur
        BY <2>3, <2>4, <4>2
      <4> QED
        BY <4>1, <4>2
    <3> HIDE DEF l, e, t0
    <3> QED
      BY <1>1, <2>1, <2>4, <2>6, <3>1 DEF DueBy, e
  <2> QED
    BY <2>1, <2>5, <2>6
<1> QED
  BY <1>1, <1>3, <1>5 DEF Timely

(* A line makes clients leave, and timers with them.                       *)
LEMMA LateLine ==
  ASSUME IInv, IInv', Timely, InWalk, phase' = "line", UNCHANGED <<walk, drift, steps>>, Thinned
  PROVE  Timely'
<1>1. InWalk'
  BY DEF InWalk
<1>2. PICK F \in Nat, L \in Int : Served(F, L) /\ Spent(F, L)
  BY DEF Timely
<1>3. Spent(F, L)'
  BY <1>1, <1>2 DEF Spent, Beyond
<1>4. Served(F, L)'
  <2> SUFFICES ASSUME NEW x \in Range(st'.list), st'.at[x].refs > 0 PROVE DueBy(F, L, x)'
    BY DEF Served
  <2>1. /\ x \in Range(st.list) /\ st'.at[x] = st.at[x] /\ real'[x] = real[x]
        /\ InFront(st, walk.cur, x) => InFront(st', walk.cur, x)
    BY DEF Thinned
  <2>2. DueBy(F, L, x)
    BY <1>2, <2>1 DEF Served
  <2>3. Ahead(x) => Ahead(x)'
    BY <1>1, <2>1 DEF Ahead
  <2> QED
    BY <1>1, <2>1, <2>2, <2>3 DEF DueBy
<1> QED
  BY <1>3, <1>4 DEF Timely

(* The end of the walk: it has been at all of them.                        *)
LEMMA LateRunDone ==
  ASSUME Timely, RunDone
  PROVE  Timely'
<1>1. /\ phase = "run" /\ walk.cur = NoTimer /\ phase' = "drift"
      /\ UNCHANGED <<st, drift, real, steps>>
  BY DEF RunDone
<1>2. PICK F \in Nat, L \in Int : Served(F, L) /\ Spent(F, L)
  BY DEF Timely
<1>3. \A x : ~Ahead(x)
  BY <1>1 DEF Ahead, InWalk
<1>4. Served(F, L)'
  BY <1>1, <1>2, <1>3 DEF Served, DueBy, InWalk
<1>5. Spent(F, L)'
  BY <1>1, <1>2 DEF Spent, Beyond, InWalk
<1> QED
  BY <1>1, <1>4, <1>5 DEF Timely

(* timer_collect takes none that waits.                                    *)
LEMMA LateCollect ==
  ASSUME IInv, Timely, Collect
  PROVE  Timely'
<1>1. /\ phase = "collect" /\ phase' = "poll" /\ st' = CollectTimers(st)
      /\ UNCHANGED <<drift, real, steps>>
  BY DEF Collect
<1>2. PICK F \in Nat, L \in Int : Served(F, L) /\ Spent(F, L)
  BY DEF Timely
<1>3. \A x \in Range(st'.list) : x \in Range(st.list) /\ st'.at[x] = st.at[x]
  <2>1. Stored(st)
    BY DEF IInv, Typed
  <2> QED
    BY <1>1, <2>1, CollectFacts DEF Kept
<1>4. Served(F, L)'
  BY <1>1, <1>2, <1>3 DEF Served, DueBy, InWalk
<1>5. Spent(F, L)'
  BY <1>1, <1>2 DEF Spent, Beyond, InWalk
<1> QED
  BY <1>1, <1>4, <1>5 DEF Timely

(* timer_drift puts back deadlines, or what poll was late by stays.        *)
LEMMA LateDrift ==
  ASSUME Punctual, IInv, Timely, Drift
  PROVE  Timely'
<1>1. /\ phase = "drift" /\ phase' = "io" /\ drift' = 0
      /\ st' = IF Beyond THEN Shift(st, drift) ELSE st
      /\ UNCHANGED <<real, steps>>
  BY DEF Drift, Beyond
<1>2. PICK F \in Nat, L \in Int : Served(F, L) /\ Spent(F, L)
  BY DEF Timely
<1>3. drift \in Int /\ Stored(st)
  BY DEF IInv, Typed
<1>4. MaxLate \in Nat /\ MaxDrift \in Nat /\ MaxLate <= MaxDrift
  BY Bounds DEF Punctual
<1>5. ~Beyond' /\ ~(InWalk' \/ phase' = "drift") /\ ~InWalk
  BY <1>1, <1>4 DEF Beyond, InWalk
<1>6. \A x : ~Ahead(x)
  BY <1>5 DEF Ahead
<1>7. CASE Beyond
  <2>1. /\ Retimed(st, st')
        /\ \A y \in Range(st.list) : st'.at[y].left = st.at[y].left - (-drift)
    <3>1. st' = Pass(st, -drift) /\ -drift \in Int
      BY <1>1, <1>3, <1>7 DEF Shift
    <3> QED
      BY <1>3, <3>1, PassFacts
  <2>2. PICK L2 \in Nat : L2 = Pos(L + drift) /\ L2 >= L + drift
    BY <1>3 DEF Pos
  <2>3. Spent(F, L2)'
    <3>1. F + Pos(L + drift) <= steps * PerSetting
      BY <1>2, <1>7 DEF Spent
    <3>2. Pos(L2) = L2 /\ Pos(0 - MaxLate) = 0
      BY <1>4, <2>2 DEF Pos
    <3>3. F + Pos(L2) + Pos(0 - MaxLate) = F + Pos(L + drift)
      BY <2>2, <3>2
    <3>4. F + Pos(L2) + Pos(0 - MaxLate) <= steps * PerSetting
      BY <3>1, <3>3
    <3> QED
      BY <1>1, <1>5, <2>2, <3>4 DEF Spent
  <2>4. Served(F, L2)'
    <3> SUFFICES ASSUME NEW x \in Range(st'.list), st'.at[x].refs > 0 PROVE DueBy(F, L2, x)'
      BY DEF Served
    <3>1. /\ x \in Range(st.list) /\ st.at[x].refs > 0 /\ st'.at[x].every = st.at[x].every
          /\ st'.at[x].left = st.at[x].left - (-drift)
      BY <2>1 DEF Retimed
    <3>2. DueBy(F, L, x)
      BY <1>2, <3>1 DEF Served
    <3> DEFINE l == st.at[x].left
               t0 == real[x]
    <3>3. l \in Int /\ t0 \in Int /\ l >= -F - drift /\ t0 >= l - L /\ st.at[x].every >= MaxLate
      BY <3>1, <3>2, LateTypes DEF DueBy
    <3>4. st'.at[x].left = l - (-drift)
      BY <3>1
    <3> HIDE DEF l
    <3>5. l - (-drift) >= -F - 0 /\ t0 >= (l - (-drift)) - L2
      BY <1>3, <2>2, <3>3
    <3> QED
      BY <1>1, <1>5, <3>1, <3>3, <3>4, <3>5 DEF DueBy
  <2> QED
    BY <1>1, <2>2, <2>3, <2>4 DEF Timely
<1>8. CASE ~Beyond
  <2>1. PICK F2 \in Nat, L2 \in Nat :
          /\ F2 = F + Pos(drift - MaxLate) /\ L2 = Pos(L)
          /\ L2 >= L /\ F2 >= F /\ F2 >= F + drift - MaxLate
    <3>1. /\ F + Pos(drift - MaxLate) \in Nat /\ Pos(L) \in Nat /\ Pos(L) >= L
          /\ F + Pos(drift - MaxLate) >= F /\ F + Pos(drift - MaxLate) >= F + drift - MaxLate
      BY <1>3, <1>4 DEF Pos
    <3> QED
      BY <3>1
  <2>2. Spent(F2, L2)'
    <3>1. F + Pos(L) + Pos(drift - MaxLate) <= steps * PerSetting
      BY <1>2, <1>8 DEF Spent
    <3>2. F2 + Pos(L2) + Pos(0 - MaxLate) = F + Pos(L) + Pos(drift - MaxLate)
      BY <1>3, <1>4, <2>1 DEF Pos
    <3>3. F2 + Pos(L2) + Pos(0 - MaxLate) <= steps * PerSetting
      BY <3>1, <3>2
    <3> QED
      BY <1>1, <1>5, <2>1, <3>3 DEF Spent
  <2>3. Served(F2, L2)'
    <3> SUFFICES ASSUME NEW x \in Range(st'.list), st'.at[x].refs > 0 PROVE DueBy(F2, L2, x)'
      BY DEF Served
    <3>1. st' = st /\ real' = real
      BY <1>1, <1>8
    <3>2. DueBy(F, L, x) /\ ~Ahead(x)
      BY <1>2, <1>6, <3>1 DEF Served
    <3> DEFINE l == st.at[x].left
               e == st.at[x].every
               t0 == real[x]
    <3>3. /\ l \in Int /\ e \in Int /\ t0 \in Int /\ e >= MaxLate /\ t0 >= l - L
          /\ l >= 0 \/ l >= e - F - drift
      BY <1>1, <3>1, <3>2, LateTypes DEF DueBy
    <3>4. st'.at[x].left = l /\ st'.at[x].every = e /\ real'[x] = t0
      BY <3>1
    <3> HIDE DEF l, e, t0
    <3>5. l >= -F2 - 0 /\ t0 >= l - L2
      BY <1>3, <1>4, <2>1, <3>3
    <3> QED
      BY <1>1, <1>5, <3>3, <3>4, <3>5 DEF DueBy
  <2> QED
    BY <1>1, <2>1, <2>2, <2>3 DEF Timely
<1> QED
  BY <1>7, <1>8

(* What a poll takes from what is left of a deadline.                      *)
LEMMA PollLate ==
  ASSUME NEW r \in Nat, NEW j \in Int, NEW w \in Nat, NEW waited \in Int,
         waited = IF w = 0 \/ r + j > w THEN w ELSE Within(r + j, 0, w),
         NEW F \in Nat, NEW L \in Nat,
         NEW left \in Int, NEW time \in Int, left >= -F, time >= left - L, w <= left \/ w = 0
  PROVE  /\ left - (r + j) >= -F - ((r + j) - waited)
         /\ time - r >= (left - (r + j)) - (L - j)
         /\ ~(w = 0 \/ r + j > w) => left - (r + j) >= 0
  BY DEF Within

(* Time passes, and the clock may be set.                                  *)
LEMMA LatePoll ==
  ASSUME Punctual, IInv, Timely, NEW r \in 0 .. PingFreq + MaxLate, NEW j \in ClockSteps \cup {0},
         Poll(r, j)
  PROVE  Timely'
<1> DEFINE s0 == CollectTimers(st)
           w == TimeoutOf(s0)
           e == r + j
           over == w = 0 \/ e > w
           waited == IF over THEN w ELSE Within(e, 0, w)
<1>1. /\ phase = "poll" /\ st' = Pass(s0, e)
      /\ real' = [x \in Slot |-> IF Listed(s0, x) THEN real[x] - r ELSE 0]
      /\ drift' = (IF w < 0 THEN 0 ELSE e - waited)
      /\ phase' = (IF over THEN "run" ELSE "drift")
      /\ walk' = (IF over THEN Begin(st') ELSE Idle)
      /\ steps' = (IF j = 0 THEN steps ELSE steps + 1)
      /\ w >= 0 => r <= w + MaxLate
  BY DEF Poll
<1>2. Stored(st) /\ drift = 0
  BY <1>1 DEF IInv, Typed
<1>3. r \in Nat /\ r <= PingFreq + MaxLate /\ j \in Int /\ e \in Int
  BY Bounds, EventLoopAssumption DEF EventLoopAssumption
<1>4. PingFreq \in Nat /\ MaxLate \in Nat /\ MaxDrift \in Nat /\ MaxLate <= MaxDrift
  BY Bounds DEF Punctual
<1>5. PICK F \in Nat, L \in Int : Served(F, L) /\ Spent(F, L)
  BY DEF Timely
<1> DEFINE Q == steps * PerSetting
           Q2 == steps' * PerSetting
<1>6. L \in Nat /\ F + L <= Q
  <2>1. L >= 0 /\ ~Beyond
    BY <1>1, <1>2, <1>4, <1>5 DEF Spent, Beyond, InWalk
  <2>2. F + Pos(L) + Pos(0 - MaxLate) <= Q
    BY <1>2, <1>5, <2>1 DEF Spent
  <2>3. Pos(L) = L /\ Pos(0 - MaxLate) = 0
    BY <1>4, <2>1 DEF Pos
  <2> HIDE DEF Q
  <2> QED
    BY <2>1, <2>2, <2>3
<1>7. /\ steps \in Nat /\ steps' \in Nat /\ Q \in Nat
      /\ Q2 = IF j = 0 THEN Q ELSE Q + (PingFreq + MaxLate + MaxDrift)
  <2>1. steps \in Nat /\ PerSetting \in Nat
    BY Bounds DEF Timely
  <2>2. (steps + 1) * PerSetting = steps * PerSetting + PerSetting /\ steps * PerSetting \in Nat
    BY <2>1, OneMore
  <2> QED
    BY <1>1, <2>1, <2>2 DEF PerSetting
<1>8. /\ Stored(s0)
      /\ \A x \in Range(s0.list) : x \in Range(st.list) /\ st.at[x].refs # 0 /\ s0.at[x] = st.at[x]
  BY <1>2, CollectFacts DEF Kept
<1>9. /\ w \in Int
      /\ s0.list # <<>> => w >= 0
      /\ \A x \in Range(s0.list) : w <= s0.at[x].left \/ w = 0
  BY <1>8, TimeoutFacts
<1> HIDE DEF s0, w, Q, Q2
<1>10. /\ Stored(st') /\ Retimed(s0, st')
       /\ \A y \in Range(s0.list) : st'.at[y].left = s0.at[y].left - e
  BY <1>1, <1>3, <1>8, PassFacts
<1>11. InWalk' \/ phase' = "drift"
  BY <1>1 DEF InWalk
<1>12. CASE w < 0
  <2>1. Range(st'.list) = {}
    BY <1>9, <1>10, <1>12 DEF Retimed, Range
  <2>2. Served(F, L)'
    BY <2>1 DEF Served
  <2>3. drift' = 0 /\ ~Beyond'
    BY <1>1, <1>4, <1>12 DEF Beyond
  <2>4. F + Pos(L) + Pos(0 - MaxLate) <= Q2
    BY <1>4, <1>6, <1>7 DEF Pos
  <2>5. Spent(F, L)'
    BY <1>11, <2>3, <2>4 DEF Spent, Q2
  <2> QED
    BY <1>7, <2>2, <2>5 DEF Timely
<1>13. CASE ~(w < 0)
  <2>1. w \in Nat /\ r <= w + MaxLate
    BY <1>1, <1>9, <1>13
  <2>2. waited \in Int /\ waited = IF w = 0 \/ r + j > w THEN w ELSE Within(r + j, 0, w)
    BY <1>3, <2>1 DEF Within
  <2>3. over = (w = 0 \/ r + j > w)
    OBVIOUS
  <2> HIDE DEF waited, over
  <2> DEFINE L2 == L - j
             d == (r + j) - waited
  <2>4. drift' = d /\ d \in Int /\ L2 \in Int
    BY <1>1, <1>3, <1>6, <1>13, <2>2
  <2>5. Spent(F, L2)'
    <3>1. IF d < -MaxDrift \/ d > MaxDrift THEN F + Pos(L2 + d) <= Q2
          ELSE F + Pos(L2) + Pos(d - MaxLate) <= Q2
      <4> HIDE DEF d
      <4>1. d = (r + j) - waited
        BY DEF d
      <4>2. IF d < -MaxDrift \/ d > MaxDrift
            THEN F + Pos((L - j) + d) <= IF j = 0 THEN Q ELSE Q + (PingFreq + MaxLate + MaxDrift)
            ELSE F + Pos(L - j) + Pos(d - MaxLate) <=
                   IF j = 0 THEN Q ELSE Q + (PingFreq + MaxLate + MaxDrift)
        <5>1. /\ r \in Nat /\ j \in Int /\ w \in Nat /\ waited \in Int /\ d \in Int /\ Q \in Nat
              /\ r <= PingFreq + MaxLate /\ r <= w + MaxLate /\ L \in Nat /\ F + L <= Q
          BY <1>3, <1>6, <1>7, <2>1, <2>2, <2>4
        <5> QED
          BY <1>4, <2>2, <4>1, <5>1 DEF Within, Pos
      <4> QED
        BY <1>7, <4>2
    <3> HIDE DEF d, L2
    <3> QED
      BY <1>11, <2>4, <3>1 DEF Spent, Beyond, Q2
  <2>6. Served(F, L2)'
    <3> SUFFICES ASSUME NEW x \in Range(st'.list), st'.at[x].refs > 0 PROVE DueBy(F, L2, x)'
      BY DEF Served
    <3>1. /\ x \in Range(s0.list) /\ x \in Range(st.list) /\ s0.at[x] = st.at[x]
          /\ st.at[x].refs > 0 /\ st'.at[x].every = st.at[x].every
          /\ st'.at[x].left = st.at[x].left - e
      BY <1>8, <1>10 DEF Retimed
    <3>2. DueBy(F, L, x)
      BY <1>5, <3>1 DEF Served
    <3> DEFINE l == st.at[x].left
               t0 == real[x]
    <3>3. /\ l \in Int /\ t0 \in Int /\ l >= -F - 0 /\ t0 >= l - L /\ st.at[x].every >= MaxLate
          /\ x \in Slot /\ (w <= l \/ w = 0)
      BY <1>2, <1>9, <3>1, <3>2, LateTypes DEF DueBy
    <3>4. real'[x] = t0 - r /\ st'.at[x].left = l - (r + j)
      BY <1>1, <3>1, <3>3 DEF Listed
    <3> HIDE DEF l, t0
    <3>5. /\ l - (r + j) >= -F - ((r + j) - waited)
          /\ t0 - r >= (l - (r + j)) - (L - j)
          /\ ~(w = 0 \/ r + j > w) => l - (r + j) >= 0
      <4>1. l >= -F
        BY <3>3
      <4> QED
        BY <1>3, <1>6, <2>1, <2>2, <3>3, <4>1, PollLate, ZenonT(60)
    <3>6. over => Ahead(x)'
      <4> SUFFICES ASSUME over PROVE Ahead(x)'
        OBVIOUS
      <4> DEFINE M == st'.list
                 h == Head(M)
      <4>1. M \in Seq(Slot) /\ M # <<>> /\ DOMAIN M = 1 .. Len(M) /\ Len(M) \in Nat
        BY <1>10, StoreFacts DEF Range
      <4>2. phase' = "run" /\ walk'.cur = h
        BY <1>1, <4>1 DEF Begin
      <4>3. 1 \in DOMAIN M /\ h = M[1] /\ h \in Slot
        BY <4>1
      <4>4. h # NoTimer
        BY <4>3, NoTimerAssumption DEF NoTimerAssumption
      <4>5. PICK i \in DOMAIN M : M[i] = x
        BY DEF Range
      <4>6. CASE i = 1
        BY <4>2, <4>3, <4>4, <4>5, <4>6 DEF Ahead, InWalk
      <4>7. CASE i # 1
        <5>1. 1 < i
          BY <4>1, <4>5, <4>7
        <5>2. InFront(st', h, x)
          BY <4>3, <4>5, <5>1 DEF InFront
        <5> QED
          BY <4>2, <4>4, <5>2 DEF Ahead, InWalk
      <4> QED
        BY <4>6, <4>7
    <3>7. ~Ahead(x)' => l - (r + j) >= 0
      BY <2>3, <3>5, <3>6
    <3> QED
      BY <2>4, <3>1, <3>3, <3>4, <3>5, <3>7 DEF DueBy
  <2> QED
    BY <1>7, <2>4, <2>5, <2>6 DEF Timely
<1> QED
  BY <1>12, <1>13

(* Every step keeps it.                                                    *)
LEMMA LateStep ==
  ASSUME Punctual, IInv, LateInv, [Next]_vars
  PROVE  LateInv'
<1>0. IInv'
  BY StepHolds
<1>a. CASE astray
  <2>1. astray \in BOOLEAN /\ (InWalk \/ phase = "crashed")
    BY <1>a DEF IInv, Typed, Remembers
  <2>2. astray'
    <3>1. CASE UNCHANGED vars
      BY <1>a, <3>1, ZenonT(60) DEF vars, history
    <3>2. CASE LineDone \/ RunStep \/ RunLine \/ RunDone \/ Crash
      BY <1>a, <3>2 DEF LineDone, RunStep, RunLine, RunDone, Crash
    <3>3. CASE \E c \in Client : LineExit(c)
      BY <1>a, <3>3 DEF LineExit
    <3>4. CASE Wait \/ Drift \/ Collect \/ Quiet
               \/ \E c \in Client : Accept(c) \/ Register(c) \/ Throttle(c) \/ Quit(c)
      BY <2>1, <3>4 DEF InWalk, Wait, Poll, Drift, Collect, Quiet, Accept, Register, Throttle,
                        Quit, Handler
    <3> QED
      BY <3>1, <3>2, <3>3, <3>4 DEF Next
  <2> QED
    BY <2>2 DEF LateInv
<1>b. CASE ~astray
  <2>0. Timely
    BY <1>b DEF LateInv
  <2>1. CASE Wait
    BY <2>0, <2>1, LatePoll DEF Wait, LateInv
  <2>2. CASE RunStep
    <3>1. /\ InWalk /\ walk.cur # NoTimer /\ walk' = Onward(st', walk)
          /\ phase' = "run" /\ drift' = drift /\ steps' = steps
      BY <2>2, RunStepFacts DEF InWalk
    <3> QED
      BY <1>0, <1>b, <2>0, <2>2, <3>1, LateRun, RunStepKeeps DEF LateInv
  <2>3. CASE LineDone
    <3>1. /\ InWalk /\ walk' = Onward(st', walk)
          /\ phase' = "run" /\ drift' = drift /\ steps' = steps
      BY <2>3 DEF LineDone, InWalk
    <3>2. walk.cur # NoTimer
      BY <2>3 DEF LineDone, IInv, Remembers, InWalk
    <3> QED
      BY <1>0, <1>b, <2>0, <2>3, <3>1, <3>2, LateRun, LineDoneKeeps DEF LateInv
  <2>4. CASE RunLine
    <3>1. InWalk /\ phase' = "line" /\ UNCHANGED <<st, real, walk, drift, steps>>
      BY <2>4 DEF RunLine, Calling, At, InWalk
    <3>2. Thinned
      BY <3>1 DEF Thinned
    <3> QED
      BY <1>0, <2>0, <3>1, <3>2, LateLine DEF LateInv
  <2>5. ASSUME NEW c \in Client, LineExit(c) PROVE LateInv'
    <3>1. InWalk /\ phase' = "line" /\ UNCHANGED <<walk, drift, steps>>
      BY <2>5 DEF LineExit, InWalk
    <3> QED
      BY <1>0, <2>0, <2>5, <3>1, LateLine, LineExitKeeps DEF LateInv
  <2>6. CASE Crash
    BY <1>b, <2>6, CrashKeeps
  <2>7. CASE RunDone
    BY <2>0, <2>7, LateRunDone DEF LateInv
  <2>8. CASE Drift
    BY <2>0, <2>8, LateDrift DEF LateInv
  <2>9. CASE Collect
    BY <2>0, <2>9, LateCollect DEF LateInv
  <2>10. CASE Quiet
    BY <1>0, <2>0, <2>10, LateHandler, QuietKeeps DEF Quiet, LateInv
  <2>11. ASSUME NEW c \in Client, Accept(c) \/ Register(c) \/ Throttle(c) \/ Quit(c)
         PROVE  LateInv'
    <3>1. Handler
      BY <2>11 DEF Accept, Register, Throttle, Quit
    <3>2. Begun
      BY <2>11, AcceptKeeps, RegisterKeeps, ThrottleKeeps, QuitKeeps
    <3> QED
      BY <1>0, <2>0, <3>1, <3>2, LateHandler DEF LateInv
  <2>12. CASE UNCHANGED vars
    <3>1. UNCHANGED <<st, walk, phase, drift, real, steps>>
      BY <2>12 DEF vars, history
    <3> QED
      BY <2>0, <3>1 DEF LateInv, Timely, Served, DueBy, Ahead, Spent, Beyond, InWalk
  <2> QED
    BY <2>1, <2>2, <2>3, <2>4, <2>5, <2>6, <2>7, <2>8, <2>9, <2>10, <2>11, <2>12 DEF Next
<1> QED
  BY <1>a, <1>b

LEMMA LateInit ==
  ASSUME Init
  PROVE  LateInv
<1>1. st = NoTimers(Order) /\ phase = "poll" /\ drift = 0 /\ steps = 0
  BY DEF Init
<1>2. Range(st.list) = {}
  BY <1>1 DEF NoTimers, Range
<1>3. Served(0, 0)
  BY <1>2 DEF Served
<1>4. Spent(0, 0)
  <2>1. MaxLate \in Nat /\ MaxDrift \in Nat /\ 0 * PerSetting = 0
    BY Bounds
  <2>2. ~Beyond /\ Pos(0) = 0 /\ Pos(0 - MaxLate) = 0
    BY <1>1, <2>1 DEF Beyond, Pos
  <2> QED
    BY <1>1, <2>1, <2>2 DEF Spent
<1> QED
  BY <1>1, <1>3, <1>4 DEF LateInv, Timely

LEMMA LateImplies ==
  ASSUME IInv, LateInv
  PROVE  CalledInTime
<1> SUFFICES ASSUME phase \in {"io", "poll"}, NEW x \in Range(st.list), st.at[x].refs > 0
             PROVE  real[x] >= -(steps * (PingFreq + MaxLate + MaxDrift))
  BY DEF CalledInTime
<1>0. Timely /\ ~InWalk
  BY DEF LateInv, IInv, Remembers, InWalk
<1>1. PICK F \in Nat, L \in Int : Served(F, L) /\ Spent(F, L)
  BY <1>0 DEF Timely
<1>2. drift = 0 /\ MaxLate \in Nat /\ MaxDrift \in Nat
  BY Bounds DEF IInv, Typed
<1>3. drift = 0 /\ ~Beyond /\ L >= 0
  BY <1>0, <1>1, <1>2 DEF Spent, Beyond
<1> DEFINE Q == steps * PerSetting
<1>4. Q \in Nat /\ Q = steps * (PingFreq + MaxLate + MaxDrift)
  BY <1>0, OneMore, Bounds DEF Timely, PerSetting
<1>5. F + Pos(L) + Pos(0 - MaxLate) <= Q
  BY <1>1, <1>3 DEF Spent
<1> HIDE DEF Q
<1>6. F + L <= Q
  BY <1>2, <1>3, <1>4, <1>5 DEF Pos
<1> DEFINE l == st.at[x].left
           t0 == real[x]
<1>7. l \in Int /\ t0 \in Int /\ l >= -F - 0 /\ t0 >= l - L
  BY <1>1, <1>3, LateTypes DEF Served, DueBy
<1> HIDE DEF l, t0
<1>8. t0 >= -Q
  BY <1>3, <1>4, <1>6, <1>7
<1> QED
  BY <1>4, <1>8 DEF t0

(* CalledInTime: whatever is due is called by the next timer_run, however  *)
(* the list changes under the walk and however often the clock is set,     *)
(* when poll is late by no more than timer_drift allows and an interval.   *)
THEOREM TimersAlwaysInTime == Punctual => (Spec => []CalledInTime)
<1> SUFFICES ASSUME Punctual PROVE Spec => []CalledInTime
  OBVIOUS
<1>1. Init => IInv /\ LateInv
  BY InitHolds, LateInit
<1>2. IInv /\ LateInv /\ [Next]_vars => IInv' /\ LateInv'
  BY StepHolds, LateStep
<1>3. IInv /\ LateInv => CalledInTime
  BY LateImplies
<1> QED
  BY <1>1, <1>2, <1>3, PTL DEF Spec

-----------------------------------------------------------------------------
(***************************************************************************)
(* io_pfds and io_list agree, for any number of descriptors.               *)
(*                                                                         *)
(* Every handler is a composition of a few operations of io.c on the whole *)
(* table, a record, so the invariant is one on such a record, Fits, with a *)
(* lemma for each operation.  Fits says nothing of a live descriptor that  *)
(* is not in io_pfds, because io_handle takes one out before it calls the  *)
(* handler that destroys it; between two steps all are in it (Full).       *)
(* TableAgrees only looks from io_list to io_pfds; that an entry moves     *)
(* down with the descriptor it names needs the way back too (Linked).      *)
(***************************************************************************)

EventSet   == SUBSET {"r", "w"}
PfdEntry   == [fd : Fd, events : EventSet]
Tables     ==
  [pfds : Seq(PfdEntry), type : [Fd -> {"none", "conn", "listen"}], index : [Fd -> Nat],
   events : [Fd -> EventSet], revents : [Fd -> EventSet], queued : SUBSET Fd]

Live(u) == {f \in Fd : u.type[f] # "none"}

\* What is in io_pfds is where io_list says.
Linked(u) ==
  /\ \A f \in Fd : u.index[f] # 0 =>
       u.index[f] \in DOMAIN u.pfds /\ u.pfds[u.index[f]] = [fd |-> f, events |-> u.events[f]]
  /\ \A j \in DOMAIN u.pfds : u.index[u.pfds[j].fd] = j

\* What is not live is not in io_pfds; what is live may be, or may not.
Fits(u) ==
  /\ u \in Tables /\ Linked(u)
  /\ \A f \in Fd : u.type[f] = "none" => u.index[f] = 0
  /\ \A f \in Fd : u.type[f] = "listen" => f = Listener

\* What has a send queue waits to be written.
Queues(u) == u.queued \subseteq Conns(u) /\ \A f \in u.queued : "w" \in u.events[f]

\* All that are live are in it, and are read from.
Full(u) ==
  /\ u.type[Listener] = "listen"
  /\ \A f \in Live(u) : u.index[f] # 0 /\ "r" \in u.events[f]

Phases == {"poll", "timers", "handle"}
Inputs == {"none", "line", "eof"}
PollInv ==
  /\ Fits(t) /\ Queues(t) /\ Full(t)
  /\ stage \in Phases /\ pos \in 1 .. MaxFd + 1 /\ input \in [Fd -> Inputs]
  /\ again \in SUBSET Fd

-----------------------------------------------------------------------------
(* A set of numbers has a smallest, which is what Min chooses: the lowest  *)
(* free descriptor.                                                        *)
LEMMA MinIn ==
  ASSUME NEW S \in SUBSET Nat, S # {}
  PROVE  Min(S) \in S
  BY LeastIn DEF Min

-----------------------------------------------------------------------------
(* Operations on the table.                                                *)

(* What a table holds.                                                     *)
LEMMA TableFields ==
  ASSUME NEW u \in Tables
  PROVE  /\ u.pfds \in Seq(PfdEntry) /\ u.type \in [Fd -> {"none", "conn", "listen"}]
         /\ u.index \in [Fd -> Nat] /\ u.events \in [Fd -> EventSet]
         /\ u.revents \in [Fd -> EventSet] /\ u.queued \in SUBSET Fd
         /\ DOMAIN u.pfds = 1 .. Len(u.pfds) /\ Len(u.pfds) \in Nat
         /\ \A j \in DOMAIN u.pfds : u.pfds[j].fd \in Fd /\ u.pfds[j].events \in EventSet
<1>1. /\ u.pfds \in Seq(PfdEntry) /\ u.type \in [Fd -> {"none", "conn", "listen"}]
      /\ u.index \in [Fd -> Nat] /\ u.events \in [Fd -> EventSet]
      /\ u.revents \in [Fd -> EventSet] /\ u.queued \in SUBSET Fd
  BY DEF Tables
<1>2. /\ DOMAIN u.pfds = 1 .. Len(u.pfds) /\ Len(u.pfds) \in Nat
      /\ \A j \in DOMAIN u.pfds : u.pfds[j] \in PfdEntry
  BY <1>1
<1>3. \A b \in PfdEntry : b.fd \in Fd /\ b.events \in EventSet
  BY DEF PfdEntry
<1> QED
  BY <1>1, <1>2, <1>3

(* The entry of a descriptor.                                              *)
LEMMA LinkedEntry ==
  ASSUME NEW u, Linked(u), NEW f \in Fd, u.index[f] # 0
  PROVE  /\ u.index[f] \in DOMAIN u.pfds
         /\ u.pfds[u.index[f]].fd = f /\ u.pfds[u.index[f]].events = u.events[f]
<1>1. /\ u.index[f] \in DOMAIN u.pfds
      /\ u.pfds[u.index[f]] = [fd |-> f, events |-> u.events[f]]
  BY DEF Linked
<1> QED
  BY <1>1

(* No two descriptors have the same.                                       *)
LEMMA LinkedOnce ==
  ASSUME NEW u, Linked(u), NEW f \in Fd, NEW g \in Fd, u.index[f] # 0, u.index[f] = u.index[g]
  PROVE  f = g
<1>1. u.pfds[u.index[f]].fd = f /\ u.pfds[u.index[g]].fd = g
  BY LinkedEntry
<1> QED
  BY <1>1

(* io_remove_fd: what follows moves down, and its index with it.           *)
LEMMA RemoveFdFits ==
  ASSUME NEW u, Fits(u), NEW f \in Fd
  PROVE  LET w == RemoveFd(u, f)
         IN  /\ Fits(w)
             /\ \A g \in Fd : w.index[g] = 0 <=> (u.index[g] = 0 \/ g = f)
             /\ w.type = u.type /\ w.events = u.events /\ w.revents = u.revents
             /\ w.queued = u.queued
<1> DEFINE w == RemoveFd(u, f)
           n == u.index[f]
           moved == {u.pfds[j].fd : j \in u.index[f] + 1 .. Len(u.pfds)}
           p == RemoveAt(u.pfds, n)
           x == [g \in Fd |-> IF g = f THEN 0
                              ELSE IF g \in moved THEN u.index[g] - 1 ELSE u.index[g]]
<1>0. u \in Tables /\ Linked(u)
  BY DEF Fits
<1>1. CASE n \notin DOMAIN u.pfds
  <2>1. w = u
    BY <1>1 DEF RemoveFd
  <2>2. u.index[f] = 0
    BY <1>0, <1>1 DEF Linked
  <2> QED
    BY <2>1, <2>2
<1>2. CASE n \in DOMAIN u.pfds
  <2>1. w = [u EXCEPT !.pfds = p, !.index = x]
    BY <1>2 DEF RemoveFd
  <2>2. n \in 1 .. Len(u.pfds) /\ u.pfds \in Seq(PfdEntry)
    BY <1>0, <1>2, TableFields
  <2>3. /\ p \in Seq(PfdEntry) /\ Len(p) = Len(u.pfds) - 1
        /\ \A j \in 1 .. Len(u.pfds) - 1 : p[j] = IF j < n THEN u.pfds[j] ELSE u.pfds[j + 1]
    <3> HIDE DEF n
    <3> QED
      BY <2>2, RemoveAtFacts, Zenon
  <2>4. \A g \in Fd : g \in moved <=> u.index[g] > n
    <3>1. ASSUME NEW g \in Fd, g \in moved PROVE u.index[g] > n
      <4>1. PICK j \in n + 1 .. Len(u.pfds) : u.pfds[j].fd = g
        BY <3>1
      <4>2. j \in DOMAIN u.pfds
        BY <1>0, <2>2, <4>1, TableFields
      <4>3. u.index[g] = j
        BY <1>0, <4>1, <4>2 DEF Linked
      <4> QED
        BY <2>2, <4>1, <4>3
    <3>2. ASSUME NEW g \in Fd, u.index[g] > n PROVE g \in moved
      <4>1. u.index[g] \in Nat /\ n \in Nat
        BY <1>0, TableFields
      <4>2. u.index[g] \in DOMAIN u.pfds /\ u.pfds[u.index[g]].fd = g
        <5>1. u.index[g] # 0
          BY <3>2, <4>1
        <5> QED
          BY <1>0, <5>1, LinkedEntry
      <4>3. u.index[g] \in n + 1 .. Len(u.pfds)
        BY <1>0, <3>2, <4>1, <4>2, TableFields
      <4> QED
        BY <4>2, <4>3
    <3> QED
      BY <3>1, <3>2
  <2> HIDE DEF p, moved
  <2>5. /\ x \in [Fd -> Nat]
        /\ \A g \in Fd : x[g] = IF g = f THEN 0 ELSE IF u.index[g] > n THEN u.index[g] - 1
                                ELSE u.index[g]
    BY <1>0, <2>2, <2>4, TableFields
  <2> HIDE DEF w, x
  <2>6. /\ w \in Tables /\ w.pfds = p /\ w.index = x /\ w.type = u.type
        /\ w.events = u.events /\ w.revents = u.revents /\ w.queued = u.queued
    BY <1>0, <2>1, <2>3, <2>5 DEF Tables
  <2>7. \A g \in Fd : u.index[g] = n => g = f
    <3> SUFFICES ASSUME NEW g \in Fd, u.index[g] = n PROVE g = f
      OBVIOUS
    <3>1. n # 0
      BY <2>2
    <3> QED
      BY <1>0, <3>1, LinkedOnce
  <2>8. \A g \in Fd : u.index[g] # 0 => u.index[g] \in 1 .. Len(u.pfds)
    BY <1>0, TableFields DEF Linked
  <2>9. ASSUME NEW g \in Fd, x[g] # 0
        PROVE  x[g] \in DOMAIN p /\ p[x[g]] = [fd |-> g, events |-> u.events[g]]
    <3>1. /\ g # f /\ u.index[g] # 0 /\ u.index[g] # n /\ u.index[g] \in 1 .. Len(u.pfds)
          /\ u.pfds[u.index[g]] = [fd |-> g, events |-> u.events[g]]
      <4>1. g # f /\ u.index[g] # 0
        BY <2>2, <2>5, <2>9
      <4> QED
        BY <1>0, <2>7, <2>8, <4>1, SMTT(40) DEF Linked
    <3>2. CASE u.index[g] < n
      BY <2>2, <2>3, <2>5, <3>1, <3>2, SMTT(40)
    <3>3. CASE u.index[g] > n
      <4>1. x[g] = u.index[g] - 1 /\ x[g] \in 1 .. Len(u.pfds) - 1 /\ ~(x[g] < n) /\ x[g] + 1 = u.index[g]
        BY <2>2, <2>5, <3>1, <3>3
      <4> QED
        BY <2>3, <3>1, <4>1, SMTT(40)
    <3> QED
      BY <2>2, <3>1, <3>2, <3>3
  <2>10. ASSUME NEW j \in DOMAIN p
         PROVE  x[p[j].fd] = j
    <3>1. j \in 1 .. Len(u.pfds) - 1
      BY <2>3
    <3>2. CASE j < n
      <4>1. j \in DOMAIN u.pfds /\ p[j] = u.pfds[j]
        BY <1>0, <2>3, <3>1, <3>2, TableFields
      <4>2. u.index[u.pfds[j].fd] = j /\ u.pfds[j].fd \in Fd
        BY <1>0, <4>1, TableFields DEF Linked
      <4>3. j # 0 /\ ~(j > n) /\ j # n
        BY <2>2, <3>1, <3>2
      <4> QED
        BY <2>5, <4>1, <4>2, <4>3
    <3>3. CASE ~(j < n)
      <4>1. j + 1 \in DOMAIN u.pfds /\ p[j] = u.pfds[j + 1]
        BY <1>0, <2>3, <3>1, <3>3, TableFields
      <4>2. u.index[u.pfds[j + 1].fd] = j + 1 /\ u.pfds[j + 1].fd \in Fd
        BY <1>0, <4>1, TableFields DEF Linked
      <4>3. j + 1 > n /\ (j + 1) - 1 = j /\ j + 1 # n
        BY <2>2, <3>1, <3>3
      <4> QED
        BY <2>5, <4>1, <4>2, <4>3
    <3> QED
      BY <3>2, <3>3
  <2>11. \A g \in Fd : x[g] = 0 <=> (u.index[g] = 0 \/ g = f)
    <3> SUFFICES ASSUME NEW g \in Fd PROVE x[g] = 0 <=> (u.index[g] = 0 \/ g = f)
      OBVIOUS
    <3>1. u.index[g] \in Nat /\ n \in Nat /\ n >= 1
      BY <1>0, <2>2, TableFields
    <3> QED
      BY <2>5, <3>1
  <2>12. Fits(w)
    BY <2>6, <2>9, <2>10, <2>11 DEF Fits, Linked
  <2> QED
    BY <2>6, <2>11, <2>12 DEF w
<1> QED
  BY <1>1, <1>2

\* The same table, with other events.
WithEvents(u, w, v) ==
  /\ Fits(w) /\ w.type = u.type /\ w.index = u.index /\ w.queued = u.queued
  /\ w.events = v

(* io_set_events, for a set of descriptors.                                *)
LEMMA SetEventsFits ==
  ASSUME NEW u, Fits(u), NEW fs \in SUBSET Fd, NEW e \in EventSet
  PROVE  WithEvents(u, SetEvents(u, fs, e),
                    [g \in Fd |-> IF g \in fs THEN u.events[g] \cup e ELSE u.events[g]])
<1> DEFINE w == SetEvents(u, fs, e)
           v == [g \in Fd |-> IF g \in fs THEN u.events[g] \cup e ELSE u.events[g]]
           p == [j \in DOMAIN u.pfds |->
                   IF \E g \in fs : u.index[g] = j
                   THEN [u.pfds[j] EXCEPT !.events = u.pfds[j].events \cup e]
                   ELSE u.pfds[j]]
<1>0. u \in Tables /\ Linked(u)
  BY DEF Fits
<1>1. w = [u EXCEPT !.events = v, !.pfds = p]
  BY DEF SetEvents
<1>2. v \in [Fd -> EventSet]
  <2>1. \A g \in Fd : u.events[g] \in EventSet /\ u.events[g] \cup e \in EventSet
    BY <1>0, TableFields DEF EventSet
  <2> QED
    BY <2>1
<1>3. \A b \in PfdEntry : [b EXCEPT !.events = b.events \cup e] \in PfdEntry
  BY DEF PfdEntry, EventSet
<1>4. p \in Seq(PfdEntry) /\ DOMAIN p = DOMAIN u.pfds
  <2>1. \A j \in DOMAIN u.pfds : p[j] \in PfdEntry
    BY <1>0, <1>3, TableFields DEF Tables
  <2>2. p \in [1 .. Len(u.pfds) -> PfdEntry]
    BY <1>0, <2>1, TableFields
  <2>3. Len(u.pfds) \in Nat /\ DOMAIN u.pfds = 1 .. Len(u.pfds)
    BY <1>0, TableFields
  <2> HIDE DEF p
  <2>4. p \in Seq(PfdEntry)
    BY <2>2, <2>3, SeqDef
  <2> QED
    BY <2>2, <2>3, <2>4
<1>5. \A j \in DOMAIN u.pfds : p[j].fd = u.pfds[j].fd
  BY <1>0, TableFields DEF Tables, PfdEntry
<1>6. ASSUME NEW g \in Fd, u.index[g] # 0
      PROVE  u.index[g] \in DOMAIN p /\ p[u.index[g]] = [fd |-> g, events |-> v[g]]
  <2>1. u.index[g] \in DOMAIN u.pfds /\ u.pfds[u.index[g]] = [fd |-> g, events |-> u.events[g]]
    BY <1>0, <1>6 DEF Linked
  <2>2. (\E h \in fs : u.index[h] = u.index[g]) <=> g \in fs
    BY <1>0, <1>6, LinkedOnce
  <2>3. v[g] = IF g \in fs THEN u.events[g] \cup e ELSE u.events[g]
    OBVIOUS
  <2>4. p[u.index[g]] = IF g \in fs THEN [u.pfds[u.index[g]] EXCEPT !.events = u.pfds[u.index[g]].events \cup e]
                        ELSE u.pfds[u.index[g]]
    BY <2>1, <2>2
  <2>5. \A d, x, y : [[fd |-> d, events |-> x] EXCEPT !.events = y] = [fd |-> d, events |-> y]
    OBVIOUS
  <2>6. u.pfds[u.index[g]].events = u.events[g]
    BY <2>1
  <2>7. u.index[g] \in DOMAIN p
    BY <2>1
  <2> HIDE DEF v, p
  <2>8. p[u.index[g]] = [fd |-> g, events |-> v[g]]
    <3>1. CASE g \in fs
      <4>1. p[u.index[g]] = [[fd |-> g, events |-> u.events[g]] EXCEPT !.events = v[g]]
        BY <2>1, <2>3, <2>4, <2>6, <3>1, Zenon
      <4> QED
        BY <2>5, <4>1, Zenon
    <3>2. CASE g \notin fs
      BY <2>1, <2>3, <2>4, <3>2, Zenon
    <3> QED
      BY <3>1, <3>2
  <2> QED
    BY <2>7, <2>8
<1> HIDE DEF w, v, p
<1>7. /\ w \in Tables /\ w.pfds = p /\ w.events = v /\ w.index = u.index /\ w.type = u.type
      /\ w.revents = u.revents /\ w.queued = u.queued
  BY <1>0, <1>1, <1>2, <1>4 DEF Tables
<1>8. Linked(w)
  BY <1>0, <1>4, <1>5, <1>6, <1>7 DEF Linked
<1>9. Fits(w)
  BY <1>7, <1>8 DEF Fits
<1> QED
  BY <1>7, <1>9 DEF w, v, WithEvents

(* io_unset_events.                                                        *)
LEMMA UnsetEventsFits ==
  ASSUME NEW u, Fits(u), NEW f \in Fd, NEW e \in EventSet
  PROVE  WithEvents(u, UnsetEvents(u, f, e), [u.events EXCEPT ![f] = u.events[f] \ e])
<1> DEFINE w == UnsetEvents(u, f, e)
           v == [u.events EXCEPT ![f] = u.events[f] \ e]
           p == [j \in DOMAIN u.pfds |->
                   IF u.index[f] = j
                   THEN [u.pfds[j] EXCEPT !.events = u.pfds[j].events \ e]
                   ELSE u.pfds[j]]
<1>0. u \in Tables /\ Linked(u) /\ u.events \in [Fd -> EventSet]
  BY TableFields DEF Fits
<1>1. w = [u EXCEPT !.events = v, !.pfds = p]
  BY <1>0 DEF UnsetEvents, Tables
<1>2. /\ v \in [Fd -> EventSet]
      /\ \A g \in Fd : v[g] = IF g = f THEN u.events[g] \ e ELSE u.events[g]
  <2>1. u.events[f] \ e \in EventSet
    BY <1>0 DEF EventSet
  <2> QED
    BY <1>0, <2>1
<1>3. \A b \in PfdEntry : [b EXCEPT !.events = b.events \ e] \in PfdEntry
  BY DEF PfdEntry, EventSet
<1>4. p \in Seq(PfdEntry) /\ DOMAIN p = DOMAIN u.pfds
  <2>1. \A j \in DOMAIN u.pfds : p[j] \in PfdEntry
    BY <1>0, <1>3, TableFields DEF Tables
  <2>2. p \in [1 .. Len(u.pfds) -> PfdEntry]
    BY <1>0, <2>1, TableFields
  <2>3. Len(u.pfds) \in Nat /\ DOMAIN u.pfds = 1 .. Len(u.pfds)
    BY <1>0, TableFields
  <2> HIDE DEF p
  <2>4. p \in Seq(PfdEntry)
    BY <2>2, <2>3, SeqDef
  <2> QED
    BY <2>2, <2>3, <2>4
<1>5. \A j \in DOMAIN u.pfds : p[j].fd = u.pfds[j].fd
  BY <1>0, TableFields DEF Tables, PfdEntry
<1>6. ASSUME NEW g \in Fd, u.index[g] # 0
      PROVE  u.index[g] \in DOMAIN p /\ p[u.index[g]] = [fd |-> g, events |-> v[g]]
  <2>1. u.index[g] \in DOMAIN u.pfds /\ u.pfds[u.index[g]] = [fd |-> g, events |-> u.events[g]]
    BY <1>0, <1>6 DEF Linked
  <2>2. u.index[f] = u.index[g] <=> g = f
    BY <1>0, <1>6, LinkedOnce
  <2>3. v[g] = IF g = f THEN u.events[g] \ e ELSE u.events[g]
    BY <1>2
  <2>4. p[u.index[g]] = IF g = f THEN [u.pfds[u.index[g]] EXCEPT !.events = u.pfds[u.index[g]].events \ e]
                        ELSE u.pfds[u.index[g]]
    BY <2>1, <2>2
  <2>5. \A d, x, y : [[fd |-> d, events |-> x] EXCEPT !.events = y] = [fd |-> d, events |-> y]
    OBVIOUS
  <2>6. u.pfds[u.index[g]].events = u.events[g]
    BY <2>1
  <2>7. u.index[g] \in DOMAIN p
    BY <2>1
  <2> HIDE DEF v, p
  <2>8. p[u.index[g]] = [fd |-> g, events |-> v[g]]
    <3>1. CASE g = f
      <4>1. p[u.index[g]] = [[fd |-> g, events |-> u.events[g]] EXCEPT !.events = v[g]]
        BY <2>1, <2>3, <2>4, <2>6, <3>1, Zenon
      <4> QED
        BY <2>5, <4>1, Zenon
    <3>2. CASE g # f
      BY <2>1, <2>3, <2>4, <3>2, Zenon
    <3> QED
      BY <3>1, <3>2
  <2> QED
    BY <2>7, <2>8
<1> HIDE DEF w, v, p
<1>7. /\ w \in Tables /\ w.pfds = p /\ w.events = v /\ w.index = u.index /\ w.type = u.type
      /\ w.revents = u.revents /\ w.queued = u.queued
  BY <1>0, <1>1, <1>2, <1>4 DEF Tables
<1>8. Linked(w)
  BY <1>0, <1>4, <1>5, <1>6, <1>7 DEF Linked
<1>9. Fits(w)
  BY <1>2, <1>7, <1>8 DEF Fits
<1> QED
  BY <1>7, <1>9 DEF w, v, WithEvents

\* What an operation that only sends and polls leaves alone.
Holds(u, w) ==
  /\ Fits(w) /\ Queues(w) /\ w.type = u.type /\ w.index = u.index
  /\ \A g \in Fd : "r" \in u.events[g] => "r" \in w.events[g]

(* io_write: what has a send queue waits to be written.                    *)
LEMMA WriteStays ==
  ASSUME NEW u, Fits(u), Queues(u), NEW fs \in SUBSET Conns(u)
  PROVE  Holds(u, Write(u, fs))
<1> DEFINE v == [u EXCEPT !.queued = u.queued \cup fs]
           e == {"w"}
           w == SetEvents(v, fs, e)
<1>0. fs \in SUBSET Fd /\ e \in EventSet /\ "w" \in e /\ u \in Tables /\ u.queued \in SUBSET Fd
  BY TableFields DEF Conns, EventSet, Fits
<1>1. /\ v \in Tables /\ v.queued = u.queued \cup fs /\ v.type = u.type /\ v.index = u.index
      /\ v.events = u.events /\ v.pfds = u.pfds
  BY <1>0 DEF Tables
<1>2. Write(u, fs) = w
  BY DEF Write
<1> HIDE DEF v, e
<1>3. Fits(v)
  BY <1>1 DEF Fits, Linked
<1> DEFINE x == [g \in Fd |-> IF g \in fs THEN v.events[g] \cup e ELSE v.events[g]]
<1>a. WithEvents(v, w, x)
  <2>1. Fits(v) /\ fs \in SUBSET Fd /\ e \in EventSet
    BY <1>0, <1>3
  <2> QED
    BY <2>1, SetEventsFits, Zenon
<1>4. /\ Fits(w) /\ w.type = v.type /\ w.index = v.index /\ w.queued = v.queued
      /\ \A g \in Fd : w.events[g] = IF g \in fs THEN v.events[g] \cup e ELSE v.events[g]
  BY <1>a DEF WithEvents
<1> HIDE DEF w
<1>5. Queues(w)
  BY <1>0, <1>1, <1>4, ZenonT(60) DEF Queues, Conns
<1> QED
  BY <1>1, <1>2, <1>4, <1>5 DEF Holds

(* io_queued_write that gets rid of everything.                            *)
LEMMA FlushStays ==
  ASSUME NEW u, Fits(u), Queues(u), NEW f \in Fd
  PROVE  Holds(u, Flush(u, f))
<1> DEFINE v == [u EXCEPT !.queued = u.queued \ {f}]
           e == {"w"}
           w == UnsetEvents(v, f, e)
<1>0. e \in EventSet /\ ~("r" \in e) /\ u \in Tables /\ u.queued \in SUBSET Fd
  BY TableFields DEF EventSet, Fits
<1>1. /\ v \in Tables /\ v.queued = u.queued \ {f} /\ v.type = u.type /\ v.index = u.index
      /\ v.events = u.events /\ v.pfds = u.pfds
  BY <1>0 DEF Tables
<1>2. Flush(u, f) = w
  BY DEF Flush
<1> HIDE DEF v, e
<1>3. Fits(v)
  BY <1>1 DEF Fits, Linked
<1> DEFINE x == [v.events EXCEPT ![f] = v.events[f] \ e]
<1>a. WithEvents(v, w, x)
  BY <1>0, <1>3, UnsetEventsFits, Zenon
<1>b. v.events \in [Fd -> EventSet]
  BY <1>1, TableFields
<1>4. /\ Fits(w) /\ w.type = v.type /\ w.index = v.index /\ w.queued = v.queued
      /\ \A g \in Fd : w.events[g] = IF g = f THEN v.events[g] \ e ELSE v.events[g]
  BY <1>a, <1>b DEF WithEvents
<1> HIDE DEF w
<1>5. Queues(w)
  BY <1>0, <1>1, <1>4 DEF Queues, Conns
<1> QED
  BY <1>0, <1>1, <1>2, <1>4, <1>5 DEF Holds

(* io_new: the descriptor was free, so it is in io_pfds once.              *)
LEMMA NewIoFits ==
  ASSUME NEW u, Fits(u), Queues(u), NEW f \in Fd, u.type[f] = "none", NEW type \in {"conn", "listen"},
         type = "listen" => f = Listener
  PROVE  LET w == NewIo(u, f, type)
         IN  /\ Fits(w) /\ Queues(w) /\ w.index[f] # 0
             /\ \A g \in Fd \ {f} : w.index[g] = u.index[g] /\ w.events[g] = u.events[g]
             /\ w.type = [u.type EXCEPT ![f] = type]
<1> DEFINE w == NewIo(u, f, type)
           n == Len(u.pfds)
           b == [fd |-> f, events |-> {}]
           p == Append(u.pfds, b)
           x == [u.index EXCEPT ![f] = n + 1]
           y == [u.type EXCEPT ![f] = type]
           e == [u.events EXCEPT ![f] = {}]
           r == [u.revents EXCEPT ![f] = {}]
           q == u.queued \ {f}
<1>0. /\ u \in Tables /\ Linked(u) /\ u.index[f] = 0 /\ n \in Nat /\ u.pfds \in Seq(PfdEntry)
      /\ DOMAIN u.pfds = 1 .. n
  BY TableFields DEF Fits
<1>1. /\ x \in [Fd -> Nat] /\ y \in [Fd -> {"none", "conn", "listen"}]
      /\ e \in [Fd -> EventSet] /\ r \in [Fd -> EventSet] /\ q \in SUBSET Fd /\ b \in PfdEntry
  BY <1>0, TableFields DEF EventSet, PfdEntry
<1>2. /\ p \in Seq(PfdEntry) /\ DOMAIN p = 1 .. n + 1 /\ p[n + 1] = b
      /\ \A j \in 1 .. n : p[j] = u.pfds[j]
  <2> HIDE DEF b
  <2> QED
    BY <1>0, <1>1
<1>3. /\ x[f] = n + 1 /\ e[f] = {} /\ y[f] = type
      /\ \A g \in Fd \ {f} : x[g] = u.index[g] /\ e[g] = u.events[g] /\ y[g] = u.type[g]
  BY <1>0, TableFields
<1>4. w = [u EXCEPT !.pfds = p, !.index = x, !.type = y, !.events = e, !.revents = r, !.queued = q]
  BY <1>0 DEF NewIo, Tables
<1> HIDE DEF w, p, x, y, e, r, q
<1>5. /\ w \in Tables /\ w.pfds = p /\ w.index = x /\ w.type = y /\ w.events = e /\ w.queued = q
  BY <1>0, <1>1, <1>2, <1>4 DEF Tables
<1>6. ASSUME NEW g \in Fd, x[g] # 0
      PROVE  x[g] \in DOMAIN p /\ p[x[g]] = [fd |-> g, events |-> e[g]]
  <2>1. CASE g = f
    <3>1. x[f] \in DOMAIN p
      BY <1>0, <1>2, <1>3
    <3>2. p[x[f]] = [fd |-> f, events |-> e[f]]
      BY <1>2, <1>3, Zenon
    <3> QED
      BY <2>1, <3>1, <3>2
  <2>2. CASE g # f
    BY <1>0, <1>2, <1>3, <1>6, <2>2 DEF Linked
  <2> QED
    BY <2>1, <2>2
<1>7. ASSUME NEW j \in DOMAIN p
      PROVE  x[p[j].fd] = j
  <2>1. CASE j = n + 1
    BY <1>0, <1>2, <1>3, <2>1
  <2>2. CASE j # n + 1
    <3>1. j \in 1 .. n /\ p[j] = u.pfds[j] /\ j # 0
      BY <1>0, <1>2, <2>2
    <3>2. u.index[u.pfds[j].fd] = j /\ u.pfds[j].fd \in Fd
      BY <1>0, <3>1, TableFields DEF Linked
    <3> QED
      BY <1>0, <1>3, <3>1, <3>2
  <2> QED
    BY <2>1, <2>2
<1>8. Fits(w)
  BY <1>3, <1>5, <1>6, <1>7 DEF Fits, Linked
<1>9. Queues(w)
  BY <1>3, <1>5 DEF Queues, Conns, q
<1> QED
  BY <1>0, <1>3, <1>5, <1>8, <1>9 DEF w, y

(* io_destroy, of a descriptor in io_pfds or not.                          *)
LEMMA DestroyFits ==
  ASSUME NEW u, Fits(u), Queues(u), NEW f \in Fd
  PROVE  LET w == Destroy(u, f)
         IN  /\ Fits(w) /\ Queues(w)
             /\ \A g \in Fd \ {f} : w.index[g] = 0 <=> u.index[g] = 0
             /\ \A g \in Fd \ {f} : w.events[g] = u.events[g]
             /\ w.type = [u.type EXCEPT ![f] = "none"]
<1> DEFINE w == Destroy(u, f)
           v == RemoveFd(u, f)
           x == [v.index EXCEPT ![f] = 0]
           y == [v.type EXCEPT ![f] = "none"]
           e == [v.events EXCEPT ![f] = {}]
           r == [v.revents EXCEPT ![f] = {}]
           q == v.queued \ {f}
<1>0. u \in Tables /\ u.type \in [Fd -> {"none", "conn", "listen"}]
  BY TableFields DEF Fits
<1>1. CASE u.type[f] = "none"
  <2>1. w = u
    BY <1>1 DEF Destroy
  <2> QED
    BY <1>0, <1>1, <2>1
<1>2. CASE u.type[f] # "none"
  <2>1. /\ Fits(v) /\ v.type = u.type /\ v.events = u.events /\ v.queued = u.queued
        /\ \A g \in Fd : v.index[g] = 0 <=> (u.index[g] = 0 \/ g = f)
    BY RemoveFdFits
  <2>2. w = [v EXCEPT !.type[f] = "none", !.events[f] = {}, !.revents[f] = {}, !.queued = q, !.index[f] = 0]
    BY <1>2 DEF Destroy
  <2> HIDE DEF v, q
  <2>3. v \in Tables /\ v.index[f] = 0 /\ Linked(v)
    BY <2>1 DEF Fits
  <2>4. w = [v EXCEPT !.type = y, !.events = e, !.revents = r, !.queued = q, !.index = x]
    BY <2>2, <2>3 DEF Tables
  <2>5. /\ x \in [Fd -> Nat] /\ y \in [Fd -> {"none", "conn", "listen"}]
        /\ e \in [Fd -> EventSet] /\ r \in [Fd -> EventSet] /\ q \in SUBSET Fd
    BY <2>3, TableFields DEF EventSet, q
  <2>6. /\ x = v.index /\ e[f] = {} /\ y[f] = "none"
        /\ \A g \in Fd \ {f} : e[g] = v.events[g] /\ y[g] = v.type[g]
    BY <2>3, TableFields
  <2> HIDE DEF w, x, y, e, r
  <2>7. /\ w \in Tables /\ w.pfds = v.pfds /\ w.index = x /\ w.type = y /\ w.events = e /\ w.queued = q
    BY <2>3, <2>4, <2>5 DEF Tables
  <2>8. \A j \in DOMAIN v.pfds : v.pfds[j].fd # f
    BY <2>3, TableFields DEF Linked
  <2>9. Linked(w)
    <3>1. ASSUME NEW g \in Fd, w.index[g] # 0
          PROVE  w.index[g] \in DOMAIN w.pfds /\ w.pfds[w.index[g]] = [fd |-> g, events |-> w.events[g]]
      BY <2>3, <2>6, <2>7, <3>1 DEF Linked
    <3> QED
      BY <2>3, <2>6, <2>7, <3>1 DEF Linked
  <2>10. Fits(w)
    BY <2>1, <2>3, <2>6, <2>7, <2>9 DEF Fits
  <2>11. Queues(w)
    BY <2>1, <2>6, <2>7 DEF Queues, Conns, q
  <2> QED
    BY <2>1, <2>6, <2>7, <2>10, <2>11 DEF w, y
<1> QED
  BY <1>1, <1>2

-----------------------------------------------------------------------------
(* Handlers.                                                               *)

\* What a step may do to the table.
Good(u) == Fits(u) /\ Queues(u) /\ Full(u)

(* A table that is only written to and polled stays full.                  *)
LEMMA StaysFull ==
  ASSUME NEW u, Full(u), NEW w, Holds(u, w)
  PROVE  Good(w) /\ Conns(w) = Conns(u)
  BY DEF Good, Full, Holds, Live, Conns

(* lclient_exit, of a connection that io_handle may have taken out.        *)
LEMMA ExitGood ==
  ASSUME NEW u, Fits(u), Queues(u), NEW f \in Conns(u),
         u.type[Listener] = "listen",
         \A g \in Live(u) \ {f} : u.index[g] # 0 /\ "r" \in u.events[g],
         NEW others \in SUBSET Conns(u)
  PROVE  Good(ExitOf(u, f, others))
<1> DEFINE v == Write(u, others \cup {f})
           w == Destroy(v, f)
<1>0. f \in Fd /\ others \cup {f} \in SUBSET Conns(u) /\ u.type[f] = "conn" /\ f # Listener /\ Listener \in Fd
  <2>1. f \in Fd /\ u.type[f] = "conn" /\ others \cup {f} \in SUBSET Conns(u)
    BY DEF Conns
  <2>2. f # Listener
    BY <2>1
  <2>3. Listener \in Fd
    BY MaxFdAssumption DEF MaxFdAssumption, Listener, Fd
  <2> QED
    BY <2>1, <2>2, <2>3
<1>1. Holds(u, v)
  BY <1>0, WriteStays
<1>2. ExitOf(u, f, others) = w
  BY DEF ExitOf
<1> HIDE DEF v
<1>3. Fits(v) /\ Queues(v) /\ v.type = u.type /\ v.index = u.index /\ v.type \in [Fd -> {"none", "conn", "listen"}]
  BY <1>1, TableFields DEF Holds, Fits
<1>4. /\ Fits(w) /\ Queues(w)
      /\ \A g \in Fd \ {f} : w.index[g] = 0 <=> v.index[g] = 0
      /\ \A g \in Fd \ {f} : w.events[g] = v.events[g]
      /\ w.type = [v.type EXCEPT ![f] = "none"]
  BY <1>0, <1>3, DestroyFits
<1> HIDE DEF w
<1>5. w.type[f] = "none" /\ \A g \in Fd \ {f} : w.type[g] = u.type[g]
  BY <1>0, <1>3, <1>4
<1>6. \A g \in Live(w) : w.index[g] # 0 /\ "r" \in w.events[g]
  BY <1>1, <1>3, <1>4, <1>5 DEF Live, Holds
<1> QED
  BY <1>0, <1>2, <1>4, <1>5, <1>6 DEF Good, Full

(* The same, when it is in the table.                                      *)
LEMMA ExitOfLive ==
  ASSUME NEW u, Good(u), NEW f \in Conns(u), NEW others \in SUBSET Conns(u)
  PROVE  Good(ExitOf(u, f, others))
  BY ExitGood DEF Good, Full

(* listen_accept, with a class for the client or without.                  *)
LEMMA AcceptedGood ==
  ASSUME NEW u, Good(u), FreeFd(u) # {}, NEW ok \in BOOLEAN
  PROVE  Good(Accepted(u, ok))
<1> DEFINE f == Min(FreeFd(u))
           n == NewIo(u, f, "conn")
           fs == {f}
           e == {"r"}
           v == SetEvents(n, fs, e)
<1>0. u \in Tables /\ u.type \in [Fd -> {"none", "conn", "listen"}] /\ Listener \in Fd
  BY MaxFdAssumption, TableFields DEF MaxFdAssumption, Good, Fits, Fd, Listener
<1>1. f \in FreeFd(u)
  <2>1. FreeFd(u) \in SUBSET Nat
    BY DEF FreeFd, Fd
  <2> QED
    BY <2>1, MinIn
<1>2. f \in Fd /\ u.type[f] = "none" /\ f # Listener
  BY <1>1 DEF FreeFd, Good, Full
<1>3. Accepted(u, ok) = IF ok THEN v ELSE Destroy(v, f)
  BY DEF Accepted
<1> HIDE DEF f
<1>4. /\ Fits(n) /\ Queues(n) /\ n.index[f] # 0
      /\ \A g \in Fd \ {f} : n.index[g] = u.index[g] /\ n.events[g] = u.events[g]
      /\ n.type = [u.type EXCEPT ![f] = "conn"]
  BY <1>2, NewIoFits DEF Good
<1> HIDE DEF n
<1>5. fs \in SUBSET Fd /\ e \in EventSet /\ "r" \in e /\ \A g \in Fd : g \in fs <=> g = f
  BY <1>2 DEF EventSet
<1> HIDE DEF fs, e
<1> DEFINE x == [g \in Fd |-> IF g \in fs THEN n.events[g] \cup e ELSE n.events[g]]
<1>a. WithEvents(n, v, x)
  <2>1. Fits(n) /\ fs \in SUBSET Fd /\ e \in EventSet
    BY <1>4, <1>5
  <2> QED
    BY <2>1, SetEventsFits, Zenon
<1>6. /\ Fits(v) /\ v.type = n.type /\ v.index = n.index /\ v.queued = n.queued
      /\ \A g \in Fd : v.events[g] = IF g \in fs THEN n.events[g] \cup e ELSE n.events[g]
  BY <1>a DEF WithEvents
<1> HIDE DEF v
<1>7. Queues(v)
  BY <1>4, <1>5, <1>6 DEF Queues, Conns
<1>8. /\ v.type[f] = "conn" /\ \A g \in Fd \ {f} : v.type[g] = u.type[g] /\ v.index[g] = u.index[g]
      /\ v.index[f] # 0 /\ "r" \in v.events[f] /\ \A g \in Fd \ {f} : v.events[g] = u.events[g]
  <2>1. v.type[f] = "conn" /\ \A g \in Fd \ {f} : v.type[g] = u.type[g]
    BY <1>0, <1>2, <1>4, <1>6
  <2>2. v.index[f] # 0 /\ \A g \in Fd \ {f} : v.index[g] = u.index[g]
    BY <1>4, <1>6
  <2>3. "r" \in v.events[f]
    BY <1>2, <1>5, <1>6
  <2>4. ASSUME NEW g \in Fd \ {f} PROVE v.events[g] = u.events[g]
    BY <1>4, <1>5, <1>6
  <2> QED
    BY <2>1, <2>2, <2>3, <2>4
<1>9. Full(v)
  BY <1>0, <1>2, <1>8 DEF Good, Full, Live
<1>10. CASE ok
  BY <1>3, <1>6, <1>7, <1>9, <1>10 DEF Good
<1>11. CASE ~ok
  <2> DEFINE w == Destroy(v, f)
  <2>0. v.type \in [Fd -> {"none", "conn", "listen"}]
    BY <1>6, TableFields DEF Fits
  <2>1. /\ Fits(w) /\ Queues(w)
        /\ \A g \in Fd \ {f} : w.index[g] = 0 <=> v.index[g] = 0
        /\ \A g \in Fd \ {f} : w.events[g] = v.events[g]
        /\ w.type = [v.type EXCEPT ![f] = "none"]
    BY <1>2, <1>6, <1>7, DestroyFits
  <2> HIDE DEF w
  <2>2. w.type[f] = "none" /\ \A g \in Fd \ {f} : w.type[g] = v.type[g]
    BY <1>2, <2>0, <2>1
  <2>3. Full(w)
    BY <1>0, <1>2, <1>9, <2>1, <2>2 DEF Full, Live
  <2> QED
    BY <1>3, <1>11, <2>1, <2>3 DEF Good, w
<1> QED
  BY <1>10, <1>11

(* A handler that sends to some, ends one, or both.                        *)
LEMMA ObeyedGood ==
  ASSUME NEW u, Good(u), NEW f \in Conns(u), NEW w \in Obeyed(u, f)
  PROVE  Good(w)
<1>1. w \in {Write(u, to) : to \in Audience(Conns(u))}
        \/ \E g \in Conns(u) : w \in {ExitOf(u, g, to) : to \in Audience(Conns(u) \ {g})}
  BY DEF Obeyed
<1>2. CASE w \in {Write(u, to) : to \in Audience(Conns(u))}
  <2>1. PICK to \in Audience(Conns(u)) : w = Write(u, to)
    BY <1>2
  <2>2. to \in SUBSET Conns(u)
    BY <2>1 DEF Audience
  <2>3. Holds(u, w)
    BY <2>1, <2>2, WriteStays DEF Good
  <2> QED
    BY <2>3, StaysFull DEF Good
<1>3. CASE \E g \in Conns(u) : w \in {ExitOf(u, g, to) : to \in Audience(Conns(u) \ {g})}
  <2>1. PICK g \in Conns(u) : w \in {ExitOf(u, g, to) : to \in Audience(Conns(u) \ {g})}
    BY <1>3
  <2>2. PICK to \in Audience(Conns(u) \ {g}) : w = ExitOf(u, g, to)
    BY <2>1
  <2>3. to \in SUBSET Conns(u)
    BY <2>2 DEF Audience
  <2> QED
    BY <2>1, <2>2, <2>3, ExitOfLive
<1> QED
  BY <1>1, <1>2, <1>3

(* io_handle took the connection out of io_pfds before it called the       *)
(* handler that ends it.                                                   *)
LEMMA HungUpGood ==
  ASSUME NEW u, Good(u), NEW f \in Conns(u), NEW others \in SUBSET Conns(u)
  PROVE  Good(ExitOf(RemoveFd(u, f), f, others))
<1> DEFINE v == RemoveFd(u, f)
<1>0. f \in Fd
  BY DEF Conns
<1>1. /\ Fits(v) /\ v.type = u.type /\ v.events = u.events /\ v.queued = u.queued
      /\ \A g \in Fd : v.index[g] = 0 <=> (u.index[g] = 0 \/ g = f)
  BY <1>0, RemoveFdFits DEF Good
<1> HIDE DEF v
<1>2. Queues(v) /\ Conns(v) = Conns(u) /\ v.type[Listener] = "listen"
  BY <1>1 DEF Good, Queues, Conns, Full
<1>3. \A g \in Live(v) \ {f} : v.index[g] # 0 /\ "r" \in v.events[g]
  BY <1>1 DEF Good, Full, Live
<1>4. Good(ExitOf(v, f, others))
  BY <1>1, <1>2, <1>3, ExitGood, Zenon
<1> QED
  BY <1>4 DEF v

(* The entry io_handle looks at is the listener's or a connection's.       *)
LEMMA EntryIsLive ==
  ASSUME NEW u, Good(u), NEW j \in DOMAIN u.pfds
  PROVE  u.pfds[j].fd = Listener \/ u.pfds[j].fd \in Conns(u)
<1> DEFINE f == u.pfds[j].fd
<1>1. f \in Fd /\ u.index[f] = j /\ j # 0 /\ u.type[f] \in {"none", "conn", "listen"}
  <2>1. u \in Tables /\ Linked(u)
    BY DEF Good, Fits
  <2>2. f \in Fd /\ j \in 1 .. Len(u.pfds)
    BY <2>1, TableFields
  <2> QED
    BY <2>1, <2>2, TableFields DEF Linked
<1> QED
  BY <1>1 DEF Good, Fits, Conns

(* No more entries than descriptors.                                       *)
LEMMA Short ==
  ASSUME NEW u, Fits(u)
  PROVE  Len(u.pfds) \in Nat /\ Len(u.pfds) <= MaxFd
<1> DEFINE n == Len(u.pfds)
           at == [j \in 1 .. n |-> u.pfds[j].fd]
<1>0. u \in Tables /\ Linked(u) /\ n \in Nat /\ DOMAIN u.pfds = 1 .. n
  BY TableFields DEF Fits
<1>1. \A j \in 1 .. n : u.pfds[j].fd \in Fd
  BY <1>0, TableFields
<1>2. \A i \in 1 .. n, j \in 1 .. n : u.pfds[i].fd = u.pfds[j].fd => i = j
  BY <1>0 DEF Linked
<1> HIDE DEF n
<1>3. at \in Injection(1 .. n, Fd)
  BY <1>1, <1>2 DEF Injection, IsInjective
<1>4. IsFiniteSet(Fd) /\ Cardinality(Fd) = MaxFd
  BY MaxFdAssumption, FS_Interval DEF MaxFdAssumption, Fd
<1>5. Cardinality(1 .. n) = n
  BY <1>0, FS_Interval
<1> HIDE DEF at
<1>6. Cardinality(1 .. n) <= Cardinality(Fd)
  BY <1>3, <1>4, FS_Injection, Zenon
<1> QED
  BY <1>0, <1>4, <1>5, <1>6 DEF n

(* One entry for each connection and one for the listener.                 *)
LEMMA OneEntryEach ==
  ASSUME NEW u, Good(u)
  PROVE  Len(u.pfds) = Cardinality(Conns(u)) + 1
<1> DEFINE n == Len(u.pfds)
           at == [j \in 1 .. n |-> u.pfds[j].fd]
<1>0. /\ u \in Tables /\ Linked(u) /\ n \in Nat /\ DOMAIN u.pfds = 1 .. n
      /\ Listener \in Fd /\ u.type \in [Fd -> {"none", "conn", "listen"}]
  BY MaxFdAssumption, TableFields DEF MaxFdAssumption, Listener, Fd, Good, Fits
<1>1. Live(u) = Conns(u) \cup {Listener} /\ Listener \notin Conns(u)
  BY <1>0 DEF Live, Conns, Good, Full, Fits
<1>2. \A j \in 1 .. n : u.pfds[j].fd \in Live(u)
  BY <1>0, <1>1, EntryIsLive
<1>3. \A i \in 1 .. n, j \in 1 .. n : u.pfds[i].fd = u.pfds[j].fd => i = j
  BY <1>0 DEF Linked
<1>4. \A f \in Live(u) : \E j \in 1 .. n : u.pfds[j].fd = f
  BY <1>0, LinkedEntry DEF Good, Full, Live
<1> HIDE DEF n
<1>5. at \in Bijection(1 .. n, Live(u))
  <2>1. at \in Injection(1 .. n, Live(u))
    BY <1>2, <1>3 DEF Injection, IsInjective
  <2>2. at \in Surjection(1 .. n, Live(u))
    BY <1>2, <1>4 DEF Surjection
  <2> QED
    BY <2>1, <2>2 DEF Bijection
<1>6. ExistsBijection(1 .. n, Live(u))
  BY <1>5 DEF ExistsBijection
<1>7. IsFiniteSet(1 .. n) /\ Cardinality(1 .. n) = n
  BY <1>0, FS_Interval
<1>8. Cardinality(Live(u)) = n
  BY <1>6, <1>7, FS_Bijection
<1>9. IsFiniteSet(Conns(u))
  <2>1. IsFiniteSet(Fd)
    BY MaxFdAssumption, FS_Interval DEF MaxFdAssumption, Fd
  <2> QED
    BY <2>1, FS_Subset DEF Conns
<1>10. Cardinality(Live(u)) = Cardinality(Conns(u)) + 1
  BY <1>1, <1>9, FS_AddElement
<1> QED
  BY <1>8, <1>10 DEF n

-----------------------------------------------------------------------------
(* Every step.                                                             *)

(* The listener and its events are there from the start.                   *)
LEMMA InitGood ==
  ASSUME PollInit
  PROVE  PollInv
<1> DEFINE n == NewIo(Empty, Listener, "listen")
           fs == {Listener}
           e == {"r"}
           v == SetEvents(n, fs, e)
<1>0. Listener \in Fd /\ 1 \in 1 .. MaxFd + 1
  BY MaxFdAssumption DEF MaxFdAssumption, Listener, Fd
<1>1. Empty \in Tables
  BY DEF Empty, Tables, EventSet
<1>2. /\ Empty.type = [f \in Fd |-> "none"] /\ Empty.index = [f \in Fd |-> 0] /\ Empty.queued = {}
      /\ Empty.pfds = <<>> /\ Empty.events = [f \in Fd |-> {}]
  BY DEF Empty
<1>3. Fits(Empty) /\ Queues(Empty) /\ Empty.type[Listener] = "none"
  BY <1>0, <1>1, <1>2 DEF Fits, Linked, Queues
<1>4. /\ Fits(n) /\ Queues(n) /\ n.index[Listener] # 0
      /\ n.type = [Empty.type EXCEPT ![Listener] = "listen"]
  BY <1>0, <1>3, NewIoFits, ZenonT(60)
<1> HIDE DEF n
<1>5. /\ n.type[Listener] = "listen" /\ \A f \in Fd \ {Listener} : n.type[f] = "none"
  BY <1>0, <1>2, <1>4
<1>6. fs \in SUBSET Fd /\ e \in EventSet /\ "r" \in e /\ Listener \in fs
  BY <1>0 DEF EventSet
<1>7. t = v
  BY DEF PollInit, n
<1> HIDE DEF fs, e
<1> DEFINE x == [g \in Fd |-> IF g \in fs THEN n.events[g] \cup e ELSE n.events[g]]
<1>8. WithEvents(n, v, x)
  <2>1. Fits(n) /\ fs \in SUBSET Fd /\ e \in EventSet
    BY <1>4, <1>6
  <2> QED
    BY <2>1, SetEventsFits, Zenon
<1> HIDE DEF v
<1>9. /\ Fits(v) /\ v.type = n.type /\ v.index = n.index /\ v.queued = n.queued
      /\ \A g \in Fd : v.events[g] = IF g \in fs THEN n.events[g] \cup e ELSE n.events[g]
  BY <1>8 DEF WithEvents
<1>10. Queues(v)
  BY <1>4, <1>9 DEF Queues, Conns
<1>11. Full(v)
  BY <1>0, <1>4, <1>5, <1>6, <1>9 DEF Full, Live
<1>12. /\ stage \in Phases /\ pos \in 1 .. MaxFd + 1 /\ input \in [Fd -> Inputs]
       /\ again \in SUBSET Fd
  BY <1>0 DEF PollInit, Phases, Inputs
<1> QED
  BY <1>7, <1>9, <1>10, <1>11, <1>12 DEF PollInv

(* io_handle, for the listener or a connection.                            *)
LEMMA HandleFdGood ==
  ASSUME PollInv, HandleFd
  PROVE  PollInv'
<1> DEFINE f == t.pfds[pos].fd
<1>0. Good(t) /\ Len(t.pfds) \in Nat /\ Len(t.pfds) <= MaxFd
  BY Short DEF PollInv, Good
<1>1. /\ pos \in 1 .. MaxFd + 1 /\ pos <= Len(t.pfds) /\ pos' = pos + 1 /\ stage' = stage
      /\ stage \in Phases /\ input \in [Fd -> Inputs] /\ again \in SUBSET Fd /\ MaxFd \in Nat
  BY MaxFdAssumption DEF PollInv, HandleFd, MaxFdAssumption
<1>2. pos \in DOMAIN t.pfds
  <2>1. t \in Tables
    BY <1>0 DEF Good, Fits
  <2>2. DOMAIN t.pfds = 1 .. Len(t.pfds)
    BY <2>1, TableFields
  <2> QED
    BY <1>0, <1>1, <2>2
<1>3. pos' \in 1 .. MaxFd + 1
  BY <1>0, <1>1
<1>4. f = Listener \/ f \in Conns(t)
  BY <1>0, <1>2, EntryIsLive
<1>5. IF f = Listener THEN HandleListener ELSE HandleConn(f)
  BY DEF HandleFd
<1> HIDE DEF f
<1>6. CASE f = Listener
  <2>1. HandleListener
    BY <1>5, <1>6
  <2>2. input' = input /\ again' = again
    BY <2>1 DEF HandleListener
  <2>3. CASE FreeFd(t) # {} /\ \E ok \in BOOLEAN : t' = Accepted(t, ok)
    <3>1. PICK ok \in BOOLEAN : t' = Accepted(t, ok)
      BY <2>3
    <3>2. Good(t')
      BY <1>0, <2>3, <3>1, AcceptedGood
    <3> QED
      BY <1>1, <1>3, <2>2, <3>2 DEF Good, PollInv
  <2>4. CASE t' = t
    BY <1>0, <1>1, <1>3, <2>2, <2>4 DEF Good, PollInv
  <2> QED
    BY <2>1, <2>3, <2>4 DEF HandleListener
<1>7. CASE f # Listener
  <2>0. f \in Conns(t)
    BY <1>4, <1>7
  <2>1. HandleConn(f)
    BY <1>5, <1>7
  <2>2. input' \in [Fd -> Inputs] /\ again' \in SUBSET Fd
    <3> DEFINE none(g) == \/ /\ g = f /\ "r" \in t.revents[f]
                             /\ ~(input[f] = "eof" /\ f \in again)
                          \/ t'.type[g] = "none"
    <3>1. input' = [g \in Fd |-> IF none(g) THEN "none" ELSE input[g]]
      BY <2>1 DEF HandleConn
    <3> HIDE DEF none
    <3>2. input' \in [Fd -> Inputs]
      BY <1>1, <3>1 DEF Inputs
    <3>3. again' \subseteq Conns(t')
      BY <2>1 DEF HandleConn
    <3> QED
      BY <3>2, <3>3 DEF Conns
  <2>3. \/ \E to \in Audience(Conns(t) \ {f}) : t' = ExitOf(RemoveFd(t, f), f, to)
        \/ \E v \in Written(t, f) : t' \in Obeyed(v, f) \/ t' = v
    BY <2>1 DEF HandleConn
  <2>4. CASE \E to \in Audience(Conns(t) \ {f}) : t' = ExitOf(RemoveFd(t, f), f, to)
    <3>1. PICK to \in Audience(Conns(t) \ {f}) : t' = ExitOf(RemoveFd(t, f), f, to)
      BY <2>4
    <3>2. to \in SUBSET Conns(t)
      BY <3>1 DEF Audience
    <3>3. Good(t')
      BY <1>0, <2>0, <3>1, <3>2, HungUpGood
    <3> QED
      BY <1>1, <1>3, <2>2, <3>3 DEF Good, PollInv
  <2>5. CASE \E v \in Written(t, f) : t' \in Obeyed(v, f) \/ t' = v
    <3>1. PICK v \in Written(t, f) : t' \in Obeyed(v, f) \/ t' = v
      BY <2>5
    <3>2. Good(v) /\ Conns(v) = Conns(t)
      <4>1. v = t \/ v = Flush(t, f)
        BY <3>1 DEF Written
      <4>2. f \in Fd
        BY <2>0 DEF Conns
      <4>3. Holds(t, Flush(t, f))
        BY <1>0, <4>2, FlushStays DEF Good
      <4> QED
        BY <1>0, <4>1, <4>3, StaysFull DEF Good
    <3>3. Good(t')
      BY <2>0, <3>1, <3>2, ObeyedGood, SMTT(40)
    <3> QED
      BY <1>1, <1>3, <2>2, <3>3 DEF Good, PollInv
  <2> QED
    BY <2>3, <2>4, <2>5
<1> QED
  BY <1>6, <1>7

(* What poll says was ready is written down; nothing else changes.         *)
LEMMA PollGood ==
  ASSUME PollInv, PollFds
  PROVE  PollInv'
<1>0. t \in Tables /\ Fits(t)
  BY DEF PollInv, Fits
<1>2. PICK writable \in {{}, t.queued} :
         t' = [t EXCEPT !.revents = [f \in Fd |->
              IF t.index[f] = 0 THEN t.revents[f]
              ELSE {e \in t.pfds[t.index[f]].events :
                      IF e = "r" THEN Readable(f) ELSE f \in writable}]]
  BY DEF PollFds
<1> DEFINE up(f, e) == IF e = "r" THEN Readable(f) ELSE f \in writable
           r == [f \in Fd |-> IF t.index[f] = 0 THEN t.revents[f]
                              ELSE {e \in t.pfds[t.index[f]].events : up(f, e)}]
<1>3. t' = [t EXCEPT !.revents = r]
  BY <1>2
<1> HIDE DEF up
<1>4. r \in [Fd -> EventSet]
  <2>1. \A f \in Fd : t.revents[f] \in EventSet
    BY <1>0, TableFields
  <2>2. ASSUME NEW f \in Fd, t.index[f] # 0
        PROVE  {e \in t.pfds[t.index[f]].events : up(f, e)} \in EventSet
    <3>1. t.index[f] \in DOMAIN t.pfds
      BY <1>0, <2>2, LinkedEntry DEF Fits
    <3>2. t.pfds[t.index[f]].events \in EventSet
      BY <1>0, <3>1, TableFields
    <3> QED
      BY <3>2 DEF EventSet
  <2> QED
    BY <2>1, <2>2
<1> HIDE DEF r
<1>5. /\ t' \in Tables /\ t'.pfds = t.pfds /\ t'.index = t.index /\ t'.type = t.type
      /\ t'.events = t.events /\ t'.queued = t.queued
  BY <1>0, <1>3, <1>4 DEF Tables
<1>6. Good(t')
  BY <1>5 DEF PollInv, Good, Fits, Linked, Queues, Full, Live, Conns
<1> QED
  BY <1>6 DEF PollInv, Good, PollFds, Phases

(* timer_run may end a connection.                                         *)
LEMMA TimersGood ==
  ASSUME PollInv, Timers
  PROVE  PollInv'
<1>0. Good(t)
  BY DEF PollInv, Good
<1>1. CASE UNCHANGED <<t, input, again>>
  BY <1>1 DEF PollInv, Timers, Phases
<1>2. CASE \E f \in Conns(t), to \in Audience(Conns(t)) :
             /\ t' = ExitOf(t, f, to \ {f})
             /\ input' = [input EXCEPT ![f] = "none"]
             /\ again' = again \ {f}
  <2>1. PICK f \in Conns(t) : \E to \in Audience(Conns(t)) :
             /\ t' = ExitOf(t, f, to \ {f})
             /\ input' = [input EXCEPT ![f] = "none"]
             /\ again' = again \ {f}
    BY <1>2
  <2>2. PICK to \in Audience(Conns(t)) :
             /\ t' = ExitOf(t, f, to \ {f})
             /\ input' = [input EXCEPT ![f] = "none"]
             /\ again' = again \ {f}
    BY <2>1
  <2>3. to \ {f} \in SUBSET Conns(t)
    BY <2>2 DEF Audience
  <2> DEFINE others == to \ {f}
  <2>4. others \in SUBSET Conns(t) /\ t' = ExitOf(t, f, others)
    BY <2>2, <2>3
  <2> HIDE DEF others
  <2>5. Good(t')
    BY <1>0, <2>1, <2>4, ExitOfLive
  <2>6. input' \in [Fd -> Inputs] /\ again' \in SUBSET Fd
    BY <2>2 DEF PollInv, Inputs
  <2> QED
    BY <2>5, <2>6 DEF PollInv, Good, Timers, Phases
<1> QED
  BY <1>1, <1>2 DEF Timers

(* Every step keeps the invariant.                                         *)
LEMMA StepGood ==
  ASSUME PollInv, [PollNext]_pollVars
  PROVE  PollInv'
<1>1. CASE HandleFd
  BY <1>1, HandleFdGood
<1>2. CASE HandleDone
  <2> DEFINE r == [f \in Fd |-> {}]
  <2>1. t' = [t EXCEPT !.revents = r] /\ r \in [Fd -> EventSet] /\ t \in Tables
    BY <1>2 DEF HandleDone, EventSet, PollInv, Fits
  <2> HIDE DEF r
  <2>2. /\ t' \in Tables /\ t'.pfds = t.pfds /\ t'.index = t.index /\ t'.type = t.type
        /\ t'.events = t.events /\ t'.queued = t.queued
    BY <2>1 DEF Tables
  <2>3. Good(t')
    BY <2>2 DEF PollInv, Good, Fits, Linked, Queues, Full, Live, Conns
  <2> QED
    BY <1>2, <2>3, MaxFdAssumption DEF HandleDone, PollInv, Good, Phases, MaxFdAssumption
<1>3. CASE PollFds
  BY <1>3, PollGood
<1>4. CASE Timers
  BY <1>4, TimersGood
<1>5. ASSUME NEW f \in Fd, NEW what \in {"line", "eof"}, Arrive(f, what)
      PROVE  PollInv'
  BY <1>5 DEF Arrive, PollInv, Inputs
<1>6. CASE UNCHANGED pollVars
  BY <1>6 DEF pollVars, PollInv
<1> QED
  BY <1>1, <1>2, <1>3, <1>4, <1>5, <1>6 DEF PollNext

(* What the invariant says of io_pfds and io_list between two steps.       *)
LEMMA PollImplies ==
  ASSUME PollInv
  PROVE  TableAgrees
<1>0. /\ t \in Tables /\ Linked(t) /\ Good(t) /\ Listener \in Fd
      /\ Len(t.pfds) \in Nat /\ Len(t.pfds) <= MaxFd
  BY MaxFdAssumption, Short DEF MaxFdAssumption, Listener, Fd, PollInv, Fits, Good
<1>1. PollTypeOK
  <2>1. t.events \in [Fd -> SUBSET {"r", "w"}] /\ t.revents \in [Fd -> SUBSET {"r", "w"}]
    BY <1>0, TableFields DEF EventSet
  <2>2. t.index \in [Fd -> 0 .. MaxFd]
    <3>1. t.index \in [Fd -> Nat] /\ DOMAIN t.pfds = 1 .. Len(t.pfds) /\ MaxFd \in Nat
      BY <1>0, MaxFdAssumption, TableFields DEF MaxFdAssumption
    <3>2. \A f \in Fd : t.index[f] # 0 => t.index[f] \in DOMAIN t.pfds
      BY <1>0 DEF Linked
    <3>3. \A f \in Fd : t.index[f] \in 0 .. MaxFd
      BY <1>0, <3>1, <3>2
    <3> QED
      BY <3>1, <3>3
  <2> QED
    BY <2>1, <2>2 DEF PollTypeOK, PollInv, Phases, Inputs, Queues
<1>2. Len(t.pfds) = Cardinality(Conns(t)) + 1
  BY <1>0, OneEntryEach
<1>3. ASSUME NEW f \in Conns(t) \cup {Listener}
      PROVE  /\ t.index[f] \in DOMAIN t.pfds
             /\ t.pfds[t.index[f]] = [fd |-> f, events |-> t.events[f]]
             /\ "r" \in t.events[f]
             /\ f \in t.queued => "w" \in t.events[f]
  <2>1. f \in Live(t)
    BY <1>0 DEF Live, Conns, Good, Full
  <2>2. f \in Fd /\ t.index[f] # 0 /\ "r" \in t.events[f]
    BY <1>0, <2>1 DEF Good, Full, Live
  <2> QED
    BY <1>0, <2>2 DEF Linked, Good, Queues
<1> QED
  BY <1>1, <1>2, <1>3 DEF TableAgrees

(* io_pfds and io_list describe the same descriptors after every handler,  *)
(* whatever entries io_remove_fd has moved: each connection and the        *)
(* listener have one entry, io_list knows where it is, and the two agree   *)
(* about the events it is polled for.                                      *)
THEOREM TablesAlwaysAgree == PollSpec => []TableAgrees
<1>1. PollInit => PollInv
  BY InitGood
<1>2. PollInv /\ [PollNext]_pollVars => PollInv'
  BY StepGood
<1>3. PollInv => TableAgrees
  BY PollImplies
<1> QED
  BY <1>1, <1>2, <1>3, PTL DEF PollSpec

-----------------------------------------------------------------------------
(* connect{} blocks.                                                       *)

\* A block between two callbacks: it has a timer while it is to connect, and
\* a socket while it does.
ConnBlock ==
  [status : {"idle", "resolving", "connecting", "error", "done"}, active : BOOLEAN,
   timer : Slot \cup {NoTimer}, fd : {"none", "out", "link"}, query : BOOLEAN]

BlockOK(c) ==
  /\ c \in ConnBlock
  /\ c.timer # NoTimer <=> c.active /\ c.status # "done"
  /\ c.fd = "out" <=> c.status = "connecting"
  /\ c.fd = "link" => c.status = "done"
  /\ c.status \in {"resolving", "connecting"} => c.active
  /\ c.status = "error" => ~c.active

\* No two timers of one block, and all are to be called again.
OnePerBlock(s) ==
  \A x \in Range(s.list) :
    /\ s.at[x].refs = 1 /\ s.at[x].arg \in Conn
    /\ \A y \in Range(s.list) : s.at[y].arg = s.at[x].arg => y = x

\* The pointer x of block n is to the timer of that block.
Mine(s, n, x) ==
  IF x = NoTimer THEN \A y \in Range(s.list) : s.at[y].arg # n
  ELSE Listed(s, x) /\ s.at[x].arg = n

\* The timers of the other blocks are the same.
Others(s, s2, n) ==
  \A x \in Slot :
    /\ Listed(s, x) /\ s.at[x].arg # n =>
         Listed(s2, x) /\ s2.at[x].arg = s.at[x].arg /\ s2.at[x].call = s.at[x].call
    /\ Listed(s2, x) /\ s2.at[x].arg # n => Listed(s, x) /\ s.at[x].arg # n

Carries(s0, n, s, x) ==
  Stored(s) /\ OnePerBlock(s) /\ Others(s0, s, n) /\ Mine(s, n, x)

CallOK(s, c) ==
  c.timer # NoTimer => s.at[c.timer].call = IF c.status = "idle" THEN "start" ELSE "timeout"

\* Sockets of the block that it has lost.
Strays(c, o) == o - (IF c.fd = "out" THEN 1 ELSE 0)

\* What handlers pass on to each other.
Shaped(u) ==
  /\ u = [st |-> u.st, c |-> u.c, out |-> u.out, shut |-> u.shut]
  /\ u.c \in ConnBlock /\ u.out \in Int /\ u.shut \subseteq Conn

\* What a handler for block n leaves, k sockets lost.
Leaves(s0, n, u, k) ==
  /\ Shaped(u) /\ Carries(s0, n, u.st, u.c.timer) /\ BlockOK(u.c) /\ CallOK(u.st, u.c)
  /\ u.out \in Int /\ Strays(u.c, u.out) = k

\* What a handler may do to the query of a block.
QueryStep(n, c, c2) ==
  /\ c2.query /\ ~c.query => c2.status = "resolving" /\ c.status # "resolving"
  /\ c2.status = "resolving" /\ c.status # "resolving" => n \in Named
  /\ c.status = "resolving" /\ c2.status # "resolving" => ~c2.query

ConnInv ==
  /\ Stored(tm) /\ OnePerBlock(tm)
  /\ cn \in [Conn -> ConnBlock] /\ out \in [Conn -> Int] /\ held \in [Conn -> 0 .. MaxHeld]
  /\ \A n \in Conn :
       /\ BlockOK(cn[n]) /\ Mine(tm, n, cn[n].timer) /\ CallOK(tm, cn[n])
       /\ Strays(cn[n], out[n]) \in {0, 1}
       /\ Strays(cn[n], out[n]) = 1 => n \in crossed
  /\ tour = [cur |-> tour.cur, next |-> tour.next] /\ tour.cur \in Slot \cup {NoTimer}
  /\ tour.cur # NoTimer => Listed(tm, tour.cur)
  /\ tour.next = After(tm, tour.cur)
  /\ linked \subseteq Conn /\ crossed \subseteq Conn /\ shut \subseteq Conn

(* A block without a timer leaves a free one (connect_add).                *)
LEMMA OneIsFree ==
  ASSUME NEW s, Stored(s), OnePerBlock(s), NEW n \in Conn, Mine(s, n, NoTimer)
  PROVE  s.free # <<>>
<1> SUFFICES ASSUME s.free = <<>> PROVE FALSE
  OBVIOUS
<1> DEFINE of == [x \in Slot |-> s.at[x].arg]
<1>1. Range(s.list) = Slot
  <2>1. Range(s.list) \cup Range(s.free) = Slot /\ s.free \in Seq(Slot)
    BY StoreFacts
  <2>2. Range(s.free) = {s.free[i] : i \in DOMAIN s.free}
    BY Zenon DEF Range
  <2>3. DOMAIN s.free = {}
    BY <2>1
  <2> QED
    BY <2>1, <2>2, <2>3
<1>2. \A x \in Slot : s.at[x].arg \in Conn \ {n}
  BY <1>1 DEF OnePerBlock, Mine
<1>3. \A x \in Slot, y \in Slot : s.at[x].arg = s.at[y].arg => x = y
  BY <1>1 DEF OnePerBlock
<1>4. of \in Injection(Slot, Conn \ {n})
  BY <1>2, <1>3 DEF Injection, IsInjective
<1> HIDE DEF of
<1>5. IsFiniteSet(Conn) /\ Cardinality(Conn) <= Cardinality(Slot) /\ IsFiniteSet(Slot)
  BY ConnectsAssumption DEF ConnectsAssumption
<1>6. IsFiniteSet(Conn \ {n}) /\ Cardinality(Conn \ {n}) = Cardinality(Conn) - 1
  BY <1>5, FS_RemoveElement
<1>7. Cardinality(Slot) <= Cardinality(Conn \ {n})
  BY <1>4, <1>6, FS_Injection, Zenon
<1>8. Cardinality(Slot) \in Nat /\ Cardinality(Conn) \in Nat
  BY <1>5, FS_CardinalityType
<1> QED
  BY <1>5, <1>6, <1>7, <1>8

(* timer_push and timer_remove of the timer of a block.                    *)
LEMMA Dropped ==
  ASSUME NEW s0, NEW n \in Conn, NEW s, NEW x \in Slot, Carries(s0, n, s, x)
  PROVE  Carries(s0, n, RemoveTimer(s, x), NoTimer)
<1> DEFINE s2 == RemoveTimer(s, x)
<1>0. x # NoTimer
  BY NoTimerAssumption DEF NoTimerAssumption
<1>1. Stored(s) /\ OnePerBlock(s) /\ Others(s0, s, n) /\ x \in Range(s.list) /\ s.at[x].arg = n
  BY <1>0 DEF Carries, Mine, Listed
<1>2. Stored(s2) /\ Kept(s, s2, {x}) /\ ~Listed(s2, x)
  BY <1>1, RemoveFacts
<1> HIDE DEF s2
<1>3. \A y \in Range(s2.list) : y \in Range(s.list) \ {x} /\ s2.at[y] = s.at[y]
  BY <1>2 DEF Kept, Listed
<1>4. \A y \in Range(s.list) \ {x} : y \in Range(s2.list) /\ s2.at[y] = s.at[y]
  BY <1>2 DEF Kept
<1>5. OnePerBlock(s2)
  BY <1>1, <1>3 DEF OnePerBlock
<1>6. Mine(s2, n, NoTimer)
  BY <1>1, <1>3 DEF OnePerBlock, Mine
<1>7. Others(s0, s2, n)
  BY <1>1, <1>3, <1>4 DEF Others, Listed
<1> QED
  BY <1>2, <1>5, <1>6, <1>7 DEF s2, Carries

(* timer_start for a block that has no timer.                              *)
LEMMA Armed ==
  ASSUME NEW s0, NEW n \in Conn, NEW s, Carries(s0, n, s, NoTimer), NEW call \in Callbacks
  PROVE  /\ Carries(s0, n, StartTimer(s, call, n, 0), NextSlot(s))
         /\ NextSlot(s) \in Slot /\ NextSlot(s) # NoTimer
         /\ StartTimer(s, call, n, 0).at[NextSlot(s)].call = call
<1> DEFINE s2 == StartTimer(s, call, n, 0)
           x == NextSlot(s)
<1>1. Stored(s) /\ OnePerBlock(s) /\ Others(s0, s, n) /\ \A y \in Range(s.list) : s.at[y].arg # n
  BY DEF Carries, Mine
<1>2. Starts(s, s2, x, call, n, 0)
  <2>1. s.free # <<>>
    BY <1>1, OneIsFree DEF Carries
  <2>2. n \in Whose /\ 0 \in Int
    BY DEF Whose
  <2> QED
    BY <1>1, <2>1, <2>2, StartFacts, Zenon
<1> HIDE DEF s2, x
<1>3. /\ Stored(s2) /\ Kept(s, s2, {x}) /\ x \in Slot /\ x \notin Range(s.list) /\ x \in Range(s2.list)
      /\ s2.at[x].refs = 1 /\ s2.at[x].call = call /\ s2.at[x].arg = n
  BY <1>2 DEF Starts, Listed
<1>4. x # NoTimer
  BY <1>3, NoTimerAssumption DEF NoTimerAssumption
<1>5. \A y \in Range(s2.list) : y # x => y \in Range(s.list) /\ s2.at[y] = s.at[y]
  BY <1>3 DEF Kept
<1>6. \A y \in Range(s.list) : y # x /\ y \in Range(s2.list) /\ s2.at[y] = s.at[y]
  BY <1>3 DEF Kept
<1>7. OnePerBlock(s2)
  BY <1>1, <1>3, <1>5 DEF OnePerBlock
<1>8. Others(s0, s2, n)
  BY <1>1, <1>3, <1>5, <1>6 DEF Others, Listed
<1>9. Mine(s2, n, x)
  BY <1>3, <1>4 DEF Mine, Listed
<1> QED
  BY <1>3, <1>4, <1>7, <1>8, <1>9 DEF s2, x, Carries

\* w is u, but for some fields.
Alike(u, w, F) ==
  /\ Shaped(w)
  /\ "st" \notin F => w.st = u.st
  /\ "out" \notin F => w.out = u.out
  /\ "status" \notin F => w.c.status = u.c.status
  /\ "active" \notin F => w.c.active = u.c.active
  /\ "timer" \notin F => w.c.timer = u.c.timer
  /\ "fd" \notin F => w.c.fd = u.c.fd
  /\ "query" \notin F => w.c.query = u.c.query

(* What is there when a handler is called.                                 *)
LEMMA OfFacts ==
  ASSUME ConnInv, NEW n \in Conn
  PROVE  /\ Shaped(Of(n)) /\ Of(n).st = tm /\ Of(n).c = cn[n] /\ Of(n).out = out[n]
         /\ Carries(tm, n, tm, cn[n].timer) /\ BlockOK(cn[n]) /\ CallOK(tm, cn[n])
<1>1. cn[n] \in ConnBlock /\ out[n] \in Int /\ shut \subseteq Conn
  BY DEF ConnInv
<1>2. Carries(tm, n, tm, cn[n].timer) /\ BlockOK(cn[n]) /\ CallOK(tm, cn[n])
  BY DEF ConnInv, Carries, Others
<1> QED
  BY <1>1, <1>2 DEF Of, Shaped

(* What a write to a field does.                                           *)
LEMMA Writes ==
  ASSUME NEW u, Shaped(u)
  PROVE  /\ \A v \in {"idle", "resolving", "connecting", "error", "done"} :
              Alike(u, [u EXCEPT !.c.status = v], {"status"}) /\ [u EXCEPT !.c.status = v].c.status = v
         /\ \A v \in BOOLEAN :
              Alike(u, [u EXCEPT !.c.active = v], {"active"}) /\ [u EXCEPT !.c.active = v].c.active = v
         /\ \A v \in {"none", "out", "link"} :
              Alike(u, [u EXCEPT !.c.fd = v], {"fd"}) /\ [u EXCEPT !.c.fd = v].c.fd = v
         /\ \A v \in BOOLEAN :
              Alike(u, [u EXCEPT !.c.query = v], {"query"}) /\ [u EXCEPT !.c.query = v].c.query = v
<1> DEFINE c == u.c
<1>1. /\ u = [st |-> u.st, c |-> c, out |-> u.out, shut |-> u.shut]
      /\ c \in ConnBlock /\ u.out \in Int /\ u.shut \subseteq Conn
  BY DEF Shaped
<1>2. ASSUME NEW d \in ConnBlock, NEW w, w = [u EXCEPT !.c = d]
      PROVE  w.c = d /\ Shaped(w) /\ w.st = u.st /\ w.out = u.out
  <2>1. w = [st |-> u.st, c |-> d, out |-> u.out, shut |-> u.shut]
    BY <1>1, <1>2
  <2> HIDE DEF c
  <2> QED
    BY <1>1, <2>1 DEF Shaped
<1> HIDE DEF c
<1>3. ASSUME NEW v \in {"idle", "resolving", "connecting", "error", "done"}
      PROVE  Alike(u, [u EXCEPT !.c.status = v], {"status"}) /\ [u EXCEPT !.c.status = v].c.status = v
  <2> DEFINE d == [c EXCEPT !.status = v]
             w == [u EXCEPT !.c = d]
  <2>1. /\ d \in ConnBlock /\ d.status = v /\ d.active = c.active /\ d.timer = c.timer
        /\ d.fd = c.fd /\ d.query = c.query
    BY <1>1 DEF ConnBlock
  <2>2. [u EXCEPT !.c.status = v] = w
    BY DEF c
  <2> HIDE DEF d, w
  <2>3. w.c = d /\ Shaped(w) /\ w.st = u.st /\ w.out = u.out
    BY <1>2, <2>1 DEF w
  <2> QED
    BY <2>1, <2>2, <2>3 DEF Alike, c
<1>4. ASSUME NEW v \in BOOLEAN
      PROVE  Alike(u, [u EXCEPT !.c.active = v], {"active"}) /\ [u EXCEPT !.c.active = v].c.active = v
  <2> DEFINE d == [c EXCEPT !.active = v]
             w == [u EXCEPT !.c = d]
  <2>1. /\ d \in ConnBlock /\ d.status = c.status /\ d.active = v /\ d.timer = c.timer
        /\ d.fd = c.fd /\ d.query = c.query
    BY <1>1 DEF ConnBlock
  <2>2. [u EXCEPT !.c.active = v] = w
    BY DEF c
  <2> HIDE DEF d, w
  <2>3. w.c = d /\ Shaped(w) /\ w.st = u.st /\ w.out = u.out
    BY <1>2, <2>1 DEF w
  <2> QED
    BY <2>1, <2>2, <2>3 DEF Alike, c
<1>6. ASSUME NEW v \in {"none", "out", "link"}
      PROVE  Alike(u, [u EXCEPT !.c.fd = v], {"fd"}) /\ [u EXCEPT !.c.fd = v].c.fd = v
  <2> DEFINE d == [c EXCEPT !.fd = v]
             w == [u EXCEPT !.c = d]
  <2>1. /\ d \in ConnBlock /\ d.status = c.status /\ d.active = c.active /\ d.timer = c.timer
        /\ d.fd = v /\ d.query = c.query
    BY <1>1 DEF ConnBlock
  <2>2. [u EXCEPT !.c.fd = v] = w
    BY DEF c
  <2> HIDE DEF d, w
  <2>3. w.c = d /\ Shaped(w) /\ w.st = u.st /\ w.out = u.out
    BY <1>2, <2>1 DEF w
  <2> QED
    BY <2>1, <2>2, <2>3 DEF Alike, c
<1>7. ASSUME NEW v \in BOOLEAN
      PROVE  Alike(u, [u EXCEPT !.c.query = v], {"query"}) /\ [u EXCEPT !.c.query = v].c.query = v
  <2> DEFINE d == [c EXCEPT !.query = v]
             w == [u EXCEPT !.c = d]
  <2>1. /\ d \in ConnBlock /\ d.status = c.status /\ d.active = c.active /\ d.timer = c.timer
        /\ d.fd = c.fd /\ d.query = v
    BY <1>1 DEF ConnBlock
  <2>2. [u EXCEPT !.c.query = v] = w
    BY DEF c
  <2> HIDE DEF d, w
  <2>3. w.c = d /\ Shaped(w) /\ w.st = u.st /\ w.out = u.out
    BY <1>2, <2>1 DEF w
  <2> QED
    BY <2>1, <2>2, <2>3 DEF Alike, c
<1> QED
  BY <1>3, <1>4, <1>6, <1>7

LEMMA WriteTimer ==
  ASSUME NEW u, Shaped(u), NEW v \in Slot \cup {NoTimer}
  PROVE  Alike(u, [u EXCEPT !.c.timer = v], {"timer"}) /\ [u EXCEPT !.c.timer = v].c.timer = v
<1> DEFINE c == u.c
           d == [c EXCEPT !.timer = v]
           w == [u EXCEPT !.c = d]
<1>1. /\ u = [st |-> u.st, c |-> c, out |-> u.out, shut |-> u.shut]
      /\ c \in ConnBlock /\ u.out \in Int /\ u.shut \subseteq Conn
  BY DEF Shaped
<1>2. /\ d \in ConnBlock /\ d.status = c.status /\ d.active = c.active /\ d.timer = v
      /\ d.fd = c.fd /\ d.query = c.query
  BY <1>1 DEF ConnBlock
<1>3. [u EXCEPT !.c.timer = v] = w
  BY DEF c
<1> HIDE DEF d
<1>4. w = [st |-> u.st, c |-> d, out |-> u.out, shut |-> u.shut]
  BY <1>1
<1> HIDE DEF c, w
<1>5. w.c = d /\ Shaped(w) /\ w.st = u.st /\ w.out = u.out
  BY <1>1, <1>2, <1>4 DEF Shaped
<1> QED
  BY <1>2, <1>3, <1>5 DEF Alike, c

LEMMA WriteOut ==
  ASSUME NEW u, Shaped(u), NEW v \in Int
  PROVE  Alike(u, [u EXCEPT !.out = v], {"out"}) /\ [u EXCEPT !.out = v].out = v
<1> DEFINE w == [u EXCEPT !.out = v]
<1>1. u = [st |-> u.st, c |-> u.c, out |-> u.out, shut |-> u.shut] /\ u.c \in ConnBlock /\ u.shut \subseteq Conn
  BY DEF Shaped
<1>2. w = [st |-> u.st, c |-> u.c, out |-> v, shut |-> u.shut]
  BY <1>1
<1> HIDE DEF w
<1>3. w.st = u.st /\ w.c = u.c /\ w.out = v /\ Shaped(w)
  BY <1>1, <1>2 DEF Shaped
<1> QED
  BY <1>3 DEF Alike, w

LEMMA WriteStore ==
  ASSUME NEW u, Shaped(u), NEW v
  PROVE  Alike(u, [u EXCEPT !.st = v], {"st"}) /\ [u EXCEPT !.st = v].st = v
<1> DEFINE w == [u EXCEPT !.st = v]
<1>1. /\ u = [st |-> u.st, c |-> u.c, out |-> u.out, shut |-> u.shut]
      /\ u.c \in ConnBlock /\ u.out \in Int /\ u.shut \subseteq Conn
  BY DEF Shaped
<1>2. w = [st |-> v, c |-> u.c, out |-> u.out, shut |-> u.shut]
  BY <1>1
<1> HIDE DEF w
<1>3. w.st = v /\ w.c = u.c /\ w.out = u.out /\ Shaped(w)
  BY <1>1, <1>2 DEF Shaped
<1> QED
  BY <1>3 DEF Alike, w

LEMMA WriteShut ==
  ASSUME NEW u, Shaped(u), NEW v \in SUBSET Conn
  PROVE  Alike(u, [u EXCEPT !.shut = v], {"shut"})
<1> DEFINE w == [u EXCEPT !.shut = v]
<1>1. /\ u = [st |-> u.st, c |-> u.c, out |-> u.out, shut |-> u.shut]
      /\ u.c \in ConnBlock /\ u.out \in Int
  BY DEF Shaped
<1>2. w = [st |-> u.st, c |-> u.c, out |-> u.out, shut |-> v]
  BY <1>1
<1> HIDE DEF w
<1>3. w.st = u.st /\ w.c = u.c /\ w.out = u.out /\ Shaped(w)
  BY <1>1, <1>2 DEF Shaped
<1> QED
  BY <1>3 DEF Alike, w

(* The parts of the handlers.  A timer that is let go of, and one that is  *)
(* started.                                                                *)
LEMMA DropTimerFacts ==
  ASSUME NEW u, Shaped(u), NEW s0, NEW n \in Conn, Carries(s0, n, u.st, u.c.timer)
  PROVE  /\ Alike(u, DropTimer(u), {"st", "timer"}) /\ DropTimer(u).c.timer = NoTimer
         /\ Carries(s0, n, DropTimer(u).st, NoTimer)
<1>0. u.c.timer \in Slot \cup {NoTimer}
  BY DEF Shaped, ConnBlock
<1>1. CASE u.c.timer = NoTimer
  <2>1. DropTimer(u) = u
    BY <1>1 DEF DropTimer
  <2> QED
    BY <1>1, <2>1 DEF Alike
<1>2. CASE u.c.timer # NoTimer
  <2> DEFINE s2 == RemoveTimer(u.st, u.c.timer)
             w == [u EXCEPT !.st = s2]
             v == [w EXCEPT !.c.timer = NoTimer]
  <2>1. Carries(s0, n, s2, NoTimer)
    BY <1>0, <1>2, Dropped
  <2>2. DropTimer(u) = [u EXCEPT !.st = s2, !.c.timer = NoTimer]
    BY <1>2 DEF DropTimer
  <2>3. DropTimer(u) = v
    BY <2>2
  <2> HIDE DEF s2
  <2>4. Alike(u, w, {"st"}) /\ w.st = s2
    BY WriteStore
  <2> HIDE DEF w
  <2>5. Shaped(w)
    BY <2>4 DEF Alike
  <2>6. Alike(w, v, {"timer"}) /\ v.c.timer = NoTimer
    BY <2>5, WriteTimer
  <2> HIDE DEF v
  <2> QED
    BY <2>1, <2>3, <2>4, <2>6 DEF Alike
<1> QED
  BY <1>1, <1>2

LEMMA SetTimerFacts ==
  ASSUME NEW u, Shaped(u), NEW s0, NEW n \in Conn, Carries(s0, n, u.st, NoTimer),
         NEW call \in Callbacks
  PROVE  /\ Alike(u, SetTimer(u, n, call), {"st", "timer"})
         /\ SetTimer(u, n, call).c.timer # NoTimer
         /\ Carries(s0, n, SetTimer(u, n, call).st, SetTimer(u, n, call).c.timer)
         /\ SetTimer(u, n, call).st.at[SetTimer(u, n, call).c.timer].call = call
<1> DEFINE s2 == StartTimer(u.st, call, n, 0)
           x == NextSlot(u.st)
           w == [u EXCEPT !.st = s2]
           v == [w EXCEPT !.c.timer = x]
<1>1. Carries(s0, n, s2, x) /\ x \in Slot /\ x # NoTimer /\ s2.at[x].call = call
  BY Armed
<1>2. SetTimer(u, n, call) = v
  BY DEF SetTimer
<1> HIDE DEF s2, x
<1>3. Alike(u, w, {"st"}) /\ w.st = s2
  BY WriteStore
<1> HIDE DEF w
<1>4. Alike(w, v, {"timer"}) /\ v.c.timer = x
  <2>1. Shaped(w)
    BY <1>1, <1>3 DEF Alike
  <2> QED
    BY <1>1, <1>3, <2>1, WriteTimer
<1> HIDE DEF v
<1> QED
  BY <1>1, <1>2, <1>3, <1>4 DEF Alike

(* io_destroy, and io_shutup, which leaves the socket open.                *)
LEMMA CloseFdFacts ==
  ASSUME NEW u, Shaped(u)
  PROVE  /\ Alike(u, CloseFd(u), {"fd", "out"}) /\ CloseFd(u).c.fd = "none"
         /\ CloseFd(u).out = Strays(u.c, u.out)
<1> DEFINE o == IF u.c.fd = "out" THEN u.out - 1 ELSE u.out
           w == [u EXCEPT !.c.fd = "none"]
           v == [w EXCEPT !.out = o]
<1>1. CloseFd(u) = v
  BY DEF CloseFd
<1>2. o \in Int /\ o = Strays(u.c, u.out)
  BY DEF Shaped, Strays
<1> HIDE DEF o
<1>3. Alike(u, w, {"fd"}) /\ w.c.fd = "none"
  BY Writes
<1> HIDE DEF w
<1>4. Alike(w, v, {"out"}) /\ v.out = o
  <2>1. Shaped(w)
    BY <1>2, <1>3 DEF Alike
  <2> QED
    BY <1>2, <1>3, <2>1, WriteOut
<1> HIDE DEF v
<1> QED
  BY <1>1, <1>2, <1>3, <1>4 DEF Alike

LEMMA DropFdFacts ==
  ASSUME NEW u, Shaped(u), NEW n \in Conn
  PROVE  /\ Alike(u, DropFd(u, n), {"fd", "out"}) /\ DropFd(u, n).c.fd = "none"
         /\ DropFd(u, n).out = Strays(u.c, u.out)
<1> DEFINE w == CloseFd(u)
           k == IF u.c.fd = "out" THEN u.shut \cup {n} ELSE u.shut
           v == [w EXCEPT !.shut = k]
<1>1. DropFd(u, n) = v
  BY DEF DropFd
<1>2. Alike(u, w, {"fd", "out"}) /\ w.c.fd = "none" /\ w.out = Strays(u.c, u.out)
  BY CloseFdFacts
<1>3. k \in SUBSET Conn
  BY DEF Shaped
<1> HIDE DEF w, k
<1>4. Alike(w, v, {"shut"})
  BY <1>2, <1>3, WriteShut DEF Alike
<1> HIDE DEF v
<1> QED
  BY <1>1, <1>2, <1>4 DEF Alike

(* connect_retry, for a block without a timer.                             *)
LEMMA RetryFacts ==
  ASSUME NEW u, Shaped(u), NEW s0, NEW n \in Conn, Carries(s0, n, u.st, NoTimer),
         u.c.timer = NoTimer
  PROVE  IF u.c.fd = "none" /\ u.c.active
         THEN /\ Alike(u, Retry(u, n), {"st", "status", "timer"})
              /\ Retry(u, n).c.status = "idle" /\ Retry(u, n).c.timer # NoTimer
              /\ Carries(s0, n, Retry(u, n).st, Retry(u, n).c.timer)
              /\ Retry(u, n).st.at[Retry(u, n).c.timer].call = "start"
         ELSE Retry(u, n) = u
<1>1. CASE u.c.fd = "none" /\ u.c.active
  <2> DEFINE w == [u EXCEPT !.c.status = "idle"]
             v == SetTimer(w, n, "start")
  <2>1. Retry(u, n) = v
    BY <1>1 DEF Retry
  <2>2. Alike(u, w, {"status"}) /\ w.c.status = "idle"
    BY Writes
  <2> HIDE DEF w
  <2>3. Shaped(w) /\ w.st = u.st /\ "start" \in Callbacks
    BY <2>2 DEF Alike, Callbacks
  <2>4. /\ Alike(w, v, {"st", "timer"}) /\ v.c.timer # NoTimer
        /\ Carries(s0, n, v.st, v.c.timer) /\ v.st.at[v.c.timer].call = "start"
    BY <2>3, SetTimerFacts
  <2> HIDE DEF v
  <2> QED
    BY <1>1, <2>1, <2>2, <2>4 DEF Alike
<1>2. CASE ~(u.c.fd = "none" /\ u.c.active)
  BY <1>2 DEF Retry
<1> QED
  BY <1>1, <1>2

(* The timeout of a try.                                                   *)
LEMMA SetTimeoutFacts ==
  ASSUME NEW u, Shaped(u), NEW s0, NEW n \in Conn, Carries(s0, n, u.st, u.c.timer),
         u.c.timer # NoTimer => u.st.at[u.c.timer].call = "timeout"
  PROVE  /\ Alike(u, SetTimeout(u, n), {"st", "timer"})
         /\ SetTimeout(u, n).c.timer # NoTimer
         /\ Carries(s0, n, SetTimeout(u, n).st, SetTimeout(u, n).c.timer)
         /\ SetTimeout(u, n).st.at[SetTimeout(u, n).c.timer].call = "timeout"
<1>1. CASE u.c.timer = NoTimer
  <2>1. SetTimeout(u, n) = SetTimer(u, n, "timeout") /\ "timeout" \in Callbacks
    BY <1>1 DEF SetTimeout, Callbacks
  <2> QED
    BY <1>1, <2>1, SetTimerFacts
<1>2. CASE u.c.timer # NoTimer
  BY <1>2 DEF SetTimeout, Alike
<1> QED
  BY <1>1, <1>2

-----------------------------------------------------------------------------
(* The handlers.                                                           *)

(* connect_initiate, for a block without a socket.                         *)
LEMMA InitiateFacts ==
  ASSUME ~FailAtOnce, NEW u, Shaped(u), NEW s0, NEW n \in Conn, Carries(s0, n, u.st, u.c.timer),
         u.c.timer # NoTimer => u.st.at[u.c.timer].call = "timeout",
         u.c.active, u.c.fd = "none", NEW r \in Initiate(u, n)
  PROVE  /\ r.ret = 0 /\ Leaves(s0, n, r.u, u.out)
         /\ r.u.c.status = "connecting" /\ r.u.c.query = u.c.query
<1> DEFINE w1 == [u EXCEPT !.c.fd = "out"]
           w2 == [w1 EXCEPT !.c.status = "connecting"]
           w == [w2 EXCEPT !.out = u.out + 1]
           v == SetTimeout(w, n)
<1>1. r = [u |-> v, ret |-> 0]
  BY DEF Initiate
<1>2. u.out + 1 \in Int /\ (u.out + 1) - 1 = u.out
  BY DEF Shaped
<1>3. Alike(u, w1, {"fd"}) /\ w1.c.fd = "out"
  BY Writes
<1> HIDE DEF w1
<1>4. Alike(w1, w2, {"status"}) /\ w2.c.status = "connecting"
  <2>1. Shaped(w1)
    BY <1>3 DEF Alike
  <2> QED
    BY <1>3, <2>1, Writes
<1> HIDE DEF w2
<1>5. Alike(w2, w, {"out"}) /\ w.out = u.out + 1
  <2>1. Shaped(w2)
    BY <1>2, <1>4 DEF Alike
  <2> QED
    BY <1>2, <1>4, <2>1, WriteOut
<1> HIDE DEF w
<1>6. Alike(u, w, {"fd", "status", "out"}) /\ w.c.fd = "out" /\ w.c.status = "connecting"
  BY <1>3, <1>4, <1>5 DEF Alike
<1>7. /\ Alike(w, v, {"st", "timer"}) /\ v.c.timer # NoTimer
      /\ Carries(s0, n, v.st, v.c.timer) /\ v.st.at[v.c.timer].call = "timeout"
  BY <1>6, SetTimeoutFacts, SMTT(40) DEF Alike
<1> HIDE DEF v
<1>8. /\ Shaped(v) /\ v.c.status = "connecting" /\ v.c.fd = "out" /\ v.c.active = u.c.active
      /\ v.c.query = u.c.query /\ v.out = u.out + 1
  BY <1>5, <1>6, <1>7 DEF Alike
<1>9. BlockOK(v.c) /\ CallOK(v.st, v.c)
  BY <1>7, <1>8 DEF BlockOK, CallOK, Shaped
<1>10. Leaves(s0, n, v, u.out)
  BY <1>2, <1>7, <1>8, <1>9 DEF Leaves, Strays
<1> QED
  BY <1>1, <1>8, <1>10

(* connect_resolve, for a block that is idle.                              *)
LEMMA ResolveFacts ==
  ASSUME NEW u, Shaped(u), NEW s0, NEW n \in Conn, Carries(s0, n, u.st, NoTimer),
         u.c.timer = NoTimer, u.c.active, u.c.fd = "none", NEW r \in Resolve(u, n)
  PROVE  r.ret = 0 /\ Leaves(s0, n, r.u, u.out) /\ r.u.c.status = "resolving"
<1>1. PICK asked \in BOOLEAN :
        r = [u |-> SetTimeout([u EXCEPT !.c.query = asked, !.c.status = "resolving"], n), ret |-> 0]
  BY DEF Resolve
<1> DEFINE w1 == [u EXCEPT !.c.query = asked]
           w == [w1 EXCEPT !.c.status = "resolving"]
           v == SetTimeout(w, n)
<1>2. r = [u |-> v, ret |-> 0]
  BY <1>1
<1>3. Alike(u, w1, {"query"})
  BY Writes
<1> HIDE DEF w1
<1>4. Alike(w1, w, {"status"}) /\ w.c.status = "resolving"
  <2>1. Shaped(w1)
    BY <1>3 DEF Alike
  <2> QED
    BY <1>3, <2>1, Writes
<1> HIDE DEF w
<1>5. Alike(u, w, {"query", "status"})
  BY <1>3, <1>4 DEF Alike
<1>6. /\ Alike(w, v, {"st", "timer"}) /\ v.c.timer # NoTimer
      /\ Carries(s0, n, v.st, v.c.timer) /\ v.st.at[v.c.timer].call = "timeout"
  BY <1>5, SetTimeoutFacts DEF Alike
<1> HIDE DEF v
<1>7. /\ Shaped(v) /\ v.c.status = "resolving" /\ v.c.fd = "none" /\ v.c.active = u.c.active
      /\ v.out = u.out
  BY <1>4, <1>5, <1>6 DEF Alike
<1>8. BlockOK(v.c) /\ CallOK(v.st, v.c)
  BY <1>6, <1>7 DEF BlockOK, CallOK, Shaped
<1>9. Leaves(s0, n, v, u.out)
  BY <1>6, <1>7, <1>8 DEF Leaves, Strays, Shaped
<1> QED
  BY <1>2, <1>7, <1>9

(* What is the same is a fine way to leave a block.                        *)
LEMMA SameLeaves ==
  ASSUME ConnInv, NEW n \in Conn
  PROVE  Leaves(tm, n, Of(n), Strays(cn[n], out[n])) /\ QueryStep(n, cn[n], cn[n])
<1>1. /\ Shaped(Of(n)) /\ Of(n).st = tm /\ Of(n).c = cn[n] /\ Of(n).out = out[n]
      /\ Carries(tm, n, tm, cn[n].timer) /\ BlockOK(cn[n]) /\ CallOK(tm, cn[n])
  BY OfFacts
<1> QED
  BY <1>1 DEF Leaves, QueryStep, Shaped

(* connect_start.                                                          *)
LEMMA StartLeaves ==
  ASSUME ~FailAtOnce, ConnInv, NEW n \in Conn, NEW r \in Start(Of(n), n)
  PROVE  /\ r.ret = 0 /\ Leaves(tm, n, r.u, Strays(cn[n], out[n]))
         /\ QueryStep(n, cn[n], r.u.c)
<1> DEFINE u == Of(n)
<1>1. /\ Shaped(u) /\ u.st = tm /\ u.c = cn[n] /\ u.out = out[n]
      /\ Carries(tm, n, tm, cn[n].timer) /\ BlockOK(cn[n]) /\ CallOK(tm, cn[n])
  BY OfFacts
<1>2. CASE u.c.status # "idle"
  <2>1. r = [u |-> u, ret |-> 0]
    BY <1>2 DEF Start
  <2> QED
    BY <1>1, <2>1, SameLeaves
<1>3. CASE u.c.status = "idle"
  <2> DEFINE w == [u EXCEPT !.c.active = TRUE]
             v == DropTimer(w)
  <2>1. r \in IF n \in Named THEN Resolve(v, n) ELSE Initiate(v, n)
    BY <1>3 DEF Start
  <2> HIDE DEF u
  <2>2. Alike(u, w, {"active"}) /\ w.c.active = TRUE
    BY <1>1, Writes
  <2> HIDE DEF w
  <2>3. Shaped(w) /\ Carries(tm, n, w.st, w.c.timer)
    BY <1>1, <2>2 DEF Alike
  <2>4. /\ Alike(w, v, {"st", "timer"}) /\ v.c.timer = NoTimer
        /\ Carries(tm, n, v.st, NoTimer)
    BY <2>3, DropTimerFacts
  <2> HIDE DEF v
  <2>5. /\ Shaped(v) /\ v.c.active = TRUE /\ v.c.fd = "none" /\ v.out = out[n]
        /\ v.c.query = cn[n].query /\ Strays(cn[n], out[n]) = out[n]
    <3>1. cn[n].status = "idle" /\ cn[n].fd \in {"none", "out", "link"} /\ out[n] \in Int
      BY <1>1, <1>3 DEF BlockOK, ConnBlock, Shaped, u
    <3>2. cn[n].fd = "none"
      BY <1>1, <3>1 DEF BlockOK
    <3>3. Strays(cn[n], out[n]) = out[n]
      BY <3>1, <3>2 DEF Strays
    <3>4. w.c.fd = "none" /\ w.out = out[n] /\ w.c.query = cn[n].query /\ w.c.active = TRUE
      BY <1>1, <2>2, <3>2 DEF Alike
    <3>5. Shaped(v) /\ v.c.active = w.c.active /\ v.c.fd = w.c.fd /\ v.out = w.out /\ v.c.query = w.c.query
      BY <2>4 DEF Alike
    <3> QED
      BY <3>3, <3>4, <3>5
  <2>6. CASE n \in Named
    <3>1. r \in Resolve(v, n)
      BY <2>1, <2>6
    <3>2. r.ret = 0 /\ Leaves(tm, n, r.u, v.out) /\ r.u.c.status = "resolving"
      BY <2>4, <2>5, <3>1, ResolveFacts
    <3> QED
      BY <1>1, <1>3, <2>5, <2>6, <3>2 DEF QueryStep
  <2>7. CASE n \notin Named
    <3>1. r \in Initiate(v, n)
      BY <2>1, <2>7
    <3>2. v.c.timer # NoTimer => v.st.at[v.c.timer].call = "timeout"
      BY <2>4
    <3>3. Carries(tm, n, v.st, v.c.timer)
      BY <2>4
    <3>4. /\ r.ret = 0 /\ Leaves(tm, n, r.u, v.out)
          /\ r.u.c.status = "connecting" /\ r.u.c.query = v.c.query
      BY <2>5, <3>1, <3>2, <3>3, InitiateFacts
    <3> QED
      BY <1>1, <1>3, <2>5, <3>4 DEF QueryStep
  <2> QED
    BY <2>6, <2>7
<1> QED
  BY <1>2, <1>3

(* A block that was dropped and has neither timer nor socket: it is tried  *)
(* again, or left alone.                                                   *)
LEMMA RetryLeaves ==
  ASSUME NEW u, Shaped(u), NEW s0, NEW n \in Conn, Carries(s0, n, u.st, NoTimer),
         u.c.timer = NoTimer, u.c.fd = "none",
         ~u.c.active => u.c.status \in {"idle", "error", "done"}
  PROVE  /\ Leaves(s0, n, Retry(u, n), u.out) /\ Retry(u, n).c.query = u.c.query
         /\ Retry(u, n).c.status = IF u.c.active THEN "idle" ELSE u.c.status
<1> DEFINE v == Retry(u, n)
<1>0. u.c \in ConnBlock /\ u.out \in Int /\ u.c.active \in BOOLEAN
  BY DEF Shaped, ConnBlock
<1>1. CASE u.c.active
  <2>1. /\ Alike(u, v, {"st", "status", "timer"}) /\ v.c.status = "idle" /\ v.c.timer # NoTimer
        /\ Carries(s0, n, v.st, v.c.timer) /\ v.st.at[v.c.timer].call = "start"
    BY <1>1, RetryFacts
  <2> HIDE DEF v
  <2>2. /\ v.c \in ConnBlock /\ v.out = u.out /\ v.c.fd = "none" /\ v.c.active = u.c.active
        /\ v.c.query = u.c.query /\ Shaped(v)
    BY <2>1 DEF Alike, Shaped
  <2>3. BlockOK(v.c) /\ CallOK(v.st, v.c)
    BY <1>1, <2>1, <2>2 DEF BlockOK, CallOK
  <2>4. Leaves(s0, n, v, u.out)
    BY <1>0, <2>1, <2>2, <2>3 DEF Leaves, Strays
  <2> QED
    BY <1>1, <2>1, <2>2, <2>4 DEF v
<1>2. CASE ~u.c.active
  <2>1. v = u
    BY <1>2, RetryFacts
  <2>2. BlockOK(u.c) /\ CallOK(u.st, u.c)
    BY <1>0, <1>2 DEF BlockOK, CallOK
  <2>3. Leaves(s0, n, u, u.out)
    BY <1>0, <2>2 DEF Leaves, Strays
  <2> QED
    BY <1>2, <2>1, <2>3
<1> QED
  BY <1>0, <1>1, <1>2

(* connect_timeout.                                                        *)
LEMMA TimeoutLeaves ==
  ASSUME ConnInv, NEW n \in Conn, cn[n].active, NEW r \in Timeout(Of(n), n)
  PROVE  /\ r.ret = 0 /\ Leaves(tm, n, r.u, Strays(cn[n], out[n]))
         /\ QueryStep(n, cn[n], r.u.c)
<1> DEFINE u == Of(n)
           w1 == DropFd(u, n)
           w == [w1 EXCEPT !.c.query = FALSE]
           v == DropTimer(w)
<1>1. /\ Shaped(u) /\ u.st = tm /\ u.c = cn[n] /\ u.out = out[n]
      /\ Carries(tm, n, tm, cn[n].timer)
  BY OfFacts
<1>2. r = [u |-> Retry(v, n), ret |-> 0]
  BY DEF Timeout
<1> HIDE DEF u
<1>3. Alike(u, w1, {"fd", "out"}) /\ w1.c.fd = "none" /\ w1.out = Strays(u.c, u.out)
  BY <1>1, DropFdFacts
<1> HIDE DEF w1
<1>4. Shaped(w1)
  BY <1>3 DEF Alike
<1>5. Alike(w1, w, {"query"}) /\ w.c.query = FALSE
  BY <1>4, Writes
<1> HIDE DEF w
<1>6. Shaped(w) /\ Carries(tm, n, w.st, w.c.timer)
  BY <1>1, <1>3, <1>5 DEF Alike
<1>7. /\ Alike(w, v, {"st", "timer"}) /\ v.c.timer = NoTimer
      /\ Carries(tm, n, v.st, NoTimer)
  BY <1>6, DropTimerFacts
<1> HIDE DEF v
<1>8. /\ Shaped(v) /\ v.c.fd = "none" /\ v.c.active = cn[n].active /\ v.c.query = FALSE
      /\ v.out = Strays(cn[n], out[n])
  BY <1>1, <1>3, <1>5, <1>7 DEF Alike
<1>9. /\ Leaves(tm, n, Retry(v, n), v.out) /\ Retry(v, n).c.query = v.c.query
      /\ Retry(v, n).c.status = IF v.c.active THEN "idle" ELSE v.c.status
  BY <1>7, <1>8, RetryLeaves
<1>10. QueryStep(n, cn[n], Retry(v, n).c)
  BY <1>8, <1>9 DEF QueryStep
<1> QED
  BY <1>2, <1>8, <1>9, <1>10

(* connect_cancel, of a block whose socket is k sockets beside others.     *)
LEMMA CancelFacts2 ==
  ASSUME NEW u, Shaped(u), NEW s0, NEW n \in Conn, Carries(s0, n, u.st, u.c.timer)
  PROVE  /\ Shaped(Cancel(u, n)) /\ Carries(s0, n, Cancel(u, n).st, NoTimer)
         /\ Cancel(u, n).c.timer = NoTimer /\ Cancel(u, n).c.fd = "none"
         /\ Cancel(u, n).c.query = FALSE /\ Cancel(u, n).c.active = FALSE
         /\ Cancel(u, n).c.status = "idle" /\ Cancel(u, n).out = Strays(u.c, u.out)
<1> DEFINE w1 == DropFd(u, n)
           v == DropTimer(w1)
           w2 == [v EXCEPT !.c.query = FALSE]
           w3 == [w2 EXCEPT !.c.active = FALSE]
           w4 == [w3 EXCEPT !.c.status = "idle"]
<1>1. Cancel(u, n) = w4
  BY DEF Cancel
<1>2. Alike(u, w1, {"fd", "out"}) /\ w1.c.fd = "none" /\ w1.out = Strays(u.c, u.out)
  BY DropFdFacts
<1> HIDE DEF w1
<1>3. Shaped(w1) /\ Carries(s0, n, w1.st, w1.c.timer)
  BY <1>2 DEF Alike
<1>4. /\ Alike(w1, v, {"st", "timer"}) /\ v.c.timer = NoTimer
      /\ Carries(s0, n, v.st, NoTimer)
  BY <1>3, DropTimerFacts
<1> HIDE DEF v
<1>5. Shaped(v)
  BY <1>4 DEF Alike
<1>6. Alike(v, w2, {"query"}) /\ w2.c.query = FALSE
  BY <1>5, Writes
<1> HIDE DEF w2
<1>7. Shaped(w2)
  BY <1>6 DEF Alike
<1>8. Alike(w2, w3, {"active"}) /\ w3.c.active = FALSE
  BY <1>7, Writes
<1> HIDE DEF w3
<1>9. Shaped(w3)
  BY <1>8 DEF Alike
<1>10. Alike(w3, w4, {"status"}) /\ w4.c.status = "idle"
  BY <1>9, Writes
<1> HIDE DEF w4
<1> QED
  BY <1>1, <1>2, <1>4, <1>6, <1>8, <1>10 DEF Alike

(* connect_read, when the socket was closed.                               *)
LEMMA FailedLeaves ==
  ASSUME ConnInv, NEW n \in Conn, cn[n].fd = "out"
  PROVE  /\ Leaves(tm, n, Failed(Of(n), n), Strays(cn[n], out[n]))
         /\ QueryStep(n, cn[n], Failed(Of(n), n).c)
<1> DEFINE u == Of(n)
           w1 == CloseFd(u)
           w == [w1 EXCEPT !.c.status = "error"]
           v == DropTimer(w)
<1>1. /\ Shaped(u) /\ u.st = tm /\ u.c = cn[n] /\ u.out = out[n]
      /\ Carries(tm, n, tm, cn[n].timer) /\ BlockOK(cn[n])
  BY OfFacts
<1>2. Failed(u, n) = Retry(v, n)
  BY DEF Failed
<1> HIDE DEF u
<1>3. Alike(u, w1, {"fd", "out"}) /\ w1.c.fd = "none" /\ w1.out = Strays(u.c, u.out)
  BY <1>1, CloseFdFacts
<1> HIDE DEF w1
<1>4. Shaped(w1)
  BY <1>3 DEF Alike
<1>5. Alike(w1, w, {"status"}) /\ w.c.status = "error"
  BY <1>4, Writes
<1> HIDE DEF w
<1>6. Shaped(w) /\ Carries(tm, n, w.st, w.c.timer)
  BY <1>1, <1>3, <1>5 DEF Alike
<1>7. /\ Alike(w, v, {"st", "timer"}) /\ v.c.timer = NoTimer
      /\ Carries(tm, n, v.st, NoTimer)
  BY <1>6, DropTimerFacts
<1> HIDE DEF v
<1>8. /\ Shaped(v) /\ v.c.fd = "none" /\ v.c.status = "error" /\ v.c.query = cn[n].query
      /\ v.out = Strays(cn[n], out[n])
  BY <1>1, <1>3, <1>5, <1>7 DEF Alike
<1>9. /\ Leaves(tm, n, Retry(v, n), v.out) /\ Retry(v, n).c.query = v.c.query
      /\ Retry(v, n).c.status = IF v.c.active THEN "idle" ELSE v.c.status
  BY <1>7, <1>8, RetryLeaves
<1>10. cn[n].status = "connecting"
  BY <1>1 DEF BlockOK
<1>11. QueryStep(n, cn[n], Retry(v, n).c)
  BY <1>8, <1>9, <1>10 DEF QueryStep
<1> QED
  BY <1>2, <1>8, <1>9, <1>11 DEF u

-----------------------------------------------------------------------------
(* The steps.                                                              *)

\* Where timer_run is: at a timer of the list, with the next one.
TourOK(s, w) ==
  /\ w = [cur |-> w.cur, next |-> w.next] /\ w.cur \in Slot \cup {NoTimer}
  /\ w.cur # NoTimer => Listed(s, w.cur)
  /\ w.next = After(s, w.cur)

\* Nobody else's block is touched, and its own query only as it should be.
Moves(n) ==
  QueryStep(n, cn[n], cn'[n]) /\ \A m \in Conn \ {n} : cn'[m] = cn[m]

(* A step of one block leaves the timers of the others alone.              *)
LEMMA OthersKeep ==
  ASSUME NEW n \in Conn, NEW m \in Conn \ {n}, NEW s, NEW s2, Stored(s2), Others(s, s2, n),
         NEW c, c.timer \in Slot \cup {NoTimer}, Mine(s, m, c.timer), CallOK(s, c)
  PROVE  Mine(s2, m, c.timer) /\ CallOK(s2, c)
<1>0. Range(s2.list) \subseteq Slot
  BY StoreFacts
<1>1. CASE c.timer = NoTimer
  <2>1. \A y \in Range(s.list) : s.at[y].arg # m
    BY <1>1 DEF Mine
  <2>2. \A y \in Range(s2.list) : s2.at[y].arg # m
    BY <1>0, <2>1 DEF Others, Listed
  <2> QED
    BY <1>1, <2>2 DEF Mine, CallOK
<1>2. CASE c.timer # NoTimer
  <2>1. Listed(s, c.timer) /\ s.at[c.timer].arg = m /\ c.timer \in Slot
    BY <1>2 DEF Mine
  <2>2. /\ Listed(s2, c.timer) /\ s2.at[c.timer].arg = m
        /\ s2.at[c.timer].call = s.at[c.timer].call
    BY <2>1 DEF Others
  <2> QED
    BY <1>2, <2>2 DEF Mine, CallOK
<1> QED
  BY <1>1, <1>2

LEMMA PutKeeps ==
  ASSUME ConnInv, NEW n \in Conn, NEW u, NEW k \in {0, 1}, Leaves(tm, n, u, k),
         Put(n, u), TourOK(tm', tour'),
         k = 1 => n \in crossed', crossed \subseteq crossed', crossed' \subseteq Conn,
         linked' \subseteq Conn, held' \in [Conn -> 0 .. MaxHeld]
  PROVE  /\ ConnInv' /\ cn'[n] = u.c /\ \A m \in Conn \ {n} : cn'[m] = cn[m]
         /\ QueryStep(n, cn[n], u.c) => Moves(n)
<1>0. tm' = u.st /\ cn' = [cn EXCEPT ![n] = u.c] /\ out' = [out EXCEPT ![n] = u.out] /\ shut' = u.shut
  BY Zenon DEF Put
<1>1. /\ tm' = u.st /\ cn' = [cn EXCEPT ![n] = u.c] /\ out' = [out EXCEPT ![n] = u.out]
      /\ shut' \subseteq Conn
  BY <1>0 DEF Leaves, Shaped
<1>2. /\ Stored(u.st) /\ OnePerBlock(u.st) /\ Others(tm, u.st, n) /\ Mine(u.st, n, u.c.timer)
      /\ BlockOK(u.c) /\ CallOK(u.st, u.c) /\ u.out \in Int /\ Strays(u.c, u.out) = k
      /\ u.c \in ConnBlock
  BY DEF Leaves, Carries, BlockOK
<1>3. /\ cn \in [Conn -> ConnBlock] /\ out \in [Conn -> Int]
      /\ cn' \in [Conn -> ConnBlock] /\ out' \in [Conn -> Int]
      /\ cn'[n] = u.c /\ out'[n] = u.out
      /\ \A m \in Conn \ {n} : cn'[m] = cn[m] /\ out'[m] = out[m]
  BY <1>1, <1>2 DEF ConnInv
<1>4. Stored(tm') /\ OnePerBlock(tm')
  BY <1>1, <1>2
<1>5. ASSUME NEW m \in Conn
      PROVE  /\ BlockOK(cn'[m]) /\ Mine(tm', m, cn'[m].timer) /\ CallOK(tm', cn'[m])
             /\ Strays(cn'[m], out'[m]) \in {0, 1}
             /\ Strays(cn'[m], out'[m]) = 1 => m \in crossed'
  <2>1. CASE m = n
    BY <1>1, <1>2, <1>3, <2>1
  <2>2. CASE m # n
    <3>1. /\ BlockOK(cn[m]) /\ Mine(tm, m, cn[m].timer) /\ CallOK(tm, cn[m])
          /\ Strays(cn[m], out[m]) \in {0, 1}
          /\ Strays(cn[m], out[m]) = 1 => m \in crossed
      BY DEF ConnInv
    <3>2. cn'[m] = cn[m] /\ out'[m] = out[m] /\ cn[m].timer \in Slot \cup {NoTimer}
      BY <1>3, <2>2, <3>1 DEF BlockOK, ConnBlock
    <3>3. Mine(u.st, m, cn[m].timer) /\ CallOK(u.st, cn[m])
      BY <1>2, <2>2, <3>1, <3>2, OthersKeep
    <3> QED
      BY <1>1, <3>1, <3>2, <3>3
  <2> QED
    BY <2>1, <2>2
<1>6. QueryStep(n, cn[n], u.c) => Moves(n)
  BY <1>3 DEF Moves
<1>7. /\ tour' = [cur |-> tour'.cur, next |-> tour'.next] /\ tour'.cur \in Slot \cup {NoTimer}
      /\ tour'.cur # NoTimer => Listed(tm', tour'.cur)
      /\ tour'.next = After(tm', tour'.cur)
  BY DEF TourOK
<1> QED
  BY <1>1, <1>3, <1>4, <1>5, <1>6, <1>7 DEF ConnInv

\* timer_run is not under way, and stays so.
LEMMA IdleTour ==
  ASSUME tour = Idle, tour' = tour
  PROVE  TourOK(tm', tour')
BY DEF TourOK, Idle, After

(* connect_write.                                                          *)
LEMMA EstablishedKeeps ==
  ASSUME ConnInv, NEW n \in Conn, Established(n)
  PROVE  ConnInv' /\ Moves(n)
<1> DEFINE u == Of(n)
           v == DropTimer(u)
           w1 == [v EXCEPT !.c.status = "done"]
           w2 == [w1 EXCEPT !.c.fd = "none"]
           w == [w2 EXCEPT !.out = v.out - 1]
           k == Strays(cn[n], out[n])
<1>0. /\ tour = Idle /\ tour' = tour /\ cn[n].status = "connecting" /\ held[n] < MaxHeld
      /\ held' = [held EXCEPT ![n] = held[n] + 1] /\ linked' = linked /\ crossed' = crossed
  BY DEF Established, Between
<1>1. Put(n, w)
  BY DEF Established
<1>2. /\ Shaped(u) /\ u.st = tm /\ u.c = cn[n] /\ u.out = out[n]
      /\ Carries(tm, n, tm, cn[n].timer) /\ BlockOK(cn[n])
  BY OfFacts
<1> HIDE DEF u
<1>3. /\ Alike(u, v, {"st", "timer"}) /\ v.c.timer = NoTimer /\ Carries(tm, n, v.st, NoTimer)
  BY <1>2, DropTimerFacts
<1> HIDE DEF v
<1>4. Shaped(v)
  BY <1>3 DEF Alike
<1>5. Alike(v, w1, {"status"}) /\ w1.c.status = "done"
  BY <1>4, Writes
<1> HIDE DEF w1
<1>6. Shaped(w1)
  BY <1>5 DEF Alike
<1>7. Alike(w1, w2, {"fd"}) /\ w2.c.fd = "none"
  BY <1>6, Writes
<1> HIDE DEF w2
<1>8. Shaped(w2) /\ v.out - 1 \in Int
  BY <1>4, <1>7 DEF Alike, Shaped
<1>9. Alike(w2, w, {"out"}) /\ w.out = v.out - 1
  BY <1>8, WriteOut
<1> HIDE DEF w
<1>10. /\ Shaped(w) /\ w.st = v.st /\ w.c.timer = NoTimer /\ w.c.status = "done" /\ w.c.fd = "none"
       /\ w.out = out[n] - 1 /\ w.c.query = cn[n].query
  BY <1>2, <1>3, <1>5, <1>7, <1>9 DEF Alike
<1>11. cn[n].fd = "out" /\ out[n] \in Int
  BY <1>0, <1>2 DEF BlockOK, Shaped
<1>12. k \in {0, 1} /\ (k = 1 => n \in crossed) /\ k = out[n] - 1
  BY <1>11 DEF ConnInv, Strays
<1>13. BlockOK(w.c) /\ CallOK(w.st, w.c)
  BY <1>10 DEF BlockOK, CallOK, Shaped
<1>14. Leaves(tm, n, w, k)
  BY <1>3, <1>10, <1>11, <1>12, <1>13 DEF Leaves, Strays
<1>15. QueryStep(n, cn[n], w.c)
  BY <1>0, <1>10 DEF QueryStep
<1>16. held' \in [Conn -> 0 .. MaxHeld] /\ linked' \subseteq Conn /\ crossed' \subseteq Conn
  BY <1>0, ConnectsAssumption DEF ConnectsAssumption, ConnInv
<1>17. TourOK(tm', tour')
  BY <1>0, IdleTour
<1> HIDE DEF k
<1> QED
  BY <1>0, <1>1, <1>12, <1>14, <1>15, <1>16, <1>17, PutKeeps

(* connect_read.                                                           *)
LEMMA RefusedKeeps ==
  ASSUME ConnInv, NEW n \in Conn, Refused(n)
  PROVE  ConnInv' /\ Moves(n)
<1> DEFINE k == Strays(cn[n], out[n])
           w == Failed(Of(n), n)
<1>1. /\ tour = Idle /\ tour' = tour /\ cn[n].fd = "out" /\ Put(n, w)
      /\ held' = held /\ linked' = linked /\ crossed' = crossed
  BY DEF Refused, Between
<1>2. k \in {0, 1} /\ (k = 1 => n \in crossed) /\ held \in [Conn -> 0 .. MaxHeld]
      /\ linked \subseteq Conn /\ crossed \subseteq Conn
  BY DEF ConnInv
<1>3. Leaves(tm, n, w, k) /\ QueryStep(n, cn[n], w.c)
  BY <1>1, FailedLeaves
<1>4. TourOK(tm', tour')
  BY <1>1, IdleTour
<1> HIDE DEF k, w
<1> QED
  BY <1>1, <1>2, <1>3, <1>4, PutKeeps

(* connect_sauth, and connect_start for an operator or a timer.            *)
LEMMA OperConnectKeeps ==
  ASSUME ~FailAtOnce, ConnInv, NEW n \in Conn, OperConnect(n)
  PROVE  ConnInv' /\ Moves(n)
<1> DEFINE k == Strays(cn[n], out[n])
<1>1. /\ tour = Idle /\ tour' = tour /\ held' = held /\ linked' = linked /\ crossed' = crossed
      /\ \E r \in Start(Of(n), n) : Put(n, r.u)
  BY DEF OperConnect, Between
<1>2. PICK r \in Start(Of(n), n) : Put(n, r.u)
  BY <1>1
<1>3. k \in {0, 1} /\ (k = 1 => n \in crossed) /\ held \in [Conn -> 0 .. MaxHeld]
      /\ linked \subseteq Conn /\ crossed \subseteq Conn
  BY DEF ConnInv
<1>4. Leaves(tm, n, r.u, k) /\ QueryStep(n, cn[n], r.u.c)
  BY StartLeaves
<1>5. TourOK(tm', tour')
  BY <1>1, IdleTour
<1> HIDE DEF k
<1> QED
  BY <1>1, <1>2, <1>3, <1>4, <1>5, PutKeeps

LEMMA AnsweredKeeps ==
  ASSUME ~FailAtOnce, ConnInv, NEW n \in Conn, Answered(n)
  PROVE  /\ ConnInv' /\ \A m \in Conn \ {n} : cn'[m] = cn[m]
         /\ cn'[n].status = "connecting" /\ cn'[n].query = cn[n].query
<1> DEFINE k == Strays(cn[n], out[n])
           u == Of(n)
<1>1. /\ tour = Idle /\ tour' = tour /\ held' = held /\ linked' = linked /\ crossed' = crossed
      /\ cn[n].query /\ cn[n].status = "resolving"
      /\ \E r \in Initiate(u, n) : Put(n, r.u)
  BY DEF Answered, Between
<1>2. PICK r \in Initiate(u, n) : Put(n, r.u)
  BY <1>1
<1>3. k \in {0, 1} /\ (k = 1 => n \in crossed) /\ held \in [Conn -> 0 .. MaxHeld]
      /\ linked \subseteq Conn /\ crossed \subseteq Conn /\ cn \in [Conn -> ConnBlock]
  BY DEF ConnInv
<1>4. /\ Shaped(u) /\ u.st = tm /\ u.c = cn[n] /\ u.out = out[n]
      /\ Carries(tm, n, tm, cn[n].timer) /\ BlockOK(cn[n]) /\ CallOK(tm, cn[n])
  BY OfFacts
<1> HIDE DEF u
<1>5. u.c.active /\ u.c.fd = "none" /\ u.out = k
  <2>1. cn[n].active /\ cn[n].fd # "out" /\ cn[n].fd # "link"
    BY <1>1, <1>4 DEF BlockOK
  <2>2. cn[n].fd \in {"none", "out", "link"} /\ out[n] \in Int
    BY <1>4 DEF BlockOK, ConnBlock, Shaped
  <2> QED
    BY <1>4, <2>1, <2>2 DEF Strays
<1>6. u.c.timer # NoTimer => u.st.at[u.c.timer].call = "timeout"
  BY <1>1, <1>4 DEF CallOK
<1>7. Carries(tm, n, u.st, u.c.timer)
  BY <1>4
<1>8. /\ Leaves(tm, n, r.u, u.out) /\ r.u.c.status = "connecting" /\ r.u.c.query = u.c.query
  BY <1>4, <1>5, <1>6, <1>7, InitiateFacts
<1>9. TourOK(tm', tour')
  BY <1>1, IdleTour
<1> HIDE DEF k
<1>10. Leaves(tm, n, r.u, k)
  BY <1>5, <1>8
<1>11. ConnInv' /\ cn'[n] = r.u.c /\ \A m \in Conn \ {n} : cn'[m] = cn[m]
  BY <1>1, <1>2, <1>3, <1>9, <1>10, PutKeeps
<1> QED
  BY <1>4, <1>8, <1>11

(* connect_read on a socket the block has lost.                            *)
LEMMA LateRefusedKeeps ==
  ASSUME ConnInv, NEW n \in Conn, LateRefused(n)
  PROVE  ConnInv' /\ Moves(n)
<1> DEFINE d == DropFd(Of(n), n)
           u == [d EXCEPT !.out = d.out - 1]
           e == [u EXCEPT !.c.status = "error"]
           v == DropTimer(e)
<1>1. /\ tour = Idle /\ tour' = tour /\ linked' = linked /\ crossed' = crossed /\ n \in crossed
      /\ out[n] > (IF cn[n].fd = "out" THEN 1 ELSE 0)
      /\ IF cn[n].fd = "none" THEN Put(n, u) ELSE Put(n, Retry(v, n))
      /\ cn[n].fd = "link" => held[n] < MaxHeld
      /\ held' = IF cn[n].fd = "link" THEN [held EXCEPT ![n] = held[n] + 1] ELSE held
  BY DEF LateRefused, Between
<1>2. /\ Shaped(Of(n)) /\ Of(n).st = tm /\ Of(n).c = cn[n] /\ Of(n).out = out[n]
      /\ Carries(tm, n, tm, cn[n].timer) /\ BlockOK(cn[n]) /\ CallOK(tm, cn[n])
  BY OfFacts
<1>3. Alike(Of(n), d, {"fd", "out"}) /\ d.c.fd = "none" /\ d.out = Strays(cn[n], out[n])
  BY <1>2, DropFdFacts
<1>4. DropFd(Of(n), n) = d
  OBVIOUS
<1> HIDE DEF d
<1>5. Strays(cn[n], out[n]) = 1
  BY <1>1, <1>2 DEF ConnInv, Strays, Shaped
<1>6. Shaped(d) /\ d.out - 1 \in Int /\ d.out - 1 = 0
  BY <1>3, <1>5 DEF Alike
<1>7. Alike(d, u, {"out"}) /\ u.out = 0
  BY <1>6, WriteOut
<1> HIDE DEF u
<1>8. /\ Shaped(u) /\ u.st = tm /\ u.c.timer = cn[n].timer /\ u.c.fd = "none" /\ u.out = 0
      /\ u.c.status = cn[n].status /\ u.c.active = cn[n].active /\ u.c.query = cn[n].query
  BY <1>2, <1>3, <1>7 DEF Alike
<1>9. held' \in [Conn -> 0 .. MaxHeld] /\ linked' \subseteq Conn /\ crossed' \subseteq Conn
  BY <1>1, ConnectsAssumption DEF ConnectsAssumption, ConnInv
<1>10. TourOK(tm', tour')
  BY <1>1, IdleTour
<1>11. CASE cn[n].fd = "none"
  <2>1. cn[n].fd # "out" /\ cn[n].status # "connecting"
    BY <1>2, <1>11 DEF BlockOK
  <2>2. BlockOK(u.c) /\ CallOK(u.st, u.c)
    BY <1>2, <1>8, <2>1 DEF BlockOK, CallOK, Shaped
  <2>3. Leaves(tm, n, u, 0)
    BY <1>2, <1>8, <2>2 DEF Leaves, Strays
  <2>4. QueryStep(n, cn[n], u.c)
    BY <1>8 DEF QueryStep
  <2> QED
    BY <1>1, <1>9, <1>10, <1>11, <2>3, <2>4, PutKeeps
<1>12. CASE cn[n].fd # "none"
  <2>0. cn[n].status \in {"connecting", "done"}
    BY <1>2, <1>12 DEF BlockOK, ConnBlock
  <2>1. Alike(u, e, {"status"}) /\ e.c.status = "error"
    BY <1>8, Writes
  <2> HIDE DEF e
  <2>2. Shaped(e) /\ Carries(tm, n, e.st, e.c.timer)
    BY <1>2, <1>8, <2>1 DEF Alike
  <2>3. /\ Alike(e, v, {"st", "timer"}) /\ v.c.timer = NoTimer
        /\ Carries(tm, n, v.st, NoTimer)
    BY <2>2, DropTimerFacts
  <2> HIDE DEF v
  <2>4. /\ Shaped(v) /\ v.c.fd = "none" /\ v.c.status = "error" /\ v.c.query = cn[n].query
        /\ v.out = 0
    BY <1>8, <2>1, <2>3 DEF Alike
  <2>5. /\ Leaves(tm, n, Retry(v, n), v.out) /\ Retry(v, n).c.query = v.c.query
        /\ Retry(v, n).c.status = IF v.c.active THEN "idle" ELSE v.c.status
    BY <2>3, <2>4, RetryLeaves
  <2>6. QueryStep(n, cn[n], Retry(v, n).c)
    BY <2>0, <2>4, <2>5 DEF QueryStep
  <2>7. Leaves(tm, n, Retry(v, n), 0) /\ Put(n, Retry(v, n))
    BY <1>1, <1>12, <2>4, <2>5
  <2> QED
    BY <1>1, <1>9, <1>10, <2>6, <2>7, PutKeeps
<1> QED
  BY <1>11, <1>12

(* connect_cancel, in lclient_vexit.                                       *)
LEMMA LostKeeps ==
  ASSUME ConnInv, NEW n \in Conn, Lost(n)
  PROVE  ConnInv' /\ Moves(n)
<1> DEFINE u == Of(n)
           v == Cancel(u, n)
           k == Strays(cn[n], out[n])
<1>1. /\ tour = Idle /\ tour' = tour /\ crossed' = crossed /\ held[n] > 0
      /\ held' = [held EXCEPT ![n] = held[n] - 1]
      /\ linked' \in (IF held[n] = 1 THEN {linked \ {n}} ELSE {linked, linked \ {n}})
      /\ Put(n, Retry(v, n))
  BY DEF Lost, Between
<1>2. /\ Shaped(u) /\ u.st = tm /\ u.c = cn[n] /\ u.out = out[n]
      /\ Carries(tm, n, u.st, u.c.timer)
  BY OfFacts
<1> HIDE DEF u
<1>3. /\ Shaped(v) /\ Carries(tm, n, v.st, NoTimer)
      /\ v.c.timer = NoTimer /\ v.c.fd = "none" /\ v.c.query = FALSE /\ v.c.active = FALSE
      /\ v.c.status = "idle" /\ v.out = Strays(u.c, u.out)
  BY <1>2, CancelFacts2
<1> HIDE DEF v
<1>4. /\ Leaves(tm, n, Retry(v, n), v.out) /\ Retry(v, n).c.query = v.c.query
      /\ Retry(v, n).c.status = IF v.c.active THEN "idle" ELSE v.c.status
  BY <1>3, RetryLeaves
<1>5. QueryStep(n, cn[n], Retry(v, n).c)
  BY <1>3, <1>4 DEF QueryStep
<1>6. k \in {0, 1} /\ (k = 1 => n \in crossed)
  BY DEF ConnInv
<1>7. Leaves(tm, n, Retry(v, n), k)
  BY <1>2, <1>3, <1>4
<1>8. held' \in [Conn -> 0 .. MaxHeld] /\ linked' \subseteq Conn /\ crossed' \subseteq Conn
  BY <1>1, ConnectsAssumption DEF ConnectsAssumption, ConnInv
<1>9. TourOK(tm', tour')
  BY <1>1, IdleTour
<1> HIDE DEF k
<1> QED
  BY <1>1, <1>5, <1>6, <1>7, <1>8, <1>9, PutKeeps

(* server_login.                                                           *)
LEMMA LoginKeeps ==
  ASSUME ConnInv, NEW n \in Conn, NEW own \in BOOLEAN, NEW ok \in BOOLEAN, Login(n, own, ok)
  PROVE  ConnInv' /\ Moves(n)
<1> DEFINE f == [Of(n) EXCEPT !.c.fd = "none"]
           u == Cancel(f, n)
           w == [u EXCEPT !.c.fd = "link"]
           v == [w EXCEPT !.c.status = "done"]
           x == Cancel(v, n)
           y == Retry(x, n)
           k == out[n]
<1>1. /\ tour = Idle /\ tour' = tour
      /\ IF own THEN held[n] > 0 ELSE held[n] < MaxHeld
      /\ n \in crossed => out[n] = 0
      /\ held' = [held EXCEPT ![n] =
                    IF own = ok THEN held[n] ELSE IF ok THEN held[n] + 1 ELSE held[n] - 1]
      /\ linked' = (IF ok THEN linked \cup {n} ELSE linked)
      /\ crossed' = (IF out[n] > 0 THEN crossed \cup {n} ELSE crossed)
  BY DEF Login, Between
<1>2. Put(n, IF own /\ ~ok THEN y ELSE v)
  <2>1. v = [u EXCEPT !.c.fd = "link", !.c.status = "done"]
    OBVIOUS
  <2> QED
    BY <2>1 DEF Login
<1>3. /\ Shaped(Of(n)) /\ Of(n).st = tm /\ Of(n).c = cn[n] /\ Of(n).out = out[n]
      /\ Carries(tm, n, tm, cn[n].timer) /\ BlockOK(cn[n])
  BY OfFacts
<1>4. Alike(Of(n), f, {"fd"}) /\ f.c.fd = "none"
  BY <1>3, Writes
<1> HIDE DEF f
<1>5. Shaped(f) /\ Carries(tm, n, f.st, f.c.timer) /\ Strays(f.c, f.out) = out[n]
  BY <1>3, <1>4 DEF Alike, Strays, Shaped
<1>6. /\ Shaped(u) /\ Carries(tm, n, u.st, NoTimer)
      /\ u.c.timer = NoTimer /\ u.c.fd = "none" /\ u.c.query = FALSE /\ u.c.active = FALSE
      /\ u.c.status = "idle" /\ u.out = out[n]
  BY <1>5, CancelFacts2
<1> HIDE DEF u
<1>7. Alike(u, w, {"fd"}) /\ w.c.fd = "link"
  BY <1>6, Writes
<1> HIDE DEF w
<1>8. Shaped(w)
  BY <1>7 DEF Alike
<1>9. Alike(w, v, {"status"}) /\ v.c.status = "done"
  BY <1>8, Writes
<1> HIDE DEF v
<1>10. /\ Shaped(v) /\ Carries(tm, n, v.st, v.c.timer) /\ v.c.timer = NoTimer /\ v.c.fd = "link"
       /\ v.c.query = FALSE /\ v.c.active = FALSE /\ v.c.status = "done" /\ v.out = k
  BY <1>6, <1>7, <1>9 DEF Alike
<1>11. k \in {0, 1}
  BY <1>1 DEF ConnInv, Strays
<1>12. crossed \subseteq crossed' /\ crossed' \subseteq Conn /\ (k = 1 => n \in crossed')
  BY <1>1 DEF ConnInv
<1>13. linked' \subseteq Conn /\ held' \in [Conn -> 0 .. MaxHeld]
  BY <1>1, ConnectsAssumption DEF ConnectsAssumption, ConnInv
<1>14. TourOK(tm', tour')
  BY <1>1, IdleTour
<1>15. CASE own /\ ~ok
  <2>1. /\ Shaped(x) /\ Carries(tm, n, x.st, NoTimer)
        /\ x.c.timer = NoTimer /\ x.c.fd = "none" /\ x.c.query = FALSE /\ x.c.active = FALSE
        /\ x.c.status = "idle" /\ x.out = Strays(v.c, v.out)
    BY <1>10, CancelFacts2
  <2> HIDE DEF x
  <2>2. /\ Leaves(tm, n, y, x.out) /\ y.c.query = x.c.query
        /\ y.c.status = IF x.c.active THEN "idle" ELSE x.c.status
    BY <2>1, RetryLeaves
  <2> HIDE DEF y
  <2>3. x.out = k
    BY <1>10, <1>11, <2>1 DEF Strays
  <2>4. Leaves(tm, n, y, k) /\ QueryStep(n, cn[n], y.c) /\ Put(n, y)
    BY <1>2, <1>15, <2>1, <2>2, <2>3 DEF QueryStep
  <2> HIDE DEF k
  <2> QED
    BY <1>11, <1>12, <1>13, <1>14, <2>4, PutKeeps
<1>16. CASE ~(own /\ ~ok)
  <2>1. BlockOK(v.c) /\ CallOK(v.st, v.c)
    BY <1>10 DEF BlockOK, CallOK, Shaped
  <2>2. Leaves(tm, n, v, k)
    BY <1>10, <1>11, <2>1 DEF Leaves, Strays
  <2>3. QueryStep(n, cn[n], v.c) /\ Put(n, v)
    BY <1>2, <1>10, <1>16 DEF QueryStep
  <2> HIDE DEF k
  <2> QED
    BY <1>11, <1>12, <1>13, <1>14, <2>2, <2>3, PutKeeps
<1> QED
  BY <1>15, <1>16

(* timer_run writes to the timer it called.                                *)
LEMMA CalledLeaves ==
  ASSUME NEW s0, NEW n \in Conn, NEW u, Shaped(u), NEW k, Leaves(s0, n, u, k), NEW x \in Slot
  PROVE  /\ Leaves(s0, n, [u EXCEPT !.st = Called(u.st, x, 0)], k)
         /\ [u EXCEPT !.st = Called(u.st, x, 0)].st.list = u.st.list
         /\ [u EXCEPT !.st = Called(u.st, x, 0)].c = u.c
<1> DEFINE s == u.st
           s2 == Called(s, x, 0)
           w == [u EXCEPT !.st = s2]
<1>1. /\ Stored(s) /\ OnePerBlock(s) /\ Others(s0, s, n) /\ Mine(s, n, u.c.timer)
      /\ BlockOK(u.c) /\ CallOK(s, u.c) /\ u.out \in Int /\ Strays(u.c, u.out) = k
  BY DEF Leaves, Carries
<1>2. w = [st |-> s2, c |-> u.c, out |-> u.out, shut |-> u.shut]
  BY DEF Shaped
<1> HIDE DEF s
<1>3. Stored(s2) /\ Retimed(s, s2)
  BY <1>1, CalledAgainFacts
<1> HIDE DEF s2
<1>4. s2.list = s.list /\ \A y \in Range(s.list) :
        s2.at[y].refs = s.at[y].refs /\ s2.at[y].call = s.at[y].call /\ s2.at[y].arg = s.at[y].arg
  BY <1>3 DEF Retimed
<1>5. OnePerBlock(s2)
  BY <1>1, <1>4 DEF OnePerBlock
<1>6. Others(s0, s2, n)
  BY <1>1, <1>4 DEF Others, Listed
<1>7. Mine(s2, n, u.c.timer)
  BY <1>1, <1>4 DEF Mine, Listed
<1>8. CallOK(s2, u.c)
  <2> SUFFICES ASSUME u.c.timer # NoTimer
               PROVE  s2.at[u.c.timer].call = IF u.c.status = "idle" THEN "start" ELSE "timeout"
    BY DEF CallOK
  <2>1. u.c.timer \in Range(s.list)
    BY <1>1 DEF Mine, Listed
  <2> QED
    BY <1>1, <1>4, <2>1 DEF CallOK
<1>9. w.st = s2 /\ w.c = u.c /\ w.out = u.out
  BY <1>2
<1> HIDE DEF w
<1>10. Shaped(w)
  BY <1>2, <1>9 DEF Shaped
<1>11. Leaves(s0, n, w, k) /\ w.st.list = s.list /\ w.c = u.c
  BY <1>10, <1>1, <1>3, <1>4, <1>5, <1>6, <1>7, <1>8, <1>9 DEF Leaves, Carries
<1> QED
  BY <1>11 DEF w, s2, s

(* The timer timer_run calls is that of its block, and calls for what the  *)
(* block waits for.                                                        *)
LEMMA CallsItsBlock ==
  ASSUME ConnInv, NEW s \in Slot, tour.cur = s
  PROVE  /\ Listed(tm, s) /\ tm.at[s].arg \in Conn /\ cn[tm.at[s].arg].timer = s
         /\ cn[tm.at[s].arg].active
         /\ tour.next \in Slot \cup {NoTimer}
         /\ tour.next # NoTimer => Listed(tm, tour.next) /\ tm.at[tour.next].arg # tm.at[s].arg
<1>0. s # NoTimer
  BY NoTimerAssumption DEF NoTimerAssumption
<1>1. Listed(tm, s) /\ Stored(tm) /\ OnePerBlock(tm) /\ tour.next = After(tm, s)
  BY <1>0 DEF ConnInv
<1>2. tm.at[s].arg \in Conn
  BY <1>1, SMTT(40) DEF OnePerBlock, Listed
<1> DEFINE n == tm.at[s].arg
<1>3. Mine(tm, n, cn[n].timer) /\ BlockOK(cn[n])
  BY <1>2 DEF ConnInv
<1>4. cn[n].timer # NoTimer
  BY <1>1, <1>3 DEF Mine, Listed
<1>5. cn[n].timer = s
  BY <1>1, <1>3, <1>4 DEF Mine, Listed, OnePerBlock
<1>6. cn[n].active
  BY <1>3, <1>4 DEF BlockOK
<1>7. tour.next # NoTimer => Listed(tm, tour.next) /\ tour.next # s
  BY <1>1, AfterFacts DEF Listed
<1>8. tour.next # NoTimer => tm.at[tour.next].arg # n
  BY <1>1, <1>7 DEF OnePerBlock, Listed
<1>9. Range(tm.list) \subseteq Slot
  BY <1>1, StoreFacts
<1> QED
  BY <1>1, <1>2, <1>5, <1>6, <1>7, <1>8, <1>9 DEF Listed

(* connect_start and connect_timeout, called by timer_run.                 *)
LEMMA CallKeeps ==
  ASSUME ~FailAtOnce, ConnInv, NEW s \in Slot, Call(s)
  PROVE  ConnInv' /\ \E n \in Conn : Moves(n)
<1> DEFINE n == tm.at[s].arg
           k == Strays(cn[n], out[n])
<1>1. /\ tour.cur = s /\ tour' = Onward(tm', tour)
      /\ held' = held /\ linked' = linked /\ crossed' = crossed
      /\ \E r \in IF tm.at[s].call = "start" THEN Start(Of(n), n) ELSE Timeout(Of(n), n) :
           Put(n, [r.u EXCEPT !.st = Called(r.u.st, s, r.ret)])
  BY DEF Call
<1>2. PICK r \in IF tm.at[s].call = "start" THEN Start(Of(n), n) ELSE Timeout(Of(n), n) :
        Put(n, [r.u EXCEPT !.st = Called(r.u.st, s, r.ret)])
  BY <1>1
<1>3. /\ Listed(tm, s) /\ n \in Conn /\ cn[n].timer = s /\ cn[n].active
      /\ tour.next \in Slot \cup {NoTimer}
      /\ tour.next # NoTimer => Listed(tm, tour.next) /\ tm.at[tour.next].arg # n
  BY <1>1, CallsItsBlock
<1>4. k \in {0, 1} /\ (k = 1 => n \in crossed) /\ held \in [Conn -> 0 .. MaxHeld]
      /\ linked \subseteq Conn /\ crossed \subseteq Conn
  BY <1>3 DEF ConnInv
<1> HIDE DEF n
<1>5. r.ret = 0 /\ Leaves(tm, n, r.u, k) /\ QueryStep(n, cn[n], r.u.c)
  <2>1. CASE tm.at[s].call = "start"
    BY <1>2, <1>3, <2>1, StartLeaves
  <2>2. CASE tm.at[s].call # "start"
    BY <1>2, <1>3, <2>2, TimeoutLeaves
  <2> QED
    BY <2>1, <2>2
<1> HIDE DEF k
<1> DEFINE w == [r.u EXCEPT !.st = Called(r.u.st, s, 0)]
<1>6. Shaped(r.u)
  BY <1>5 DEF Leaves
<1>7. Put(n, w)
  BY <1>2, <1>5
<1>8. Leaves(tm, n, w, k) /\ w.st.list = r.u.st.list /\ w.c = r.u.c
  BY <1>3, <1>5, <1>6, CalledLeaves
<1> HIDE DEF w
<1>9. tm' = w.st
  BY <1>7, Zenon DEF Put
<1>10. tour.next # NoTimer => Listed(tm', tour.next)
  BY <1>3, <1>8, <1>9 DEF Leaves, Carries, Others, Listed
<1>11. TourOK(tm', tour')
  BY <1>1, <1>3, <1>10 DEF TourOK, Onward
<1>12. ConnInv' /\ Moves(n)
  BY <1>1, <1>3, <1>4, <1>5, <1>7, <1>8, <1>11, PutKeeps
<1> QED
  BY <1>3, <1>12

(* timer_run begins, and goes on.                                          *)
LEMMA WalkKeeps ==
  ASSUME ConnInv, Run \/ Skip
  PROVE  ConnInv' /\ \E n \in Conn : Moves(n)
<1>1. /\ tm' = tm /\ cn' = cn /\ out' = out /\ held' = held /\ linked' = linked /\ crossed' = crossed
      /\ shut' = shut
      /\ \/ tm.list # <<>> /\ tour' = Begin(tm)
         \/ tour.cur # NoTimer /\ tour' = Onward(tm, tour)
  BY DEF Run, Skip
<1>2. /\ Stored(tm) /\ tour.cur \in Slot \cup {NoTimer} /\ (tour.cur # NoTimer => Listed(tm, tour.cur))
      /\ tour.next = After(tm, tour.cur)
  BY DEF ConnInv
<1>3. tm.list \in Seq(Slot) /\ Range(tm.list) \subseteq Slot
  BY <1>2, StoreFacts
<1>4. TourOK(tm', tour')
  <2>1. CASE tm.list # <<>> /\ tour' = Begin(tm)
    <3>1. Head(tm.list) \in Range(tm.list)
      BY <1>3, <2>1 DEF Range
    <3> QED
      BY <1>1, <1>3, <2>1, <3>1 DEF TourOK, Begin, Listed
  <2>2. CASE tour.cur # NoTimer /\ tour' = Onward(tm, tour)
    <3>1. tour.next # NoTimer => Listed(tm, tour.next)
      BY <1>2, <2>2, AfterFacts DEF Listed
    <3> QED
      BY <1>1, <1>3, <2>2, <3>1 DEF TourOK, Onward, Listed
  <2> QED
    BY <1>1, <2>1, <2>2
<1>5. ConnInv'
  <2>1. /\ tour' = [cur |-> tour'.cur, next |-> tour'.next] /\ tour'.cur \in Slot \cup {NoTimer}
        /\ tour'.cur # NoTimer => Listed(tm', tour'.cur)
        /\ tour'.next = After(tm', tour'.cur)
    BY <1>4 DEF TourOK
  <2>2. ConnInv
    OBVIOUS
  <2> QED
    BY <1>1, <2>1, <2>2 DEF ConnInv
<1>6. \A n \in Conn : Moves(n)
  BY <1>1 DEF Moves, QueryStep
<1>7. Conn # {}
  BY ConnectsAssumption DEF ConnectsAssumption
<1> QED
  BY <1>5, <1>6, <1>7

(* Every step without the helper.                                          *)
LEMMA ConnectStepKeeps ==
  ASSUME ~FailAtOnce, ConnInv, ConnectStep
  PROVE  ConnInv' /\ \E n \in Conn : Moves(n)
<1>1. CASE Run \/ Skip
  BY <1>1, WalkKeeps
<1>2. CASE \E s \in Slot : Call(s)
  BY <1>2, CallKeeps
<1>3. CASE \E n \in Conn : \/ Established(n) \/ Refused(n) \/ LateRefused(n)
                           \/ OperConnect(n) \/ Lost(n)
                           \/ \E own, ok \in BOOLEAN : Login(n, own, ok)
  BY <1>3, EstablishedKeeps, RefusedKeeps, LateRefusedKeeps, OperConnectKeeps, LostKeeps, LoginKeeps
<1> QED
  BY <1>1, <1>2, <1>3 DEF ConnectStep

(* What a block points to is its own.                                      *)
LEMMA ConnInvImplies ==
  ASSUME ConnInv
  PROVE  ConnectsOwned
<1>1. ConnectTypeOK
  <2>1. StoreOK(tm) /\ cn \in [Conn -> ConnBlock] /\ held \in [Conn -> 0 .. MaxHeld]
        /\ linked \subseteq Conn /\ crossed \subseteq Conn /\ shut \subseteq Conn
    BY DEF ConnInv, Stored
  <2>2. \A n \in Conn : out[n] \in 0 .. 2
    <3> SUFFICES ASSUME NEW n \in Conn PROVE out[n] \in 0 .. 2
      OBVIOUS
    <3>1. Strays(cn[n], out[n]) \in {0, 1} /\ out[n] \in Int
      BY DEF ConnInv
    <3> QED
      BY <3>1 DEF Strays
  <2>3. out \in [Conn -> 0 .. 2]
    BY <2>2 DEF ConnInv
  <2> QED
    BY <2>1, <2>3 DEF ConnectTypeOK, ConnBlock
<1>2. TimersOwned
  <2>1. ASSUME NEW n \in Conn, cn[n].timer # NoTimer
        PROVE  Listed(tm, cn[n].timer) /\ tm.at[cn[n].timer].arg = n /\ tm.at[cn[n].timer].refs = 1
    BY <2>1 DEF ConnInv, Mine, OnePerBlock, Listed
  <2>2. ASSUME NEW s \in Range(tm.list) PROVE cn[tm.at[s].arg].timer = s
    BY DEF ConnInv, Mine, OnePerBlock, Listed
  <2> QED
    BY <2>1, <2>2 DEF TimersOwned
<1>3. RetryPending
  <2> SUFFICES ASSUME NEW n \in Conn, cn[n].active, cn[n].status # "done"
               PROVE  /\ cn[n].timer # NoTimer
                      /\ cn[n].status = "idle" <=> tm.at[cn[n].timer].call = "start"
                      /\ cn[n].status = "connecting" <=> cn[n].fd = "out"
    BY DEF RetryPending
  <2>1. BlockOK(cn[n]) /\ CallOK(tm, cn[n])
    BY DEF ConnInv
  <2> QED
    BY <2>1 DEF BlockOK, CallOK
<1>4. SocketsOwned
  BY DEF ConnInv, SocketsOwned, Strays
<1> QED
  BY <1>1, <1>2, <1>3, <1>4 DEF ConnectsOwned

(* The blocks in some order.                                               *)
LEMMA BlocksInOrder ==
  LET blocks == SetToSeq(Conn)
      N      == Cardinality(Conn)
  IN  /\ N \in Nat /\ N > 0 /\ \A i \in 1 .. N : blocks[i] \in Conn
      /\ \A i \in 1 .. N, j \in 1 .. N : blocks[i] = blocks[j] => i = j
      /\ \A n \in Conn : \E i \in 1 .. N : blocks[i] = n
<1> DEFINE N == Cardinality(Conn)
           blocks == SetToSeq(Conn)
<1>1. IsFiniteSet(Conn) /\ Conn # {}
  BY ConnectsAssumption DEF ConnectsAssumption
<1>2. N \in Nat /\ ExistsBijection(1 .. N, Conn)
  BY <1>1, FS_CardinalityType
<1>3. N # 0
  BY <1>1, FS_EmptySet
<1>4. \E f \in [1 .. N -> Conn] : IsInjective(f)
  BY <1>2 DEF ExistsBijection, Bijection, Injection
<1>5. blocks \in [1 .. N -> Conn] /\ IsInjective(blocks)
  BY <1>4, Zenon DEF SetToSeq
<1> HIDE DEF blocks
<1>6. blocks \in Injection(1 .. N, Conn)
  BY <1>5 DEF Injection
<1>7. Cardinality(1 .. N) = N
  BY <1>2, FS_Interval
<1>8. blocks \in Surjection(1 .. N, Conn)
  BY <1>1, <1>6, <1>7, FS_Injection, Zenon
<1>9. \A n \in Conn : \E i \in 1 .. N : blocks[i] = n
  BY <1>8 DEF Surjection
<1>10. \A i \in 1 .. N, j \in 1 .. N : blocks[i] = blocks[j] => i = j
  BY <1>5 DEF IsInjective
<1>11. \A i \in 1 .. N : blocks[i] \in Conn
  BY <1>5
<1> HIDE DEF N
<1> QED
  BY <1>2, <1>3, <1>9, <1>10, <1>11 DEF N, blocks

(* No timer.                                                               *)
LEMMA NoTimersFacts ==
  Stored(NoTimers(FreeTimers)) /\ Range(NoTimers(FreeTimers).list) = {}
<1> DEFINE s == NoTimers(FreeTimers)
<1>1. /\ s = [list |-> <<>>, free |-> FreeTimers, at |-> [x \in Slot |-> Blank]]
      /\ FreeTimers \in Seq(Slot) /\ IsInjective(FreeTimers) /\ Range(FreeTimers) = Slot
  BY ConnectsAssumption DEF NoTimers, ConnectsAssumption
<1>2. <<>> \in Seq(Slot) /\ IsInjective(<<>>) /\ Range(<<>>) = {}
  BY DEF IsInjective, Range
<1>3. Blank \in Timer
  BY DEF Blank, Timer
<1>4. [x \in Slot |-> Blank] \in [Slot -> Timer]
  BY <1>3
<1>5. s \in Store
  BY <1>1, <1>2, <1>4 DEF Store
<1>6. s.list = <<>> /\ s.free = FreeTimers
  BY <1>1
<1> HIDE DEF s
<1>7. StoreOK(s)
  BY <1>1, <1>2, <1>6 DEF StoreOK
<1> QED
  BY <1>2, <1>5, <1>6, <1>7 DEF s, Stored

\* A block that was just added, with its first timer.
Added(s, n, c) == c = Fresh(c.timer) /\ Mine(s, n, c.timer) /\ CallOK(s, c) /\ c.timer \in Slot

(* connect_add for every block, at start-up and at a restart.              *)
LEMMA AddAllFacts ==
  /\ Stored(AddAll.st) /\ OnePerBlock(AddAll.st) /\ AddAll.cn \in [Conn -> ConnBlock]
  /\ \A n \in Conn : Added(AddAll.st, n, AddAll.cn[n])
<1> DEFINE N == Cardinality(Conn)
           blocks == SetToSeq(Conn)
           First == [st |-> NoTimers(FreeTimers), cn |-> [n \in Conn |-> Fresh(NoTimer)]]
           Step(f, i) ==
             IF i = 0 THEN First
             ELSE [st |-> StartTimer(f[i - 1].st, "start", blocks[i], 0),
                   cn |-> [f[i - 1].cn EXCEPT ![blocks[i]] = Fresh(NextSlot(f[i - 1].st))]]
           Upto(k) == \E f : f = [i \in 0 .. k |-> Step(f, i)]
           add == CHOOSE f : f = [i \in 0 .. N |-> Step(f, i)]
<1>0. /\ N \in Nat /\ N > 0 /\ \A i \in 1 .. N : blocks[i] \in Conn
      /\ \A i \in 1 .. N, j \in 1 .. N : blocks[i] = blocks[j] => i = j
      /\ \A n \in Conn : \E i \in 1 .. N : blocks[i] = n
  BY BlocksInOrder
<1>1. AddAll = add[N]
  BY DEF AddAll
<1>2. ASSUME NEW k \in Nat PROVE Upto(k)
  <2> DEFINE Bad == {m \in Nat : ~Upto(m)}
  <2> SUFFICES ASSUME Bad # {} PROVE FALSE
    BY ZenonT(60)
  <2> HIDE DEF Upto, First, blocks
  <2>1. PICK m \in Bad : \A i \in Bad : m <= i
    BY LeastIn, Bad \in SUBSET Nat
  <2>2. m \in Nat /\ ~Upto(m)
    BY <2>1
  <2>3. Upto(0)
    <3> DEFINE f == [i \in 0 .. 0 |-> First]
    <3>1. f = [i \in 0 .. 0 |-> Step(f, i)]
      OBVIOUS
    <3> HIDE DEF f
    <3> QED
      BY <3>1, Zenon DEF Upto
  <2>4. m # 0 /\ m - 1 \in Nat /\ ~(m <= m - 1)
    BY <2>2, <2>3
  <2>5. Upto(m - 1)
    BY <2>1, <2>4
  <2>6. PICK f : f = [i \in 0 .. m - 1 |-> Step(f, i)]
    BY <2>5 DEF Upto
  <2> DEFINE g == [i \in 0 .. m |-> IF i = m THEN Step(f, m) ELSE f[i]]
  <2>7. \A i \in 0 .. m - 1 : f[i] = Step(f, i)
    BY <2>6
  <2>8. \A i \in 0 .. m : g[i] = Step(g, i)
    <3> SUFFICES ASSUME NEW i \in 0 .. m PROVE g[i] = Step(g, i)
      OBVIOUS
    <3>1. i # 0 => i - 1 \in 0 .. m /\ i - 1 # m
      BY <2>2
    <3>2. i # 0 => g[i - 1] = f[i - 1]
      BY <3>1
    <3>3. Step(g, i) = Step(f, i)
      BY <3>2
    <3>4. CASE i = m
      BY <3>3, <3>4
    <3>5. CASE i # m
      <4>1. i \in 0 .. m - 1
        BY <2>2, <3>5
      <4> QED
        BY <2>7, <3>3, <3>5, <4>1
    <3> QED
      BY <3>4, <3>5
  <2>9. g = [i \in 0 .. m |-> g[i]]
    OBVIOUS
  <2> HIDE DEF g, Step
  <2>10. g = [i \in 0 .. m |-> Step(g, i)]
    BY <2>8, <2>9
  <2> QED
    BY <2>2, <2>10, Zenon DEF Upto
<1>3. add = [i \in 0 .. N |-> Step(add, i)]
  <2>1. Upto(N)
    BY <1>0, <1>2
  <2> QED
    BY <2>1, Zenon
<1> HIDE DEF add, blocks, N
<1>4. \A i \in 0 .. N : add[i] = Step(add, i)
  BY <1>3
\* After i blocks.
<1> DEFINE Did(i) == {n \in Conn : \E j \in 1 .. i : blocks[j] = n}
           Fine(i) ==
             /\ Stored(add[i].st) /\ OnePerBlock(add[i].st) /\ add[i].cn \in [Conn -> ConnBlock]
             /\ \A n \in Conn : IF n \in Did(i) THEN Added(add[i].st, n, add[i].cn[n])
                                ELSE Mine(add[i].st, n, NoTimer)
<1>5. \A i \in 0 .. N : Fine(i)
  <2> DEFINE Bad == {i \in 0 .. N : ~Fine(i)}
  <2> SUFFICES ASSUME Bad # {} PROVE FALSE
    OBVIOUS
  <2> HIDE DEF Fine
  <2>1. PICK i \in Bad : \A m \in Bad : i <= m
    <3>1. Bad \in SUBSET Nat
      BY <1>0
    <3> QED
      BY <3>1, LeastIn
  <2>2. i \in 0 .. N /\ ~Fine(i)
    BY <2>1
  <2>3. i # 0
    <3> SUFFICES ASSUME i = 0 PROVE FALSE
      OBVIOUS
    <3>1. add[0].st = NoTimers(FreeTimers) /\ add[0].cn = [n \in Conn |-> Fresh(NoTimer)]
      <4>1. add[0] = First
        BY <1>0, <1>4
      <4>2. First.st = NoTimers(FreeTimers) /\ First.cn = [n \in Conn |-> Fresh(NoTimer)]
        OBVIOUS
      <4> HIDE DEF First
      <4> QED
        BY <4>1, <4>2
    <3>2. Fresh(NoTimer) \in ConnBlock
      BY DEF Fresh, ConnBlock
    <3>3. Did(0) = {}
      OBVIOUS
    <3>4. OnePerBlock(NoTimers(FreeTimers)) /\ \A n \in Conn : Mine(NoTimers(FreeTimers), n, NoTimer)
      BY NoTimersFacts DEF OnePerBlock, Mine
    <3> QED
      BY <2>2, <3>1, <3>2, <3>3, <3>4, NoTimersFacts DEF Fine
  <2>4. i - 1 \in 0 .. N /\ ~(i <= i - 1) /\ i \in 1 .. N /\ 1 .. i = (1 .. i - 1) \cup {i}
    BY <1>0, <2>2, <2>3
  <2>5. Fine(i - 1)
    BY <2>1, <2>4
  <2> DEFINE s == add[i - 1].st
             cns == add[i - 1].cn
             n == blocks[i]
             s2 == StartTimer(s, "start", n, 0)
             x == NextSlot(s)
             cns2 == [cns EXCEPT ![n] = Fresh(x)]
  <2>6. add[i].st = s2 /\ add[i].cn = cns2
    <3>1. add[i] = Step(add, i)
      BY <1>4, <2>2
    <3>2. add[i] = [st |-> s2, cn |-> cns2]
      BY <2>3, <3>1
    <3> HIDE DEF s2, cns2
    <3> QED
      BY <3>2
  <2>7. /\ Stored(s) /\ OnePerBlock(s) /\ cns \in [Conn -> ConnBlock]
        /\ \A m \in Conn : IF m \in Did(i - 1) THEN Added(s, m, cns[m]) ELSE Mine(s, m, NoTimer)
    BY <2>5 DEF Fine
  <2>8. n \in Conn /\ n \notin Did(i - 1) /\ Did(i) = Did(i - 1) \cup {n}
    <3>1. n \in Conn /\ \A j \in 1 .. i - 1 : blocks[j] # n
      BY <1>0, <2>4
    <3> QED
      BY <2>4, <3>1
  <2> HIDE DEF s, cns, n, Did
  <2>9. Carries(s, n, s, NoTimer) /\ "start" \in Callbacks
    BY <2>7, <2>8 DEF Carries, Others, Callbacks
  <2>10. Carries(s, n, s2, x) /\ x \in Slot /\ x # NoTimer /\ s2.at[x].call = "start"
    BY <2>7, <2>8, <2>9, Armed
  <2> HIDE DEF s2, x
  <2>11. /\ Stored(s2) /\ OnePerBlock(s2) /\ Others(s, s2, n) /\ Mine(s2, n, x)
    BY <2>10 DEF Carries
  <2>12. Fresh(x) \in ConnBlock /\ Fresh(x).timer = x /\ Fresh(x).status = "idle"
    BY <2>10 DEF Fresh, ConnBlock
  <2>13. cns2 \in [Conn -> ConnBlock] /\ cns2[n] = Fresh(x) /\ \A m \in Conn \ {n} : cns2[m] = cns[m]
    BY <2>7, <2>8, <2>12
  <2> HIDE DEF cns2
  <2>14. Added(s2, n, cns2[n])
    BY <2>10, <2>11, <2>12, <2>13 DEF Added, CallOK
  <2>15. ASSUME NEW m \in Conn \ {n}
         PROVE  IF m \in Did(i) THEN Added(s2, m, cns2[m]) ELSE Mine(s2, m, NoTimer)
    <3>1. CASE m \in Did(i - 1)
      <4>1. Added(s, m, cns[m])
        BY <2>7, <3>1
      <4>2. Mine(s2, m, cns[m].timer) /\ CallOK(s2, cns[m])
        BY <2>8, <2>11, <4>1, OthersKeep DEF Added
      <4> QED
        BY <2>8, <2>13, <3>1, <4>1, <4>2 DEF Added
    <3>2. CASE m \notin Did(i - 1)
      <4>1. Mine(s, m, NoTimer)
        BY <2>7, <3>2
      <4> DEFINE c == Fresh(NoTimer)
      <4>2. c.timer = NoTimer /\ CallOK(s, c)
        BY DEF Fresh, CallOK
      <4> HIDE DEF c
      <4>3. Mine(s2, m, c.timer)
        BY <2>8, <2>11, <4>1, <4>2, OthersKeep
      <4> QED
        BY <2>8, <3>2, <4>2, <4>3
    <3> QED
      BY <3>1, <3>2
  <2>16. Fine(i)
    BY <2>6, <2>8, <2>11, <2>13, <2>14, <2>15 DEF Fine
  <2> QED
    BY <2>2, <2>16
<1>6. Did(N) = Conn
  BY <1>0
<1>7. Fine(N)
  BY <1>0, <1>5
<1> HIDE DEF Did
<1> QED
  BY <1>1, <1>6, <1>7

(* The configuration as it is read.                                        *)
LEMMA ConnectInitHolds ==
  ASSUME tm = AddAll.st, cn = AddAll.cn, tour = Idle,
         out = [n \in Conn |-> 0], held = [n \in Conn |-> 0], linked = {}, crossed = {}, shut = {}
  PROVE  ConnInv /\ \A n \in Conn : cn[n].status = "idle" /\ ~cn[n].query
<1>1. /\ Stored(tm) /\ OnePerBlock(tm) /\ cn \in [Conn -> ConnBlock]
      /\ \A n \in Conn : Added(tm, n, cn[n])
  BY AddAllFacts
<1>2. ASSUME NEW n \in Conn
      PROVE  /\ BlockOK(cn[n]) /\ Mine(tm, n, cn[n].timer) /\ CallOK(tm, cn[n])
             /\ Strays(cn[n], out[n]) = 0 /\ cn[n].status = "idle" /\ ~cn[n].query
  <2>1. cn[n] \in ConnBlock /\ out[n] = 0 /\ cn[n].timer \in Slot /\ cn[n].timer # NoTimer
    BY <1>1, NoTimerAssumption DEF Added, NoTimerAssumption
  <2>2. /\ cn[n].status = "idle" /\ cn[n].active /\ cn[n].fd = "none" /\ ~cn[n].query
        /\ Mine(tm, n, cn[n].timer) /\ CallOK(tm, cn[n])
    <3>1. Added(tm, n, cn[n])
      BY <1>1
    <3> DEFINE c == cn[n]
    <3>2. /\ c = [status |-> "idle", active |-> TRUE, timer |-> c.timer, fd |-> "none", query |-> FALSE]
          /\ Mine(tm, n, c.timer) /\ CallOK(tm, c)
      BY <3>1 DEF Added, Fresh
    <3> HIDE DEF c
    <3>3. c.status = "idle" /\ c.active /\ c.fd = "none" /\ ~c.query
      BY <3>2
    <3> QED
      BY <3>2, <3>3 DEF c
  <2> QED
    BY <2>1, <2>2 DEF BlockOK, Strays
<1>3. 0 \in 0 .. MaxHeld
  BY ConnectsAssumption DEF ConnectsAssumption
<1>4. out \in [Conn -> Int] /\ held \in [Conn -> 0 .. MaxHeld]
  BY <1>3
<1>5. /\ tour = [cur |-> tour.cur, next |-> tour.next] /\ tour.cur = NoTimer
      /\ tour.next = After(tm, tour.cur)
  BY DEF Idle, After
<1> QED
  BY <1>1, <1>2, <1>4, <1>5 DEF ConnInv

-----------------------------------------------------------------------------
(* Lookups by the helper.                                                  *)

Kinds == {"dns", "auth"} \cup Port

HelperState ==
  [proc : {"none", "failed", "alive", "exited"}, status : {"idle", "running", "dead"},
   check : BOOLEAN, reads : BOOLEAN, child : BOOLEAN, rtimer : BOOLEAN, timers : 0 .. MaxTimers + 2]
QueryState  == [list : Seq(Query), timed : SUBSET Query, asked : SUBSET Query, open : BOOLEAN]
LookupState == [block : Block \cup {None}, gone : BOOLEAN, wants : SUBSET Kinds]
ClientState == [at : [Block -> {"free", "new", "asking", "user"}], free : Seq(Block)]
States ==
  [hp : HelperState, qs : QueryState, look : [Look -> LookupState], lc : ClientState, down : BOOLEAN]

\* v is a state, and that of u but for some fields.
Same(u, v, F) ==
  /\ v \in States
  /\ "hp" \notin F => v.hp = u.hp
  /\ "qs" \notin F => v.qs = u.qs
  /\ "look" \notin F => v.look = u.look
  /\ "lc" \notin F => v.lc = u.lc
  /\ "down" \notin F => v.down = u.down

(* What a write does.                                                      *)
LEMMA StateWrites ==
  ASSUME NEW u \in States
  PROVE  /\ \A x \in HelperState : Same(u, [u EXCEPT !.hp = x], {"hp"}) /\ [u EXCEPT !.hp = x].hp = x
         /\ \A x \in QueryState : Same(u, [u EXCEPT !.qs = x], {"qs"}) /\ [u EXCEPT !.qs = x].qs = x
         /\ \A x \in [Look -> LookupState] :
              Same(u, [u EXCEPT !.look = x], {"look"}) /\ [u EXCEPT !.look = x].look = x
         /\ \A x \in ClientState : Same(u, [u EXCEPT !.lc = x], {"lc"}) /\ [u EXCEPT !.lc = x].lc = x
         /\ Same(u, Down(u), {"down"}) /\ Down(u).down
<1>1. \A x \in HelperState : Same(u, [u EXCEPT !.hp = x], {"hp"}) /\ [u EXCEPT !.hp = x].hp = x
  BY DEF States, Same
<1>2. \A x \in QueryState : Same(u, [u EXCEPT !.qs = x], {"qs"}) /\ [u EXCEPT !.qs = x].qs = x
  BY DEF States, Same
<1>3. \A x \in [Look -> LookupState] :
        Same(u, [u EXCEPT !.look = x], {"look"}) /\ [u EXCEPT !.look = x].look = x
  BY DEF States, Same
<1>4. \A x \in ClientState : Same(u, [u EXCEPT !.lc = x], {"lc"}) /\ [u EXCEPT !.lc = x].lc = x
  BY DEF States, Same
<1>5. Same(u, Down(u), {"down"}) /\ Down(u).down
  BY DEF States, Same, Down
<1> QED
  BY <1>1, <1>2, <1>3, <1>4, <1>5

(* Fields of the fields.                                                   *)
LEMMA HelperWrites ==
  ASSUME NEW h \in HelperState
  PROVE  /\ \A x \in BOOLEAN :
              /\ [h EXCEPT !.child = x] \in HelperState /\ [h EXCEPT !.reads = x] \in HelperState
              /\ [h EXCEPT !.rtimer = x] \in HelperState /\ [h EXCEPT !.check = x] \in HelperState
         /\ \A x \in {"none", "failed", "alive", "exited"} : [h EXCEPT !.proc = x] \in HelperState
         /\ \A x \in {"idle", "running", "dead"} : [h EXCEPT !.status = x] \in HelperState
         /\ \A x \in 0 .. MaxTimers + 2 : [h EXCEPT !.timers = x] \in HelperState
BY DEF HelperState

\* What sauth_launch does to the process: nothing without need, and nothing
\* to what was there.
HelperOK(h) ==
  /\ h.proc \in {"alive", "exited"} => h.check
  /\ h.proc = "exited" => h.timers <= MaxTimers
  /\ h.status = "running" <=> h.proc \in {"alive", "exited"}
  /\ h.child \/ h.timers > 0
  /\ h.rtimer => h.timers > 0

Later(h, h2) ==
  /\ h2 \in HelperState /\ h2.timers = h.timers
  /\ h.child => /\ h2.child /\ h2.proc = h.proc /\ h2.status = h.status /\ h2.check = h.check
                /\ h2.rtimer => h.rtimer
  /\ HelperOK(h) => HelperOK(h2)
  /\ HelperOK(h) /\ h.proc # "exited" => h2.proc # "exited"

LEMMA LaterTwice ==
  ASSUME NEW h1, NEW h2, NEW h3, Later(h1, h2), Later(h2, h3)
  PROVE  Later(h1, h3)
BY DEF Later

LEMMA LaterSame ==
  ASSUME NEW h \in HelperState
  PROVE  Later(h, h)
BY DEF Later

(* sauth_launch.                                                           *)
LEMMA LaunchFacts ==
  ASSUME NEW u \in States, NEW r \in Launch(u)
  PROVE  /\ Same(u, r.u, {"hp"}) /\ Later(u.hp, r.u.hp) /\ r.ok \in BOOLEAN
         /\ r.ok => r.u.hp.child /\ ~r.u.hp.rtimer
<1> DEFINE h == u.hp
           Up(g) == [[[g EXCEPT !.child = TRUE] EXCEPT !.reads = TRUE] EXCEPT !.rtimer = FALSE]
           Ran(v) == [v EXCEPT !.hp = Up(v.hp)]
<1>0. h \in HelperState
  BY DEF States
<1>1. ASSUME NEW v \in States
      PROVE  /\ Running(v) = [u |-> Ran(v), ok |-> TRUE] /\ Same(v, Ran(v), {"hp"})
             /\ Ran(v).hp = Up(v.hp) /\ Up(v.hp) \in HelperState
  <2>1. Running(v) = [u |-> Ran(v), ok |-> TRUE]
    BY DEF Running
  <2>2. v.hp \in HelperState
    BY DEF States
  <2>3. Up(v.hp) \in HelperState
    BY <2>2, HelperWrites
  <2> HIDE DEF Up
  <2> QED
    BY <2>1, <2>3, StateWrites
<1>2. ASSUME NEW g \in HelperState
      PROVE  /\ Up(g).proc = g.proc /\ Up(g).status = g.status /\ Up(g).check = g.check
             /\ Up(g).child /\ Up(g).reads /\ ~Up(g).rtimer /\ Up(g).timers = g.timers
  BY DEF HelperState
<1> HIDE DEF Up, Ran
<1>3. CASE h.child
  <2>1. r = Running(u)
    BY <1>3 DEF Launch
  <2>2. r.u = Ran(u) /\ r.ok = TRUE
    BY <1>1, <2>1
  <2>3. Later(h, Up(h))
    BY <1>0, <1>1, <1>2, <1>3 DEF Later, HelperOK
  <2> QED
    BY <1>0, <1>1, <1>2, <2>2, <2>3
<1>4. CASE ~h.child /\ h.status = "running"
  <2> DEFINE g == [h EXCEPT !.child = TRUE]
             v == [u EXCEPT !.hp = g]
  <2>1. r = [u |-> [u EXCEPT !.hp.child = TRUE], ok |-> FALSE]
    BY <1>4 DEF Launch
  <2>2. r = [u |-> v, ok |-> FALSE]
    BY <2>1
  <2>3. /\ g \in HelperState /\ g.proc = h.proc /\ g.status = h.status /\ g.check = h.check
        /\ g.child /\ g.rtimer = h.rtimer /\ g.timers = h.timers
    BY <1>0 DEF HelperState
  <2> HIDE DEF g
  <2>4. Same(u, v, {"hp"}) /\ v.hp = g
    BY <2>3, StateWrites
  <2>5. Later(h, g)
    BY <1>4, <2>3 DEF Later, HelperOK
  <2> HIDE DEF v
  <2> QED
    BY <2>2, <2>4, <2>5
<1>5. CASE ~h.child /\ h.status # "running"
  <2>1. PICK v \in ChildLaunch(u) : r = Running(v)
    BY <1>5 DEF Launch
  <2> DEFINE g1 == [h EXCEPT !.proc = "failed"]
             g2 == [[[h EXCEPT !.proc = "alive"] EXCEPT !.status = "running"] EXCEPT !.check = TRUE]
  <2>2. v = [u EXCEPT !.hp = g1] \/ v = [u EXCEPT !.hp = g2]
    BY <2>1 DEF ChildLaunch
  <2>3. /\ g1 \in HelperState /\ g1.proc = "failed" /\ g1.status = h.status /\ g1.timers = h.timers
        /\ g2 \in HelperState /\ g2.proc = "alive" /\ g2.status = "running" /\ g2.timers = h.timers
        /\ g2.check
    BY <1>0 DEF HelperState
  <2> HIDE DEF g1, g2
  <2>4. Same(u, v, {"hp"}) /\ v.hp \in {g1, g2}
    <3>1. CASE v = [u EXCEPT !.hp = g1]
      BY <2>3, <3>1, StateWrites
    <3>2. CASE v = [u EXCEPT !.hp = g2]
      BY <2>3, <3>2, StateWrites
    <3> QED
      BY <2>2, <3>1, <3>2
  <2>5. v \in States /\ v.hp \in HelperState
    BY <2>3, <2>4 DEF Same
  <2>6. r.u = Ran(v) /\ r.ok = TRUE /\ Same(v, Ran(v), {"hp"}) /\ Ran(v).hp = Up(v.hp)
        /\ Up(v.hp) \in HelperState
    BY <1>1, <2>1, <2>5
  <2>7. Later(h, Up(v.hp))
    BY <1>2, <1>5, <2>3, <2>4, <2>5, <2>6 DEF Later, HelperOK
  <2>8. Same(u, Ran(v), {"hp"})
    BY <2>4, <2>6 DEF Same
  <2> QED
    BY <1>2, <2>5, <2>6, <2>7, <2>8
<1> QED
  BY <1>3, <1>4, <1>5

-----------------------------------------------------------------------------
(* The list of queries.                                                    *)

(* dlink_delete of some.                                                   *)
LEMMA WithoutFacts ==
  ASSUME NEW S, NEW L \in Seq(S), IsInjective(L), NEW Q
  PROVE  /\ Without(L, Q) \in Seq(S) /\ IsInjective(Without(L, Q))
         /\ Range(Without(L, Q)) = Range(L) \ Q
<1> DEFINE Step(f, i) == IF i = 0 THEN <<>>
                         ELSE IF L[i] \in Q THEN f[i - 1] ELSE Append(f[i - 1], L[i])
           Upto(k) == \E f : f = [i \in 0 .. k |-> Step(f, i)]
           kept == CHOOSE f : f = [i \in 0 .. Len(L) |-> Step(f, i)]
<1>0. /\ Len(L) \in Nat /\ DOMAIN L = 1 .. Len(L) /\ \A i \in 1 .. Len(L) : L[i] \in S
      /\ \A i \in 1 .. Len(L), j \in 1 .. Len(L) : L[i] = L[j] => i = j
  BY DEF IsInjective
<1>1. Without(L, Q) = kept[Len(L)]
  BY DEF Without
<1>2. ASSUME NEW k \in Nat PROVE Upto(k)
  <2> DEFINE Bad == {m \in Nat : ~Upto(m)}
  <2> SUFFICES ASSUME Bad # {} PROVE FALSE
    OBVIOUS
  <2> HIDE DEF Upto
  <2>1. PICK m \in Bad : \A n \in Bad : m <= n
    BY LeastIn, Bad \in SUBSET Nat
  <2>2. m \in Nat /\ ~Upto(m)
    BY <2>1
  <2>3. Upto(0)
    <3> DEFINE f == [n \in 0 .. 0 |-> <<>>]
    <3>1. f = [n \in 0 .. 0 |-> Step(f, n)]
      OBVIOUS
    <3> HIDE DEF f
    <3> QED
      BY <3>1, Zenon DEF Upto
  <2>4. m # 0 /\ m - 1 \in Nat /\ ~(m <= m - 1)
    BY <2>2, <2>3
  <2>5. Upto(m - 1)
    BY <2>1, <2>4
  <2>6. PICK f : f = [n \in 0 .. m - 1 |-> Step(f, n)]
    BY <2>5 DEF Upto
  <2> DEFINE g == [n \in 0 .. m |-> IF n = m THEN Step(f, m) ELSE f[n]]
  <2>7. \A n \in 0 .. m - 1 : f[n] = Step(f, n)
    BY <2>6
  <2>8. \A n \in 0 .. m : g[n] = Step(g, n)
    <3> SUFFICES ASSUME NEW n \in 0 .. m PROVE g[n] = Step(g, n)
      OBVIOUS
    <3>1. n # 0 => n - 1 \in 0 .. m /\ n - 1 # m
      BY <2>2
    <3>2. n # 0 => g[n - 1] = f[n - 1]
      BY <3>1
    <3>3. Step(g, n) = Step(f, n)
      BY <3>2
    <3>4. CASE n = m
      BY <3>3, <3>4
    <3>5. CASE n # m
      <4>1. n \in 0 .. m - 1
        BY <2>2, <3>5
      <4> QED
        BY <2>7, <3>3, <3>5, <4>1
    <3> QED
      BY <3>4, <3>5
  <2>9. g = [n \in 0 .. m |-> g[n]]
    OBVIOUS
  <2> HIDE DEF g, Step
  <2>10. g = [n \in 0 .. m |-> Step(g, n)]
    BY <2>8, <2>9
  <2> QED
    BY <2>2, <2>10, Zenon DEF Upto
<1>3. kept = [i \in 0 .. Len(L) |-> Step(kept, i)]
  <2>1. Upto(Len(L))
    BY <1>0, <1>2
  <2> QED
    BY <2>1, Zenon
<1> HIDE DEF kept
<1>4. \A i \in 0 .. Len(L) : kept[i] = Step(kept, i)
  BY <1>3
\* What is kept of the first i.
<1> DEFINE Some(i) == {x \in S : x \notin Q /\ \E j \in 1 .. i : x = L[j]}
           Fine(i) == kept[i] \in Seq(S) /\ IsInjective(kept[i]) /\ Range(kept[i]) = Some(i)
<1>5. \A i \in 0 .. Len(L) : Fine(i)
  <2> DEFINE Bad == {i \in 0 .. Len(L) : ~Fine(i)}
  <2> SUFFICES ASSUME Bad # {} PROVE FALSE
    OBVIOUS
  <2> HIDE DEF Fine
  <2>1. PICK i \in Bad : \A m \in Bad : i <= m
    <3>1. Bad \in SUBSET Nat
      BY <1>0
    <3> QED
      BY <3>1, LeastIn
  <2>2. i \in 0 .. Len(L) /\ ~Fine(i)
    BY <2>1
  <2>3. i # 0
    <3> SUFFICES ASSUME i = 0 PROVE FALSE
      OBVIOUS
    <3>1. kept[0] = <<>>
      BY <1>0, <1>4
    <3>2. Some(0) = {}
      OBVIOUS
    <3>3. <<>> \in Seq(S) /\ IsInjective(<<>>) /\ Range(<<>>) = {}
      BY DEF IsInjective, Range
    <3> HIDE DEF Some
    <3> QED
      BY <2>2, <3>1, <3>2, <3>3 DEF Fine
  <2>4. i - 1 \in 0 .. Len(L) /\ ~(i <= i - 1) /\ i \in 1 .. Len(L)
        /\ 1 .. i = (1 .. i - 1) \cup {i}
    BY <1>0, <2>2, <2>3
  <2>5. kept[i - 1] \in Seq(S) /\ IsInjective(kept[i - 1]) /\ Range(kept[i - 1]) = Some(i - 1)
    BY <2>1, <2>4 DEF Fine
  <2> DEFINE K == kept[i - 1]
             x == L[i]
  <2>6. x \in S
    BY <1>0, <2>4
  <2>7. CASE x \in Q
    <3>1. kept[i] = K
      BY <1>4, <2>2, <2>3, <2>7
    <3>2. Some(i) = Some(i - 1)
      BY <2>4, <2>7
    <3> HIDE DEF Some
    <3> QED
      BY <2>2, <2>5, <3>1, <3>2 DEF Fine
  <2>8. CASE x \notin Q
    <3>1. kept[i] = Append(K, x)
      BY <1>4, <2>2, <2>3, <2>8
    <3>2. Some(i) = Some(i - 1) \cup {x} /\ x \notin Some(i - 1)
      <4>1. \A j \in 1 .. i - 1 : L[j] # x
        BY <1>0, <2>2, <2>4
      <4> QED
        BY <2>4, <2>6, <2>8, <4>1
    <3> HIDE DEF Some, x, K
    <3>3. /\ Append(K, x) \in Seq(S) /\ IsInjective(Append(K, x))
          /\ Range(Append(K, x)) = Range(K) \cup {x}
      BY <2>5, <2>6, <3>2, AppendFacts DEF K
    <3> QED
      BY <2>2, <2>5, <3>1, <3>2, <3>3 DEF Fine, K
  <2> QED
    BY <2>7, <2>8
<1>6. Some(Len(L)) = Range(L) \ Q
  BY <1>0 DEF Range
<1> HIDE DEF Some
<1>7. Fine(Len(L))
  BY <1>0, <1>5
<1> QED
  BY <1>1, <1>6, <1>7

\* A list of queries, each once, and what is known of them.
ListOK(s) ==
  /\ s \in QueryState /\ IsInjective(s.list)
  /\ s.timed \subseteq Range(s.list) /\ s.asked \subseteq Range(s.list)

(* sauth_new, for a query that is not there.                               *)
LEMMA AskFacts ==
  ASSUME NEW u \in States, ListOK(u.qs), NEW q \in Query, q \notin Range(u.qs.list)
  PROVE  /\ Same(u, Ask(u, q), {"qs"}) /\ ListOK(Ask(u, q).qs)
         /\ Range(Ask(u, q).qs.list) = Range(u.qs.list) \cup {q}
         /\ Ask(u, q).qs.open = u.qs.open
         /\ Ask(u, q).qs.timed = u.qs.timed \cup {q}
         /\ Ask(u, q).qs.asked \in {u.qs.asked, u.qs.asked \cup {q}}
<1> DEFINE s == u.qs
           L == <<q>> \o s.list
           T == s.timed \cup {q}
           A == IF u.hp.proc = "alive" THEN s.asked \cup {q} ELSE s.asked
           x == [[[s EXCEPT !.list = L] EXCEPT !.timed = T] EXCEPT !.asked = A]
           v == [u EXCEPT !.qs = x]
<1>1. Ask(u, q) = v
  <2>1. Ask(u, q) = [u EXCEPT !.qs.list = L, !.qs.timed = T, !.qs.asked = A]
    BY DEF Ask
  <2> HIDE DEF L, T, A
  <2>2. Ask(u, q) = [[[u EXCEPT !.qs.list = L] EXCEPT !.qs.timed = T] EXCEPT !.qs.asked = A]
    BY <2>1
  <2>3. u.qs = s /\ u \in [hp : HelperState, qs : QueryState, look : [Look -> LookupState], lc : ClientState, down : BOOLEAN]
    BY DEF States
  <2> HIDE DEF s
  <2> QED
    BY <2>2, <2>3
<1>2. /\ s.list \in Seq(Query) /\ IsInjective(s.list) /\ s.timed \subseteq Range(s.list)
      /\ s.asked \subseteq Range(s.list) /\ s \in QueryState
  BY DEF ListOK, QueryState
<1>3. L \in Seq(Query) /\ IsInjective(L) /\ Range(L) = Range(s.list) \cup {q}
  BY <1>2, PutBackFacts
<1>4. /\ T \subseteq Range(L) /\ A \subseteq Range(L) /\ A \in {s.asked, s.asked \cup {q}}
      /\ T \in SUBSET Query /\ A \in SUBSET Query
  BY <1>2, <1>3 DEF QueryState
<1> HIDE DEF L, A
<1>5. x \in QueryState /\ x.list = L /\ x.timed = T /\ x.asked = A /\ x.open = s.open
  BY <1>2, <1>3, <1>4 DEF QueryState
<1> HIDE DEF x
<1>6. ListOK(x)
  BY <1>3, <1>4, <1>5 DEF ListOK
<1>7. Same(u, v, {"qs"}) /\ v.qs = x
  BY <1>5, StateWrites
<1> HIDE DEF v
<1> QED
  BY <1>1, <1>3, <1>4, <1>5, <1>6, <1>7

(* sauth_delete.                                                           *)
LEMMA DeleteFacts ==
  ASSUME NEW u \in States, ListOK(u.qs), NEW Q
  PROVE  /\ Same(u, Delete(u, Q), {"qs"}) /\ ListOK(Delete(u, Q).qs)
         /\ Range(Delete(u, Q).qs.list) = Range(u.qs.list) \ Q
         /\ Delete(u, Q).qs.open = u.qs.open
         /\ Delete(u, Q).qs.timed = u.qs.timed \ Q
         /\ Delete(u, Q).qs.asked = u.qs.asked \ Q
<1> DEFINE s == u.qs
           L == Without(s.list, Q)
           T == s.timed \ Q
           A == s.asked \ Q
           x == [[[s EXCEPT !.list = L] EXCEPT !.timed = T] EXCEPT !.asked = A]
           v == [u EXCEPT !.qs = x]
<1>1. Delete(u, Q) = v
  <2>1. Delete(u, Q) = [u EXCEPT !.qs.list = L, !.qs.timed = T, !.qs.asked = A]
    BY DEF Delete
  <2> HIDE DEF L, T, A
  <2>2. Delete(u, Q) = [[[u EXCEPT !.qs.list = L] EXCEPT !.qs.timed = T] EXCEPT !.qs.asked = A]
    BY <2>1
  <2>3. u.qs = s /\ u \in [hp : HelperState, qs : QueryState, look : [Look -> LookupState], lc : ClientState, down : BOOLEAN]
    BY DEF States
  <2> HIDE DEF s
  <2> QED
    BY <2>2, <2>3
<1>2. /\ s.list \in Seq(Query) /\ IsInjective(s.list) /\ s.timed \subseteq Range(s.list)
      /\ s.asked \subseteq Range(s.list) /\ s \in QueryState
  BY DEF ListOK, QueryState
<1>3. L \in Seq(Query) /\ IsInjective(L) /\ Range(L) = Range(s.list) \ Q
  BY <1>2, WithoutFacts
<1>4. T \subseteq Range(L) /\ A \subseteq Range(L) /\ T \in SUBSET Query /\ A \in SUBSET Query
  BY <1>2, <1>3 DEF QueryState
<1> HIDE DEF L
<1>5. x \in QueryState /\ x.list = L /\ x.timed = T /\ x.asked = A /\ x.open = s.open
  BY <1>2, <1>3, <1>4 DEF QueryState
<1> HIDE DEF x
<1>6. ListOK(x)
  BY <1>3, <1>4, <1>5 DEF ListOK
<1>7. Same(u, v, {"qs"}) /\ v.qs = x
  BY <1>5, StateWrites
<1> HIDE DEF v
<1> QED
  BY <1>1, <1>3, <1>5, <1>6, <1>7

-----------------------------------------------------------------------------
(* Lookups and their clients.                                              *)

LcOK(c) ==
  c \in ClientState /\ IsInjective(c.free) /\ \A b \in Range(c.free) : c.at[b] = "free"

\* The queries of the list are those lookups wait for.
Waited(u) ==
  \A l \in Look, k \in Kinds : <<l, k>> \in Range(u.qs.list) <=> k \in u.look[l].wants

Base(u) == u \in States /\ ListOK(u.qs) /\ LcOK(u.lc) /\ Waited(u)

\* Lookup l has a client, which waits for it or has left.
Owns(u, l) ==
  /\ u.look[l].block \in Block
  /\ ~u.look[l].gone => u.lc.at[u.look[l].block] \in {"asking", "user"}

LookOK(u, l) == IF u.look[l].wants = {} THEN u.look[l] = NoLook ELSE Owns(u, l)

\* Between two callbacks, and within one for lookup l.
Core(u)    == Base(u) /\ \A l \in Look : LookOK(u, l)
Busy(u, l) == Base(u) /\ Owns(u, l) /\ \A m \in Look \ {l} : LookOK(u, m)

\* What a callback does to the queries of connect{} blocks.
NamesKept(u, v) ==
  \A q \in ForName :
    /\ q \in Range(v.qs.list) <=> q \in Range(u.qs.list)
    /\ q \in v.qs.asked \cup v.qs.timed => q \in u.qs.asked \cup u.qs.timed

\* What it may do at all, when it is for lookup l.
Done1(u, v, l) ==
  /\ v.down = u.down /\ v.qs.open = u.qs.open /\ Later(u.hp, v.hp) /\ NamesKept(u, v)
  /\ \A m \in Look \ {l} : v.look[m] = u.look[m]

\* l has the same client.
Alikes(u, v, l) == v.look[l].block = u.look[l].block /\ v.look[l].gone = u.look[l].gone

LEMMA Done1Twice ==
  ASSUME NEW u, NEW v, NEW w, NEW l, Done1(u, v, l), Done1(v, w, l)
  PROVE  Done1(u, w, l)
<1>1. Later(u.hp, w.hp)
  BY LaterTwice DEF Done1
<1>2. NamesKept(u, w)
  BY DEF Done1, NamesKept
<1> QED
  BY <1>1, <1>2 DEF Done1

LEMMA BusyIsCore ==
  ASSUME NEW u, NEW l \in Look, Busy(u, l), u.look[l].wants # {}
  PROVE  Core(u)
BY DEF Busy, Core, LookOK

LEMMA CoreIsBusy ==
  ASSUME NEW u, NEW l \in Look, Core(u), u.look[l].wants # {}
  PROVE  Busy(u, l)
BY DEF Busy, Core, LookOK

LEMMA NotNames ==
  /\ \A l \in Look, k \in Kinds : <<l, k>> \in ForLook /\ <<l, k>> \in Query /\ <<l, k>> \notin ForName
  /\ \A q \in ForName : q \in Query /\ q \notin ForLook
BY LookupsAssumption DEF LookupsAssumption, ForLook, ForName, Query, Kinds

(* lclient_register, and what a lookup waits for.                          *)
LEMMA WaitsFacts ==
  ASSUME NEW u \in States, NEW l \in Look, NEW W \in SUBSET Kinds
  PROVE  /\ Same(u, Waits(u, l, W), {"look"})
         /\ \A m \in Look \ {l} : Waits(u, l, W).look[m] = u.look[m]
         /\ W = {} => Waits(u, l, W).look[l] = NoLook
         /\ W # {} => Alikes(u, Waits(u, l, W), l)
         /\ Waits(u, l, W).look[l].wants = W
<1> DEFINE x == IF W = {} THEN NoLook ELSE [u.look[l] EXCEPT !.wants = W]
           f == [u.look EXCEPT ![l] = x]
           v == [u EXCEPT !.look = f]
<1>0. u.look \in [Look -> LookupState] /\ u.look[l] \in LookupState
  BY DEF States
<1>1. Waits(u, l, W) = v
  BY DEF Waits
<1>2. NoLook \in LookupState /\ NoLook.wants = {}
  BY DEF NoLook, LookupState
<1>3. W # {} => x \in LookupState /\ x.wants = W /\ x.block = u.look[l].block /\ x.gone = u.look[l].gone
  BY <1>0 DEF LookupState
<1>4. W = {} => x = NoLook
  OBVIOUS
<1> HIDE DEF x
<1>5. f \in [Look -> LookupState] /\ f[l] = x /\ \A m \in Look \ {l} : f[m] = u.look[m]
  BY <1>0, <1>2, <1>3, <1>4
<1> HIDE DEF f
<1>6. Same(u, v, {"look"}) /\ v.look = f
  BY <1>5, StateWrites
<1> HIDE DEF v
<1> QED
  BY <1>1, <1>2, <1>3, <1>4, <1>5, <1>6 DEF Alikes

LEMMA RegistersFacts ==
  ASSUME NEW u, Base(u), NEW b \in Block
  PROVE  /\ Same(u, Registers(u, b), {"lc"}) /\ LcOK(Registers(u, b).lc)
         /\ \A l \in Look : /\ Owns(u, l) => Owns(Registers(u, b), l)
                            /\ LookOK(u, l) => LookOK(Registers(u, b), l)
<1>0. u \in States /\ u.lc \in ClientState /\ LcOK(u.lc)
  BY DEF Base, States
<1>1. CASE u.lc.at[b] = "asking"
  <2> DEFINE A == [u.lc.at EXCEPT ![b] = "user"]
             x == [u.lc EXCEPT !.at = A]
             v == [u EXCEPT !.lc = x]
  <2>1. Registers(u, b) = v
    BY <1>1 DEF Registers
  <2>2. /\ A \in [Block -> {"free", "new", "asking", "user"}] /\ A[b] = "user"
        /\ \A c \in Block \ {b} : A[c] = u.lc.at[c]
    BY <1>0 DEF ClientState
  <2> HIDE DEF A
  <2>3. x \in ClientState /\ x.at = A /\ x.free = u.lc.free
    BY <1>0, <2>2 DEF ClientState
  <2> HIDE DEF x
  <2>4. Same(u, v, {"lc"}) /\ v.lc = x
    BY <1>0, <2>3, StateWrites
  <2> HIDE DEF v
  <2>5. b \notin Range(u.lc.free)
    BY <1>0, <1>1 DEF LcOK
  <2>6. Range(u.lc.free) \subseteq Block
    BY <1>0 DEF ClientState, Range
  <2>7. LcOK(x)
    BY <1>0, <2>2, <2>3, <2>5, <2>6 DEF LcOK
  <2>8. \A l \in Look : v.look[l] = u.look[l]
    BY <2>4 DEF Same
  <2>9. \A l \in Look : Owns(u, l) => Owns(v, l)
    BY <2>2, <2>3, <2>4, <2>8 DEF Owns
  <2> QED
    BY <2>1, <2>4, <2>7, <2>8, <2>9 DEF LookOK
<1>2. CASE u.lc.at[b] # "asking"
  BY <1>0, <1>2 DEF Registers, Same
<1> QED
  BY <1>1, <1>2

(* Steps within a callback for l.                                          *)
LEMMA LaunchBusy ==
  ASSUME NEW u, NEW l \in Look, Busy(u, l), NEW r \in Launch(u)
  PROVE  Busy(r.u, l) /\ Done1(u, r.u, l) /\ r.u.look = u.look /\ r.u.qs = u.qs /\ r.ok \in BOOLEAN
<1>1. Same(u, r.u, {"hp"}) /\ Later(u.hp, r.u.hp) /\ r.ok \in BOOLEAN
  BY LaunchFacts DEF Busy, Base
<1>2. /\ r.u \in States /\ r.u.qs = u.qs /\ r.u.look = u.look /\ r.u.lc = u.lc /\ r.u.down = u.down
  BY <1>1 DEF Same
<1>3. Busy(r.u, l)
  BY <1>2 DEF Busy, Base, Waited, Owns, LookOK
<1>4. Done1(u, r.u, l)
  BY <1>1, <1>2 DEF Done1, NamesKept
<1> QED
  BY <1>1, <1>2, <1>3, <1>4

LEMMA RegistersBusy ==
  ASSUME NEW u, NEW l \in Look, Busy(u, l), NEW b \in Block
  PROVE  /\ Busy(Registers(u, b), l) /\ Done1(u, Registers(u, b), l)
         /\ Registers(u, b).look = u.look /\ Registers(u, b).qs = u.qs
<1> DEFINE v == Registers(u, b)
<1>1. /\ Same(u, v, {"lc"}) /\ LcOK(v.lc)
      /\ \A m \in Look : (Owns(u, m) => Owns(v, m)) /\ (LookOK(u, m) => LookOK(v, m))
  BY RegistersFacts DEF Busy
<1> HIDE DEF v
<1>2. v \in States /\ v.qs = u.qs /\ v.look = u.look /\ v.hp = u.hp /\ v.down = u.down
      /\ u.hp \in HelperState
  BY <1>1 DEF Same, Busy, Base, States
<1>3. Busy(v, l)
  BY <1>1, <1>2 DEF Busy, Base, Waited
<1>4. Done1(u, v, l)
  BY <1>2, LaterSame DEF Done1, NamesKept
<1> QED
  BY <1>2, <1>3, <1>4 DEF v

LEMMA RegistersCore ==
  ASSUME NEW u, Core(u), NEW b \in Block, NEW l \in Look
  PROVE  /\ Core(Registers(u, b)) /\ Done1(u, Registers(u, b), l)
         /\ Registers(u, b).look = u.look /\ Registers(u, b).qs = u.qs
<1> DEFINE v == Registers(u, b)
<1>1. /\ Same(u, v, {"lc"}) /\ LcOK(v.lc)
      /\ \A m \in Look : LookOK(u, m) => LookOK(v, m)
  BY RegistersFacts DEF Core
<1> HIDE DEF v
<1>2. v \in States /\ v.qs = u.qs /\ v.look = u.look /\ v.hp = u.hp /\ v.down = u.down
      /\ u.hp \in HelperState
  BY <1>1 DEF Same, Core, Base, States
<1>3. Core(v)
  BY <1>1, <1>2 DEF Core, Base, Waited
<1>4. Done1(u, v, l)
  BY <1>2, LaterSame DEF Done1, NamesKept
<1> QED
  BY <1>2, <1>3, <1>4 DEF v

(* A query more.                                                           *)
LEMMA AskForBusy ==
  ASSUME NEW u, NEW l \in Look, Busy(u, l), NEW k \in Kinds, k \notin u.look[l].wants
  PROVE  /\ Busy(AskFor(u, l, k), l) /\ Done1(u, AskFor(u, l, k), l) /\ Alikes(u, AskFor(u, l, k), l)
         /\ AskFor(u, l, k).look[l].wants = u.look[l].wants \cup {k}
<1> DEFINE W == u.look[l].wants \cup {k}
           w == Waits(u, l, W)
           q == <<l, k>>
           v == Ask(w, q)
<1>0. u \in States /\ ListOK(u.qs) /\ Waited(u) /\ LcOK(u.lc) /\ u.look[l] \in LookupState
  BY DEF Busy, Base, States
<1>1. AskFor(u, l, k) = v
  BY DEF AskFor
<1>2. W \in SUBSET Kinds /\ W # {}
  BY <1>0 DEF LookupState
<1> HIDE DEF W
<1>3. /\ Same(u, w, {"look"}) /\ Alikes(u, w, l) /\ w.look[l].wants = W
      /\ \A m \in Look \ {l} : w.look[m] = u.look[m]
  BY <1>0, <1>2, WaitsFacts
<1> HIDE DEF w
<1>4. /\ w \in States /\ w.qs = u.qs /\ w.hp = u.hp /\ w.lc = u.lc /\ w.down = u.down
  BY <1>3 DEF Same
<1>5. q \in Query /\ q \notin Range(w.qs.list) /\ q \notin ForName
  BY <1>0, <1>4, NotNames DEF Waited
<1>6. /\ Same(w, v, {"qs"}) /\ ListOK(v.qs) /\ Range(v.qs.list) = Range(u.qs.list) \cup {q}
      /\ v.qs.open = u.qs.open /\ v.qs.timed = u.qs.timed \cup {q}
      /\ v.qs.asked \in {u.qs.asked, u.qs.asked \cup {q}}
  BY <1>0, <1>4, <1>5, AskFacts
<1> HIDE DEF v
<1>7. /\ v \in States /\ v.hp = u.hp /\ v.lc = u.lc /\ v.down = u.down /\ v.look = w.look
  BY <1>4, <1>6 DEF Same
<1>8. Waited(v)
  <2> SUFFICES ASSUME NEW m \in Look, NEW j \in Kinds
               PROVE  <<m, j>> \in Range(v.qs.list) <=> j \in v.look[m].wants
    BY DEF Waited
  <2>1. <<m, j>> \in Range(u.qs.list) <=> j \in u.look[m].wants
    BY <1>0 DEF Waited
  <2>2. <<m, j>> = q <=> m = l /\ j = k
    OBVIOUS
  <2> QED
    BY <1>3, <1>6, <1>7, <2>1, <2>2 DEF W
<1>9. Base(v)
  BY <1>0, <1>6, <1>7, <1>8 DEF Base
<1>10. Busy(v, l)
  BY <1>3, <1>7, <1>9 DEF Busy, Owns, LookOK, Alikes
<1>11. NamesKept(u, v)
  BY <1>5, <1>6 DEF NamesKept
<1>12. Later(u.hp, v.hp)
  BY <1>0, <1>7, LaterSame DEF States
<1> QED
  BY <1>1, <1>3, <1>6, <1>7, <1>10, <1>11, <1>12 DEF W, Done1, Alikes

(* A query less; with the last one the lookup ends.                        *)
LEMMA EndedCore ==
  ASSUME NEW u, NEW l \in Look, Busy(u, l), NEW k \in Kinds, NEW x \in Ended(u, l, k)
  PROVE  /\ Core(x) /\ Done1(u, x, l)
         /\ x.look[l].wants = u.look[l].wants \ {k} /\ x.lc = u.lc
         /\ u.look[l].wants \ {k} # {} => Alikes(u, x, l)
<1> DEFINE W == u.look[l].wants \ {k}
           q == <<l, k>>
           w == Delete(u, {q})
           v == Waits(w, l, W)
<1>0. u \in States /\ ListOK(u.qs) /\ Waited(u) /\ LcOK(u.lc) /\ u.look[l] \in LookupState
  BY DEF Busy, Base, States
<1>1. x = Waits(w, l, w.look[l].wants \ {k})
  BY DEF Ended
<1>2. W \in SUBSET Kinds
  BY <1>0 DEF LookupState
<1>3. /\ Same(u, w, {"qs"}) /\ ListOK(w.qs) /\ Range(w.qs.list) = Range(u.qs.list) \ {q}
      /\ w.qs.open = u.qs.open /\ w.qs.timed = u.qs.timed \ {q} /\ w.qs.asked = u.qs.asked \ {q}
  BY <1>0, DeleteFacts
<1> HIDE DEF w
<1>4. w \in States /\ w.hp = u.hp /\ w.lc = u.lc /\ w.down = u.down /\ w.look = u.look
  BY <1>3 DEF Same
<1>13. x = v
  BY <1>1, <1>4
<1> HIDE DEF W
<1>5. /\ Same(w, v, {"look"}) /\ v.look[l].wants = W
      /\ (W = {} => v.look[l] = NoLook) /\ (W # {} => Alikes(w, v, l))
      /\ \A m \in Look \ {l} : v.look[m] = w.look[m]
  BY <1>2, <1>4, WaitsFacts
<1> HIDE DEF v
<1>6. v \in States /\ v.hp = u.hp /\ v.lc = u.lc /\ v.down = u.down /\ v.qs = w.qs
  BY <1>4, <1>5 DEF Same
<1>7. q \notin ForName
  BY NotNames
<1>8. Waited(v)
  <2> SUFFICES ASSUME NEW m \in Look, NEW j \in Kinds
               PROVE  <<m, j>> \in Range(v.qs.list) <=> j \in v.look[m].wants
    BY DEF Waited
  <2>1. <<m, j>> \in Range(u.qs.list) <=> j \in u.look[m].wants
    BY <1>0 DEF Waited
  <2>2. <<m, j>> = q <=> m = l /\ j = k
    OBVIOUS
  <2> QED
    BY <1>3, <1>4, <1>5, <1>6, <2>1, <2>2 DEF W
<1>9. Base(v)
  BY <1>0, <1>3, <1>6, <1>8 DEF Base
<1>10. ASSUME NEW m \in Look PROVE LookOK(v, m)
  <2>1. CASE m = l /\ W = {}
    BY <1>5, <2>1 DEF LookOK
  <2>2. CASE m = l /\ W # {}
    BY <1>4, <1>5, <1>6, <2>2 DEF LookOK, Owns, Busy, Alikes
  <2>3. CASE m # l
    BY <1>4, <1>5, <1>6, <2>3 DEF LookOK, Owns, Busy
  <2> QED
    BY <2>1, <2>2, <2>3
<1>11. NamesKept(u, v)
  BY <1>3, <1>6, <1>7 DEF NamesKept
<1>12. Later(u.hp, v.hp)
  BY <1>0, <1>6, LaterSame DEF States
<1> QED
  BY <1>13, <1>3, <1>4, <1>5, <1>6, <1>9, <1>10, <1>11, <1>12 DEF W, Core, Done1, Alikes

(* lc_sauth_handshake ends without a query, or goes on.                    *)
LEMMA WaitsCore ==
  ASSUME NEW u, NEW l \in Look, Busy(u, l)
  PROVE  LET v == Waits(u, l, u.look[l].wants)
         IN  Core(v) /\ Done1(u, v, l) /\ v.look[l].wants = u.look[l].wants
<1> DEFINE W == u.look[l].wants
           v == Waits(u, l, W)
<1>0. u \in States /\ ListOK(u.qs) /\ Waited(u) /\ LcOK(u.lc) /\ W \in SUBSET Kinds
  BY DEF Busy, Base, States, LookupState
<1>1. /\ Same(u, v, {"look"}) /\ v.look[l].wants = W
      /\ (W = {} => v.look[l] = NoLook) /\ (W # {} => Alikes(u, v, l))
      /\ \A m \in Look \ {l} : v.look[m] = u.look[m]
  BY <1>0, WaitsFacts
<1> HIDE DEF v
<1>2. v \in States /\ v.hp = u.hp /\ v.lc = u.lc /\ v.down = u.down /\ v.qs = u.qs
  BY <1>1 DEF Same
<1>3. \A m \in Look : v.look[m].wants = u.look[m].wants
  BY <1>1
<1>4. Base(v)
  BY <1>0, <1>2, <1>3 DEF Base, Waited
<1>5. ASSUME NEW m \in Look PROVE LookOK(v, m)
  <2>1. CASE m = l /\ W = {}
    BY <1>1, <2>1 DEF LookOK
  <2>2. CASE m = l /\ W # {}
    BY <1>1, <1>2, <2>2 DEF LookOK, Owns, Busy, Alikes
  <2>3. CASE m # l
    BY <1>1, <1>2, <2>3 DEF LookOK, Owns, Busy
  <2> QED
    BY <2>1, <2>2, <2>3
<1>6. Later(u.hp, v.hp)
  BY <1>0, <1>2, LaterSame DEF States
<1>7. Core(v) /\ Done1(u, v, l)
  BY <1>1, <1>2, <1>4, <1>5, <1>6 DEF Core, Done1, NamesKept
<1> QED
  BY <1>1, <1>7 DEF v

(* lc_sauth_done.                                                          *)
LEMMA DoneCore ==
  ASSUME NEW u, NEW l \in Look, Busy(u, l) \/ Core(u)
  PROVE  Core(Done(u, l)) /\ Done1(u, Done(u, l), l) /\ Done(u, l).look[l].wants = {}
         /\ Done(u, l).lc = u.lc
<1> DEFINE Q == {<<l, k>> : k \in u.look[l].wants}
           w == Delete(u, Q)
           f == [w.look EXCEPT ![l] = NoLook]
           v == [w EXCEPT !.look = f]
<1>0. /\ u \in States /\ ListOK(u.qs) /\ Waited(u) /\ LcOK(u.lc) /\ u.look[l] \in LookupState
      /\ \A m \in Look \ {l} : LookOK(u, m)
  BY DEF Busy, Core, Base, States
<1>1. Done(u, l) = v
  BY DEF Done
<1>2. /\ Same(u, w, {"qs"}) /\ ListOK(w.qs) /\ Range(w.qs.list) = Range(u.qs.list) \ Q
      /\ w.qs.open = u.qs.open /\ w.qs.timed = u.qs.timed \ Q /\ w.qs.asked = u.qs.asked \ Q
  BY <1>0, DeleteFacts
<1> HIDE DEF w
<1>3. w \in States /\ w.hp = u.hp /\ w.lc = u.lc /\ w.down = u.down /\ w.look = u.look
  BY <1>2 DEF Same
<1>4. NoLook \in LookupState /\ NoLook.wants = {}
  BY DEF NoLook, LookupState
<1>5. f \in [Look -> LookupState] /\ f[l] = NoLook /\ \A m \in Look \ {l} : f[m] = u.look[m]
  BY <1>3, <1>4 DEF States
<1> HIDE DEF f
<1>6. Same(w, v, {"look"}) /\ v.look = f
  BY <1>3, <1>5, StateWrites
<1> HIDE DEF v
<1>7. v \in States /\ v.hp = u.hp /\ v.lc = u.lc /\ v.down = u.down /\ v.qs = w.qs
  BY <1>3, <1>6 DEF Same
<1>8. \A q \in ForName : q \notin Q
  BY <1>0, NotNames DEF LookupState
<1>9. Waited(v)
  <2> SUFFICES ASSUME NEW m \in Look, NEW j \in Kinds
               PROVE  <<m, j>> \in Range(v.qs.list) <=> j \in v.look[m].wants
    BY DEF Waited
  <2>1. <<m, j>> \in Range(u.qs.list) <=> j \in u.look[m].wants
    BY <1>0 DEF Waited
  <2>2. <<m, j>> \in Q <=> m = l /\ j \in u.look[l].wants
    OBVIOUS
  <2> HIDE DEF Q
  <2> QED
    BY <1>2, <1>4, <1>5, <1>6, <1>7, <2>1, <2>2
<1> HIDE DEF Q
<1>10. Base(v)
  BY <1>0, <1>2, <1>7, <1>9 DEF Base
<1>11. ASSUME NEW m \in Look PROVE LookOK(v, m)
  <2>1. CASE m = l
    BY <1>4, <1>5, <1>6, <2>1 DEF LookOK
  <2>2. CASE m # l
    BY <1>0, <1>5, <1>6, <1>7, <2>2 DEF LookOK, Owns
  <2> QED
    BY <2>1, <2>2
<1>12. NamesKept(u, v)
  BY <1>2, <1>7, <1>8 DEF NamesKept
<1>13. Later(u.hp, v.hp)
  BY <1>0, <1>7, LaterSame DEF States
<1> QED
  BY <1>1, <1>2, <1>4, <1>5, <1>6, <1>7, <1>10, <1>11, <1>12, <1>13 DEF Core, Done1

(* lclient_vexit.                                                          *)
LEMMA ExitCore ==
  ASSUME NEW u, Core(u), NEW b \in Block, u.lc.at[b] # "free"
  PROVE  /\ Core(Exit(u, b)) /\ Exit(u, b).hp = u.hp /\ Exit(u, b).qs = u.qs
         /\ Exit(u, b).down = u.down
         /\ \A l \in Look : Exit(u, b).look[l].wants = u.look[l].wants
<1> DEFINE A == [u.lc.at EXCEPT ![b] = "free"]
           F == <<b>> \o u.lc.free
           x == [[u.lc EXCEPT !.at = A] EXCEPT !.free = F]
           g == [l \in Look |->
                   IF u.look[l].block = b THEN [u.look[l] EXCEPT !.gone = TRUE] ELSE u.look[l]]
           w == [u EXCEPT !.lc = x]
           v == [w EXCEPT !.look = g]
<1>0. /\ u \in States /\ ListOK(u.qs) /\ Waited(u) /\ LcOK(u.lc) /\ u.look \in [Look -> LookupState]
      /\ \A l \in Look : LookOK(u, l) /\ u.look[l] \in LookupState
  BY DEF Core, Base, States
<1>1. Exit(u, b) = v
  <2>1. Exit(u, b) = [u EXCEPT !.lc.at[b] = "free", !.lc.free = F, !.look = g]
    BY DEF Exit
  <2> HIDE DEF F, g
  <2>2. Exit(u, b) = [[[u EXCEPT !.lc.at[b] = "free"] EXCEPT !.lc.free = F] EXCEPT !.look = g]
    BY <2>1
  <2>3. u \in [hp : HelperState, qs : QueryState, look : [Look -> LookupState], lc : ClientState, down : BOOLEAN]
    BY <1>0 DEF States
  <2> QED
    BY <2>2, <2>3
<1>2. u.lc \in ClientState /\ u.lc.free \in Seq(Block) /\ IsInjective(u.lc.free)
  BY <1>0 DEF LcOK, ClientState
<1>3. b \notin Range(u.lc.free) /\ Range(u.lc.free) \subseteq Block
  BY <1>0, <1>2 DEF LcOK, Range
<1>4. F \in Seq(Block) /\ IsInjective(F) /\ Range(F) = Range(u.lc.free) \cup {b}
  BY <1>2, <1>3, PutBackFacts
<1>5. /\ A \in [Block -> {"free", "new", "asking", "user"}] /\ A[b] = "free"
      /\ \A c \in Block \ {b} : A[c] = u.lc.at[c]
  BY <1>2 DEF ClientState
<1> HIDE DEF A, F
<1>6. x \in ClientState /\ x.at = A /\ x.free = F
  BY <1>2, <1>4, <1>5 DEF ClientState
<1> HIDE DEF x
<1>7. LcOK(x)
  BY <1>0, <1>3, <1>4, <1>5, <1>6 DEF LcOK
<1>8. ASSUME NEW l \in Look
      PROVE  /\ g[l] \in LookupState /\ g[l].wants = u.look[l].wants /\ g[l].block = u.look[l].block
             /\ (u.look[l].block = b => g[l].gone)
             /\ u.look[l].block # b => g[l] = u.look[l]
  BY <1>0 DEF LookupState
<1>9. g \in [Look -> LookupState]
  BY <1>8
<1> HIDE DEF g
<1>10. Same(u, w, {"lc"}) /\ w.lc = x
  BY <1>0, <1>6, StateWrites
<1> HIDE DEF w
<1>11. w \in States /\ w.hp = u.hp /\ w.qs = u.qs /\ w.down = u.down
  BY <1>10 DEF Same
<1>12. Same(w, v, {"look"}) /\ v.look = g
  BY <1>9, <1>11, StateWrites
<1> HIDE DEF v
<1>13. v \in States /\ v.hp = u.hp /\ v.qs = u.qs /\ v.down = u.down /\ v.lc = x
  BY <1>10, <1>11, <1>12 DEF Same
<1>14. Base(v)
  BY <1>0, <1>7, <1>8, <1>12, <1>13 DEF Base, Waited
<1>15. ASSUME NEW l \in Look PROVE LookOK(v, l)
  <2>1. CASE u.look[l].wants = {}
    <3>1. u.look[l] = NoLook
      BY <1>0, <2>1 DEF LookOK
    <3>2. u.look[l].block # b
      BY <3>1, LookupsAssumption DEF LookupsAssumption, NoLook
    <3> QED
      BY <1>8, <1>12, <2>1, <3>1, <3>2 DEF LookOK
  <2>2. CASE u.look[l].wants # {}
    <3>1. Owns(u, l)
      BY <1>0, <2>2 DEF LookOK
    <3>2. Owns(v, l)
      <4>1. CASE u.look[l].block = b
        BY <1>8, <1>12, <4>1, <3>1 DEF Owns
      <4>2. CASE u.look[l].block # b
        BY <1>5, <1>6, <1>8, <1>12, <1>13, <3>1, <4>2 DEF Owns
      <4> QED
        BY <4>1, <4>2
    <3> QED
      BY <1>8, <1>12, <2>2, <3>2 DEF LookOK
  <2> QED
    BY <2>1, <2>2
<1> QED
  BY <1>1, <1>8, <1>12, <1>13, <1>14, <1>15 DEF Core

(* lookup_auth.                                                            *)
LEMMA LookupAuthBusy ==
  ASSUME NEW u, NEW l \in Look, Busy(u, l), "auth" \notin u.look[l].wants, NEW v \in LookupAuth(u, l)
  PROVE  /\ Busy(v, l) /\ Done1(u, v, l) /\ Alikes(u, v, l)
         /\ v.look[l].wants \in {u.look[l].wants, u.look[l].wants \cup {"auth"}}
<1>1. PICK r \in Launch(u) :
        v = IF r.ok THEN AskFor(r.u, l, "auth") ELSE Registers(r.u, u.look[l].block)
  BY DEF LookupAuth
<1>2. /\ Busy(r.u, l) /\ Done1(u, r.u, l) /\ r.u.look = u.look
  BY LaunchBusy
<1>3. CASE r.ok
  <2>1. "auth" \in Kinds /\ "auth" \notin r.u.look[l].wants /\ v = AskFor(r.u, l, "auth")
    BY <1>1, <1>2, <1>3 DEF Kinds
  <2>2. /\ Busy(v, l) /\ Done1(r.u, v, l) /\ Alikes(r.u, v, l)
        /\ v.look[l].wants = r.u.look[l].wants \cup {"auth"}
    BY <1>2, <2>1, AskForBusy
  <2>3. Done1(u, v, l)
    BY <1>2, <2>2, Done1Twice
  <2> QED
    BY <1>2, <2>2, <2>3 DEF Alikes
<1>4. CASE ~r.ok
  <2>1. u.look[l].block \in Block /\ v = Registers(r.u, u.look[l].block)
    BY <1>1, <1>4 DEF Busy, Owns
  <2>2. Busy(v, l) /\ Done1(r.u, v, l) /\ v.look = r.u.look
    BY <1>2, <2>1, RegistersBusy
  <2>3. Done1(u, v, l)
    BY <1>2, <2>2, Done1Twice
  <2> QED
    BY <1>2, <2>2, <2>3 DEF Alikes
<1> QED
  BY <1>3, <1>4

\* Proxies more.
More(u, v, l) == \E P \in SUBSET Port : v.look[l].wants = u.look[l].wants \cup P

(* lc_sauth_auth asks for every service.                                   *)
LEMMA CheckProxyBusy ==
  ASSUME NEW u, NEW l \in Look, Busy(u, l), u.look[l].wants \cap Port = {}, NEW v \in CheckProxy(u, l)
  PROVE  Busy(v, l) /\ Done1(u, v, l) /\ Alikes(u, v, l) /\ More(u, v, l)
<1> DEFINE W == u.look[l].wants
           Step(f, i) ==
             IF i = 0 THEN {u}
             ELSE UNION {{IF r.ok THEN AskFor(r.u, l, Ports[i]) ELSE r.u : r \in Launch(x)} :
                         x \in f[i - 1]}
           Upto(k) == \E f : f = [i \in 0 .. k |-> Step(f, i)]
           asked == CHOOSE f : f = [i \in 0 .. Len(Ports) |-> Step(f, i)]
<1>0. /\ Len(Ports) \in Nat /\ \A i \in 1 .. Len(Ports) : Ports[i] \in Port /\ Ports[i] \in Kinds
      /\ \A i \in 1 .. Len(Ports), j \in 1 .. Len(Ports) : Ports[i] = Ports[j] => i = j
  BY LookupsAssumption DEF LookupsAssumption, IsInjective, Kinds
<1>1. PICK w \in asked[Len(Ports)] :
        v = IF w.look[l].wants \cap Port = {} THEN Registers(w, u.look[l].block) ELSE w
  BY DEF CheckProxy
<1>2. ASSUME NEW k \in Nat PROVE Upto(k)
  <2> DEFINE Bad == {m \in Nat : ~Upto(m)}
  <2> SUFFICES ASSUME Bad # {} PROVE FALSE
    OBVIOUS
  <2> HIDE DEF Upto
  <2>1. PICK m \in Bad : \A n \in Bad : m <= n
    BY LeastIn, Bad \in SUBSET Nat
  <2>2. m \in Nat /\ ~Upto(m)
    BY <2>1
  <2>3. Upto(0)
    <3> DEFINE f == [n \in 0 .. 0 |-> {u}]
    <3>1. f = [n \in 0 .. 0 |-> Step(f, n)]
      OBVIOUS
    <3> HIDE DEF f
    <3> QED
      BY <3>1, Zenon DEF Upto
  <2>4. m # 0 /\ m - 1 \in Nat /\ ~(m <= m - 1)
    BY <2>2, <2>3
  <2>5. Upto(m - 1)
    BY <2>1, <2>4
  <2>6. PICK f : f = [n \in 0 .. m - 1 |-> Step(f, n)]
    BY <2>5 DEF Upto
  <2> DEFINE g == [n \in 0 .. m |-> IF n = m THEN Step(f, m) ELSE f[n]]
  <2>7. \A n \in 0 .. m - 1 : f[n] = Step(f, n)
    BY <2>6
  <2>8. \A n \in 0 .. m : g[n] = Step(g, n)
    <3> SUFFICES ASSUME NEW n \in 0 .. m PROVE g[n] = Step(g, n)
      OBVIOUS
    <3>1. n # 0 => n - 1 \in 0 .. m /\ n - 1 # m
      BY <2>2
    <3>2. n # 0 => g[n - 1] = f[n - 1]
      BY <3>1
    <3>3. Step(g, n) = Step(f, n)
      BY <3>2
    <3>4. CASE n = m
      BY <3>3, <3>4
    <3>5. CASE n # m
      <4>1. n \in 0 .. m - 1
        BY <2>2, <3>5
      <4> QED
        BY <2>7, <3>3, <3>5, <4>1
    <3> QED
      BY <3>4, <3>5
  <2>9. g = [n \in 0 .. m |-> g[n]]
    OBVIOUS
  <2> HIDE DEF g, Step
  <2>10. g = [n \in 0 .. m |-> Step(g, n)]
    BY <2>8, <2>9
  <2> QED
    BY <2>2, <2>10, Zenon DEF Upto
<1>3. asked = [i \in 0 .. Len(Ports) |-> Step(asked, i)]
  <2>1. Upto(Len(Ports))
    BY <1>0, <1>2
  <2> QED
    BY <2>1, Zenon
<1> HIDE DEF asked
<1>4. \A i \in 0 .. Len(Ports) : asked[i] = Step(asked, i)
  BY <1>3
\* After i services.
<1> DEFINE First(i) == {Ports[j] : j \in 1 .. i}
           Fine(x, i) == /\ Busy(x, l) /\ Done1(u, x, l) /\ Alikes(u, x, l)
                         /\ \E P \in SUBSET First(i) : x.look[l].wants = W \cup P
<1>5. \A i \in 0 .. Len(Ports) : \A x \in asked[i] : Fine(x, i)
  <2> DEFINE Bad == {i \in 0 .. Len(Ports) : ~\A x \in asked[i] : Fine(x, i)}
  <2> SUFFICES ASSUME Bad # {} PROVE FALSE
    OBVIOUS
  <2> HIDE DEF Fine
  <2>1. PICK i \in Bad : \A m \in Bad : i <= m
    <3>1. Bad \in SUBSET Nat
      BY <1>0
    <3> QED
      BY <3>1, LeastIn
  <2>2. i \in 0 .. Len(Ports) /\ ~\A x \in asked[i] : Fine(x, i)
    BY <2>1
  <2>3. i # 0
    <3> SUFFICES ASSUME i = 0 PROVE FALSE
      OBVIOUS
    <3>1. asked[0] = {u}
      BY <1>0, <1>4
    <3>2. Done1(u, u, l) /\ Alikes(u, u, l)
      BY LaterSame DEF Busy, Base, States, Done1, Alikes, NamesKept
    <3>3. {} \in SUBSET First(0) /\ W = W \cup {}
      OBVIOUS
    <3>4. Fine(u, 0)
      BY <3>2, <3>3 DEF Fine
    <3> QED
      BY <2>2, <3>1, <3>4
  <2>4. i - 1 \in 0 .. Len(Ports) /\ ~(i <= i - 1) /\ i \in 1 .. Len(Ports)
        /\ 1 .. i = (1 .. i - 1) \cup {i}
    BY <1>0, <2>2, <2>3
  <2>5. \A x \in asked[i - 1] : Fine(x, i - 1)
    BY <2>1, <2>4
  <2>6. PICK y \in asked[i] : ~Fine(y, i)
    BY <2>2
  <2>7. asked[i] = UNION {{IF r.ok THEN AskFor(r.u, l, Ports[i]) ELSE r.u : r \in Launch(x)} :
                          x \in asked[i - 1]}
    BY <1>4, <2>2, <2>3
  <2>8. PICK x \in asked[i - 1] : \E r \in Launch(x) :
          y = IF r.ok THEN AskFor(r.u, l, Ports[i]) ELSE r.u
    BY <2>6, <2>7
  <2>9. PICK r \in Launch(x) : y = IF r.ok THEN AskFor(r.u, l, Ports[i]) ELSE r.u
    BY <2>8
  <2>10. Busy(x, l) /\ Done1(u, x, l) /\ Alikes(u, x, l)
    BY <2>5 DEF Fine
  <2>11. PICK P \in SUBSET First(i - 1) : x.look[l].wants = W \cup P
    BY <2>5 DEF Fine
  <2>12. Busy(r.u, l) /\ Done1(x, r.u, l) /\ r.u.look = x.look
    BY <2>10, LaunchBusy
  <2>13. Done1(u, r.u, l) /\ Alikes(u, r.u, l)
    BY <2>10, <2>12, Done1Twice DEF Alikes
  <2>14. First(i) = First(i - 1) \cup {Ports[i]} /\ Ports[i] \notin First(i - 1)
    <3>1. \A j \in 1 .. i - 1 : Ports[j] # Ports[i]
      BY <1>0, <2>2, <2>4
    <3> QED
      BY <2>4, <3>1
  <2> HIDE DEF First
  <2>15. CASE r.ok
    <3>1. y = AskFor(r.u, l, Ports[i]) /\ Ports[i] \in Kinds /\ Ports[i] \in Port
      BY <1>0, <2>4, <2>9, <2>15
    <3>2. Ports[i] \notin r.u.look[l].wants
      BY <2>11, <2>12, <2>14, <3>1
    <3>3. /\ Busy(y, l) /\ Done1(r.u, y, l) /\ Alikes(r.u, y, l)
          /\ y.look[l].wants = r.u.look[l].wants \cup {Ports[i]}
      BY <2>12, <3>1, <3>2, AskForBusy
    <3>4. Done1(u, y, l) /\ Alikes(u, y, l)
      BY <2>13, <3>3, Done1Twice DEF Alikes
    <3>5. P \cup {Ports[i]} \in SUBSET First(i) /\ y.look[l].wants = W \cup (P \cup {Ports[i]})
      BY <2>11, <2>12, <2>14, <3>3
    <3> QED
      BY <2>6, <3>3, <3>4, <3>5 DEF Fine
  <2>16. CASE ~r.ok
    <3>1. y = r.u /\ P \in SUBSET First(i) /\ y.look[l].wants = W \cup P
      BY <2>9, <2>11, <2>12, <2>14, <2>16
    <3> QED
      BY <2>6, <2>12, <2>13, <3>1 DEF Fine
  <2> QED
    BY <2>15, <2>16
<1>6. First(Len(Ports)) \subseteq Port
  BY <1>0
<1> HIDE DEF First, Fine
<1>7. Fine(w, Len(Ports))
  BY <1>0, <1>1, <1>5
<1>8. PICK P \in SUBSET Port : w.look[l].wants = W \cup P
  BY <1>6, <1>7 DEF Fine
<1>9. Busy(w, l) /\ Done1(u, w, l) /\ Alikes(u, w, l)
  BY <1>7 DEF Fine
<1>10. CASE w.look[l].wants \cap Port = {}
  <2>1. v = Registers(w, u.look[l].block) /\ u.look[l].block \in Block
    BY <1>1, <1>10 DEF Busy, Owns
  <2>2. Busy(v, l) /\ Done1(w, v, l) /\ v.look = w.look
    BY <1>9, <2>1, RegistersBusy
  <2>3. Done1(u, v, l) /\ Alikes(u, v, l)
    BY <1>9, <2>2, Done1Twice DEF Alikes
  <2> QED
    BY <1>8, <2>2, <2>3 DEF More
<1>11. CASE w.look[l].wants \cap Port # {}
  BY <1>1, <1>8, <1>9, <1>11 DEF More
<1> QED
  BY <1>10, <1>11

-----------------------------------------------------------------------------
(* What comes of an answer.                                                *)

\* One query at a time, but for the proxies.
OneOfMany(W) == W \in {{}, {"dns"}, {"auth"}} \/ W \subseteq Port
Few(u) == \A l \in Look : OneOfMany(u.look[l].wants)

\* Query k of lookup l was answered, or failed.
Answers(u, v, l, k) ==
  /\ Core(v) /\ Done1(u, v, l) /\ OneOfMany(v.look[l].wants)
  /\ u.look[l].wants \ {k} \subseteq v.look[l].wants

LEMMA PortKinds == "dns" \notin Port /\ "auth" \notin Port /\ Port \subseteq Kinds
BY LookupsAssumption DEF LookupsAssumption, Kinds

(* lc_sauth_dns.                                                           *)
LEMMA TellDnsFacts ==
  ASSUME NEW u, Core(u), Few(u), NEW l \in Look, "dns" \in u.look[l].wants, NEW v \in TellDns(u, l)
  PROVE  Answers(u, v, l, "dns")
<1>1. u.look[l].wants = {"dns"}
  BY PortKinds DEF Few, OneOfMany
<1>2. PICK w \in LookupAuth(u, l) : v \in Ended(w, l, "dns")
  BY DEF TellDns
<1>3. Busy(u, l)
  BY CoreIsBusy
<1>4. Busy(w, l) /\ Done1(u, w, l) /\ w.look[l].wants \in {{"dns"}, {"dns", "auth"}}
  BY <1>1, <1>3, LookupAuthBusy
<1>5. Core(v) /\ Done1(w, v, l) /\ v.look[l].wants = w.look[l].wants \ {"dns"}
  BY <1>2, <1>4, EndedCore DEF Kinds
<1>6. Done1(u, v, l)
  BY <1>4, <1>5, Done1Twice
<1> QED
  BY <1>1, <1>4, <1>5, <1>6 DEF Answers, OneOfMany

(* lc_sauth_auth.                                                          *)
LEMMA TellAuthFacts ==
  ASSUME NEW u, Core(u), Few(u), NEW l \in Look, "auth" \in u.look[l].wants,
         NEW found \in BOOLEAN, NEW v \in TellAuth(u, l, found)
  PROVE  \/ Answers(u, v, l, "auth")
         \/ found /\ u.look[l].gone /\ v = Down(u)
<1>1. u.look[l].wants = {"auth"}
  BY PortKinds DEF Few, OneOfMany
<1>2. Busy(u, l)
  BY CoreIsBusy
<1>3. CASE found /\ u.lc.at[u.look[l].block] \in {"free", "new"}
  BY <1>2, <1>3 DEF TellAuth, Busy, Owns
<1>4. CASE ~(found /\ u.lc.at[u.look[l].block] \in {"free", "new"})
  <2>1. PICK w \in CheckProxy(u, l) : v \in Ended(w, l, "auth")
    BY <1>4 DEF TellAuth
  <2>2. u.look[l].wants \cap Port = {}
    BY <1>1, PortKinds
  <2>3. Busy(w, l) /\ Done1(u, w, l) /\ More(u, w, l)
    BY <1>2, <2>1, <2>2, CheckProxyBusy
  <2>4. PICK P \in SUBSET Port : w.look[l].wants = u.look[l].wants \cup P
    BY <2>3 DEF More
  <2>5. Core(v) /\ Done1(w, v, l) /\ v.look[l].wants = w.look[l].wants \ {"auth"}
    BY <2>1, <2>3, EndedCore DEF Kinds
  <2>6. Done1(u, v, l)
    BY <2>3, <2>5, Done1Twice
  <2>7. v.look[l].wants \subseteq Port
    BY <1>1, <2>4, <2>5
  <2> QED
    BY <1>1, <2>5, <2>6, <2>7 DEF Answers, OneOfMany
<1> QED
  BY <1>3, <1>4

(* lc_sauth_proxy.                                                         *)
LEMMA TellProxyFacts ==
  ASSUME NEW u, Core(u), Few(u), NEW l \in Look, NEW p \in Port, p \in u.look[l].wants,
         NEW open \in BOOLEAN, NEW v \in TellProxy(u, l, p, open)
  PROVE  \/ Answers(u, v, l, p)
         \/ open /\ u.look[l].gone /\ v = Down(u)
         \/ /\ open /\ Core(v) /\ Few(v) /\ v.down = u.down /\ v.qs.open = u.qs.open
            /\ Later(u.hp, v.hp) /\ NamesKept(u, v)
<1> DEFINE b == u.look[l].block
<1>1. u.look[l].wants \subseteq Port
  BY PortKinds DEF Few, OneOfMany
<1>2. Busy(u, l) /\ b \in Block /\ p \in Kinds
  BY CoreIsBusy, PortKinds DEF Busy, Owns
<1>7. CASE open /\ u.lc.at[b] = "free"
  BY <1>2, <1>7 DEF TellProxy, Busy, Owns
<1>11. SUFFICES ASSUME ~(open /\ u.lc.at[b] = "free")
       PROVE  \/ Answers(u, v, l, p)
              \/ /\ open /\ Core(v) /\ Few(v) /\ v.down = u.down /\ v.qs.open = u.qs.open
                 /\ Later(u.hp, v.hp) /\ NamesKept(u, v)
  BY <1>7
<1>12. PICK w \in Ended(u, l, p) :
         v = IF open THEN Exit(Done(w, l), b)
             ELSE IF w.look[l].wants \cap Port = {} THEN Registers(Done(w, l), b) ELSE w
  BY <1>11 DEF TellProxy
<1> DEFINE d == Done(w, l)
<1>3. Core(w) /\ Done1(u, w, l) /\ w.look[l].wants = u.look[l].wants \ {p} /\ w.lc = u.lc
  BY <1>2, EndedCore
<1>4. v = IF open THEN Exit(d, b)
          ELSE IF w.look[l].wants \cap Port = {} THEN Registers(d, b) ELSE w
  BY <1>12
<1>5. /\ Core(d) /\ Done1(w, d, l) /\ d.look[l].wants = {} /\ d.lc = w.lc
  BY <1>3, DoneCore
<1> HIDE DEF d
<1>6. Done1(u, d, l)
  BY <1>3, <1>5, Done1Twice
<1>8. CASE open
  <2>1. v = Exit(d, b) /\ d.lc.at[b] # "free"
    BY <1>3, <1>4, <1>5, <1>8, <1>11
  <2>2. /\ Core(v) /\ v.hp = d.hp /\ v.qs = d.qs /\ v.down = d.down
        /\ \A m \in Look : v.look[m].wants = d.look[m].wants
    BY <1>2, <1>5, <2>1, ExitCore
  <2>3. Few(v)
    BY <1>5, <1>6, <2>2 DEF Few, OneOfMany, Done1
  <2> QED
    BY <1>6, <1>8, <2>2, <2>3 DEF Done1, NamesKept
<1>9. CASE ~open /\ w.look[l].wants \cap Port = {}
  <2>1. v = Registers(d, b)
    BY <1>4, <1>9
  <2>2. Core(v) /\ Done1(d, v, l) /\ v.look = d.look
    BY <1>2, <1>5, <2>1, RegistersCore
  <2>3. Done1(u, v, l)
    BY <1>6, <2>2, Done1Twice
  <2>4. u.look[l].wants \ {p} = {}
    BY <1>1, <1>3, <1>9
  <2> QED
    BY <1>5, <2>2, <2>3, <2>4 DEF Answers, OneOfMany
<1>10. CASE ~open /\ w.look[l].wants \cap Port # {}
  BY <1>1, <1>3, <1>4, <1>10 DEF Answers, OneOfMany
<1> QED
  BY <1>8, <1>9, <1>10

\* What was heard of a query leaves all in order.
Heard(u, v) ==
  Core(v) /\ Few(v) /\ v.qs.open = u.qs.open /\ Later(u.hp, v.hp) /\ NamesKept(u, v)

LEMMA HeardTwice ==
  ASSUME NEW u, NEW v, NEW w, Heard(u, v), Heard(v, w)
  PROVE  Heard(u, w)
BY LaterTwice DEF Heard, NamesKept

(* The timer of a query is gone.                                           *)
LEMMA Untimed ==
  ASSUME NEW u, Core(u), NEW q
  PROVE  LET v == [u EXCEPT !.qs.timed = u.qs.timed \ {q}]
         IN  /\ Core(v) /\ v.hp = u.hp /\ v.look = u.look /\ v.lc = u.lc /\ v.down = u.down
             /\ v.qs.list = u.qs.list /\ v.qs.open = u.qs.open /\ NamesKept(u, v)
             /\ v.qs.asked = u.qs.asked /\ v.qs.timed = u.qs.timed \ {q}
<1> DEFINE x == [u.qs EXCEPT !.timed = u.qs.timed \ {q}]
           v == [u EXCEPT !.qs = x]
<1>0. u \in States /\ ListOK(u.qs) /\ u.qs \in QueryState
  BY DEF Core, Base, ListOK
<1>1. [u EXCEPT !.qs.timed = u.qs.timed \ {q}] = v
  OBVIOUS
<1>2. /\ x \in QueryState /\ x.list = u.qs.list /\ x.asked = u.qs.asked /\ x.open = u.qs.open
      /\ x.timed = u.qs.timed \ {q}
  BY <1>0 DEF QueryState
<1> HIDE DEF x
<1>3. ListOK(x)
  BY <1>0, <1>2 DEF ListOK
<1>4. Same(u, v, {"qs"}) /\ v.qs = x
  BY <1>0, <1>2, StateWrites
<1> HIDE DEF v
<1>5. v \in States /\ v.hp = u.hp /\ v.look = u.look /\ v.lc = u.lc /\ v.down = u.down
  BY <1>4 DEF Same
<1>6. Base(v)
  BY <1>2, <1>3, <1>4, <1>5 DEF Core, Base, Waited
<1>7. Core(v)
  BY <1>5, <1>6 DEF Core, LookOK, Owns
<1>8. NamesKept(u, v)
  BY <1>2, <1>4 DEF NamesKept
<1> QED
  BY <1>1, <1>2, <1>4, <1>5, <1>7, <1>8

LEMMA DownHeard ==
  ASSUME NEW u, Core(u), Few(u)
  PROVE  Core(Down(u)) /\ Few(Down(u)) /\ Heard(u, Down(u)) /\ Down(u).down
         /\ Down(u).hp = u.hp /\ Down(u).qs = u.qs
<1> DEFINE v == Down(u)
<1>1. Same(u, v, {"down"}) /\ v.down
  BY StateWrites DEF Core, Base
<1> HIDE DEF v
<1>2. v \in States /\ v.hp = u.hp /\ v.qs = u.qs /\ v.look = u.look /\ v.lc = u.lc
  BY <1>1 DEF Same
<1>3. Core(v) /\ Few(v)
  BY <1>2 DEF Core, Base, Waited, LookOK, Owns, Few
<1>4. Later(u.hp, v.hp)
  BY <1>2, LaterSame DEF States
<1>5. Heard(u, v)
  BY <1>2, <1>3, <1>4 DEF Heard, NamesKept
<1> QED
  BY <1>1, <1>2, <1>3, <1>5 DEF v

(* sauth_callback.                                                         *)
LEMMA TellFacts ==
  ASSUME NEW u, Core(u), Few(u), ~u.down, NEW q \in Range(u.qs.list), NEW good \in BOOLEAN,
         NEW v \in Tell(u, q, good)
  PROVE  /\ Heard(u, v)
         /\ v.down => good /\ \E l \in Look : u.look[l].gone
         /\ ~good => \A x \in Range(u.qs.list) \ {q} : x \in Range(v.qs.list)
<1> DEFINE w == [u EXCEPT !.qs.timed = u.qs.timed \ {q}]
<1>1. /\ Core(w) /\ w.hp = u.hp /\ w.look = u.look /\ w.lc = u.lc /\ w.down = u.down
      /\ w.qs.list = u.qs.list /\ w.qs.open = u.qs.open /\ NamesKept(u, w)
  BY Untimed
<1>2. v \in IF q \in ForName THEN {w}
            ELSE IF q[2] = "dns" THEN TellDns(w, q[1])
            ELSE IF q[2] = "auth" THEN TellAuth(w, q[1], good)
            ELSE TellProxy(w, q[1], q[2], good)
  BY DEF Tell
<1> HIDE DEF w
<1>3. Few(w) /\ Later(u.hp, w.hp) /\ w \in States
  BY <1>1, LaterSame DEF Few, Core, Base, States
<1>4. Heard(u, w)
  BY <1>1, <1>3 DEF Heard
<1>5. Range(u.qs.list) \subseteq Query /\ Range(w.qs.list) = Range(u.qs.list)
  BY <1>1 DEF Core, Base, ListOK, QueryState, Range
<1>6. CASE q \in ForName
  <2>1. v = w
    BY <1>2, <1>6
  <2> QED
    BY <1>1, <1>4, <1>5, <2>1
<1>7. CASE q \notin ForName
  <2> DEFINE l == q[1]
             k == q[2]
  <2>1. l \in Look /\ k \in Kinds /\ q = <<l, k>> /\ (k = "dns" \/ k = "auth" \/ k \in Port)
    BY <1>5, <1>7 DEF Query, ForLook, Kinds
  <2>2. k \in w.look[l].wants
    BY <1>1, <1>5, <2>1 DEF Core, Base, Waited
  <2>3. \/ Answers(w, v, l, k)
        \/ good /\ w.look[l].gone /\ v = Down(w)
        \/ /\ good /\ Core(v) /\ Few(v) /\ v.down = w.down /\ v.qs.open = w.qs.open
           /\ Later(w.hp, v.hp) /\ NamesKept(w, v)
    <3>1. CASE k = "dns"
      BY <1>1, <1>2, <1>3, <1>7, <2>1, <2>2, <3>1, TellDnsFacts
    <3>2. CASE k = "auth"
      <4>1. v \in TellAuth(w, l, good)
        BY <1>2, <1>7, <3>2
      <4> QED
        BY <1>1, <1>3, <2>1, <2>2, <3>2, <4>1, TellAuthFacts
    <3>3. CASE k \in Port
      <4>1. v \in TellProxy(w, l, k, good)
        BY <1>2, <1>7, <3>3, PortKinds
      <4> QED
        BY <1>1, <1>3, <2>1, <2>2, <3>3, <4>1, TellProxyFacts
    <3> QED
      BY <2>1, <3>1, <3>2, <3>3
  <2>4. CASE Answers(w, v, l, k)
    <3>1. Few(v)
      <4> SUFFICES ASSUME NEW m \in Look PROVE OneOfMany(v.look[m].wants)
        BY DEF Few
      <4> QED
        BY <1>3, <2>4 DEF Few, Answers, Done1
    <3>2. Heard(w, v) /\ v.down = w.down
      BY <2>4, <3>1 DEF Heard, Answers, Done1
    <3>3. Heard(u, v) /\ ~v.down
      BY <1>1, <1>4, <3>2, HeardTwice
    <3>4. ASSUME NEW x \in Range(u.qs.list) \ {q} PROVE x \in Range(v.qs.list)
      <4>1. CASE x \in ForName
        BY <3>3, <4>1 DEF Heard, NamesKept
      <4>2. CASE x \notin ForName
        <5> DEFINE m == x[1]
                   j == x[2]
        <5>1. m \in Look /\ j \in Kinds /\ x = <<m, j>>
          BY <1>5, <4>2 DEF Query, ForLook, Kinds
        <5>2. j \in w.look[m].wants
          BY <1>1, <1>5, <5>1 DEF Core, Base, Waited
        <5>3. m = l => j # k
          BY <2>1, <5>1
        <5>4. j \in v.look[m].wants
          BY <2>4, <5>1, <5>2, <5>3 DEF Answers, Done1
        <5> QED
          BY <2>4, <5>1, <5>4 DEF Answers, Core, Base, Waited
      <4> QED
        BY <4>1, <4>2
    <3> QED
      BY <3>3, <3>4
  <2>5. CASE good /\ w.look[l].gone /\ v = Down(w)
    <3>1. Heard(u, v)
      BY <1>1, <1>3, <1>4, <2>5, DownHeard, HeardTwice
    <3> QED
      BY <1>1, <2>1, <2>5, <3>1
  <2>6. CASE /\ good /\ Core(v) /\ Few(v) /\ v.down = w.down /\ v.qs.open = w.qs.open
             /\ Later(w.hp, v.hp) /\ NamesKept(w, v)
    <3>1. Heard(w, v)
      BY <2>6 DEF Heard
    <3> QED
      BY <1>1, <1>4, <2>6, <3>1, HeardTwice
  <2> QED
    BY <2>3, <2>4, <2>5, <2>6
<1> QED
  BY <1>6, <1>7

(* sauth_callback of a query that failed.                                  *)
LEMMA FailFacts ==
  ASSUME NEW u, Core(u), Few(u), ~u.down, NEW q \in Range(u.qs.list), NEW v \in Fail(u, q)
  PROVE  /\ Heard(u, v)
         /\ v.down => u.qs.open
         /\ ~u.qs.open => \A x \in Range(u.qs.list) \ {q} : x \in Range(v.qs.list)
<1>1. CASE v \in Tell(u, q, FALSE)
  BY <1>1, TellFacts
<1>2. CASE v \in Tell(u, q, TRUE) /\ u.qs.open
  BY <1>2, TellFacts
<1> QED
  BY <1>1, <1>2 DEF Fail

-----------------------------------------------------------------------------
(* The death of the process: every query fails.                            *)

(* The query after q.                                                      *)
LEMMA FollowingFacts ==
  ASSUME NEW S, NEW L \in Seq(S), IsInjective(L), NEW q \in Range(L)
  PROVE  Following(L, q) = None \/ Following(L, q) \in Range(L) \ {q}
<1> DEFINE i == CHOOSE j \in DOMAIN L : L[j] = q
<1>0. /\ Len(L) \in Nat /\ DOMAIN L = 1 .. Len(L)
      /\ \A m \in 1 .. Len(L), n \in 1 .. Len(L) : L[m] = L[n] => m = n
  BY DEF IsInjective
<1>1. \E j \in DOMAIN L : L[j] = q
  BY DEF Range
<1>2. i \in 1 .. Len(L) /\ L[i] = q
  BY <1>0, <1>1
<1>3. Following(L, q) = IF i = Len(L) THEN None ELSE L[i + 1]
  BY DEF Following
<1> HIDE DEF i
<1>4. CASE i = Len(L)
  BY <1>3, <1>4
<1>5. CASE i # Len(L)
  <2>1. i + 1 \in 1 .. Len(L) /\ i + 1 # i
    <3>1. i \in Nat /\ i <= Len(L) /\ 1 <= i
      BY <1>0, <1>2
    <3>2. \A m, n \in Nat : m <= n /\ m # n => m + 1 <= n /\ m + 1 \in Nat
      OBVIOUS
    <3>3. i + 1 <= Len(L) /\ i + 1 \in Nat
      BY <1>0, <1>5, <3>1, <3>2, Zenon
    <3> QED
      BY <1>0, <3>1, <3>3
  <2>2. L[i + 1] # q /\ L[i + 1] \in Range(L)
    BY <1>0, <1>2, <2>1 DEF Range
  <2> QED
    BY <1>3, <1>5, <2>2
<1> QED
  BY <1>4, <1>5

\* While sauth_recover goes through the list.
Told(u, r) ==
  /\ Heard(u, r.u) /\ (r.u.down => u.qs.open)
  /\ r.u.down \/ r.cur = None \/ r.cur \in Range(r.u.qs.list)

LEMMA FailOneFacts ==
  ASSUME NEW u, NEW s, Told(u, s), NEW r \in FailOne(s)
  PROVE  Told(u, r)
<1>1. CASE s.cur = None \/ s.u.down
  BY <1>1 DEF FailOne
<1>2. CASE ~(s.cur = None \/ s.u.down)
  <2> DEFINE x == s.u
             q == s.cur
             next == Following(x.qs.list, q)
             New(v) == IF next = None \/ next \in Range(v.qs.list) THEN v ELSE Down(v)
  <2>1. PICK v \in Fail(x, q) : r = [cur |-> next, u |-> New(v)]
    BY <1>2 DEF FailOne
  <2>2. /\ Core(x) /\ Few(x) /\ ~x.down /\ q \in Range(x.qs.list) /\ Heard(u, x)
        /\ x.qs.open = u.qs.open
    BY <1>2 DEF Told, Heard
  <2>3. x.qs.list \in Seq(Query) /\ IsInjective(x.qs.list)
    BY <2>2 DEF Core, Base, ListOK, QueryState
  <2>4. next = None \/ next \in Range(x.qs.list) \ {q}
    BY <2>2, <2>3, FollowingFacts
  <2>5. /\ Heard(x, v) /\ (v.down => x.qs.open)
        /\ ~x.qs.open => \A y \in Range(x.qs.list) \ {q} : y \in Range(v.qs.list)
    BY <2>1, <2>2, FailFacts
  <2>6. r.cur = next /\ r.u = New(v)
    BY <2>1
  <2> HIDE DEF x, q, next
  <2>7. Heard(u, v)
    BY <2>2, <2>5, HeardTwice
  <2>8. CASE next = None \/ next \in Range(v.qs.list)
    <3>1. r.u = v
      BY <2>6, <2>8
    <3> QED
      BY <2>2, <2>5, <2>6, <2>7, <2>8, <3>1 DEF Told
  <2>9. CASE ~(next = None \/ next \in Range(v.qs.list))
    <3>1. r.u = Down(v) /\ x.qs.open
      BY <2>4, <2>5, <2>6, <2>9
    <3>2. Heard(v, Down(v)) /\ Down(v).down
      BY <2>7, DownHeard DEF Heard
    <3> QED
      BY <2>2, <2>7, <3>1, <3>2, HeardTwice DEF Told
  <2> QED
    BY <2>8, <2>9
<1> QED
  BY <1>1, <1>2

LEMMA FailAllFacts ==
  ASSUME NEW u, Core(u), Few(u), ~u.down, NEW v \in FailAll(u)
  PROVE  Heard(u, v) /\ (v.down => u.qs.open)
<1> DEFINE N == Len(u.qs.list)
           First == {[u |-> u, cur |-> IF N = 0 THEN None ELSE Head(u.qs.list)]}
           Step(f, i) == IF i = 0 THEN First ELSE UNION {FailOne(t1) : t1 \in f[i - 1]}
           Upto(k) == \E f : f = [i \in 0 .. k |-> Step(f, i)]
           told == CHOOSE f : f = [i \in 0 .. N |-> Step(f, i)]
<1>0. N \in Nat /\ u.qs.list \in Seq(Query)
  BY DEF Core, Base, ListOK, QueryState
<1>1. PICK t1 \in told[N] : v = t1.u
  BY DEF FailAll
<1>2. Told(u, [u |-> u, cur |-> IF N = 0 THEN None ELSE Head(u.qs.list)])
  <2> DEFINE c == IF N = 0 THEN None ELSE Head(u.qs.list)
             s == [u |-> u, cur |-> c]
  <2>1. Heard(u, u)
    BY LaterSame DEF Heard, NamesKept, Core, Base, States
  <2>2. c = None \/ c \in Range(u.qs.list)
    BY <1>0 DEF Range
  <2> HIDE DEF c
  <2>3. s.u = u /\ s.cur = c
    OBVIOUS
  <2> HIDE DEF s
  <2>4. Told(u, s)
    BY <2>1, <2>2, <2>3 DEF Told
  <2> QED
    BY <2>4 DEF s, c
<1> HIDE DEF First
<1>3. ASSUME NEW k \in Nat PROVE Upto(k)
  <2> DEFINE Bad == {m \in Nat : ~Upto(m)}
  <2> SUFFICES ASSUME Bad # {} PROVE FALSE
    OBVIOUS
  <2> HIDE DEF Upto
  <2>1. PICK m \in Bad : \A n \in Bad : m <= n
    BY LeastIn, Bad \in SUBSET Nat
  <2>2. m \in Nat /\ ~Upto(m)
    BY <2>1
  <2>3. Upto(0)
    <3> DEFINE f == [n \in 0 .. 0 |-> First]
    <3>1. f = [n \in 0 .. 0 |-> Step(f, n)]
      OBVIOUS
    <3> HIDE DEF f
    <3> QED
      BY <3>1, Zenon DEF Upto
  <2>4. m # 0 /\ m - 1 \in Nat /\ ~(m <= m - 1)
    BY <2>2, <2>3
  <2>5. Upto(m - 1)
    BY <2>1, <2>4
  <2>6. PICK f : f = [n \in 0 .. m - 1 |-> Step(f, n)]
    BY <2>5 DEF Upto
  <2> DEFINE g == [n \in 0 .. m |-> IF n = m THEN Step(f, m) ELSE f[n]]
  <2>7. \A n \in 0 .. m - 1 : f[n] = Step(f, n)
    BY <2>6
  <2>8. \A n \in 0 .. m : g[n] = Step(g, n)
    <3> SUFFICES ASSUME NEW n \in 0 .. m PROVE g[n] = Step(g, n)
      OBVIOUS
    <3>1. n # 0 => n - 1 \in 0 .. m /\ n - 1 # m
      BY <2>2
    <3>2. n # 0 => g[n - 1] = f[n - 1]
      BY <3>1
    <3>3. Step(g, n) = Step(f, n)
      BY <3>2
    <3>4. CASE n = m
      BY <3>3, <3>4
    <3>5. CASE n # m
      <4>1. n \in 0 .. m - 1
        BY <2>2, <3>5
      <4> QED
        BY <2>7, <3>3, <3>5, <4>1
    <3> QED
      BY <3>4, <3>5
  <2>9. g = [n \in 0 .. m |-> g[n]]
    OBVIOUS
  <2> HIDE DEF g, Step
  <2>10. g = [n \in 0 .. m |-> Step(g, n)]
    BY <2>8, <2>9
  <2> QED
    BY <2>2, <2>10, Zenon DEF Upto
<1>4. told = [i \in 0 .. N |-> Step(told, i)]
  <2>1. Upto(N)
    BY <1>0, <1>3
  <2> QED
    BY <2>1, Zenon
<1> HIDE DEF told
<1>5. \A i \in 0 .. N : told[i] = Step(told, i)
  BY <1>4
<1> HIDE DEF N
<1>6. \A i \in 0 .. N : \A x \in told[i] : Told(u, x)
  <2> DEFINE Fine(i) == \A x \in told[i] : Told(u, x)
             Bad == {i \in 0 .. N : ~Fine(i)}
  <2> SUFFICES ASSUME Bad # {} PROVE FALSE
    OBVIOUS
  <2> HIDE DEF Fine
  <2>1. PICK i \in Bad : \A m \in Bad : i <= m
    <3>1. Bad \in SUBSET Nat
      BY <1>0
    <3> QED
      BY <3>1, LeastIn
  <2>2. i \in 0 .. N /\ ~Fine(i)
    BY <2>1
  <2>3. i # 0
    <3> SUFFICES ASSUME i = 0 PROVE FALSE
      OBVIOUS
    <3>1. told[0] = First
      BY <1>0, <1>5
    <3>2. Fine(0)
      BY <1>2, <3>1 DEF Fine, First, N
    <3> QED
      BY <2>2, <3>2
  <2>4. i - 1 \in 0 .. N /\ ~(i <= i - 1)
    BY <1>0, <2>2, <2>3
  <2>5. Fine(i - 1)
    BY <2>1, <2>4
  <2>6. told[i] = UNION {FailOne(x) : x \in told[i - 1]}
    BY <1>5, <2>2, <2>3
  <2>7. ASSUME NEW y \in told[i] PROVE Told(u, y)
    <3>1. PICK x \in told[i - 1] : y \in FailOne(x)
      BY <2>6
    <3> QED
      BY <2>5, <3>1, FailOneFacts DEF Fine
  <2> QED
    BY <2>2, <2>7 DEF Fine
<1>7. Told(u, t1)
  BY <1>0, <1>1, <1>6
<1> QED
  BY <1>1, <1>7 DEF Told

(* Only the struct child changes.                                          *)
LEMMA HelperCore ==
  ASSUME NEW u, Core(u), Few(u), NEW x \in HelperState
  PROVE  LET v == [u EXCEPT !.hp = x]
         IN  /\ Core(v) /\ Few(v) /\ v.hp = x /\ v.qs = u.qs /\ v.look = u.look /\ v.down = u.down
             /\ NamesKept(u, v)
<1> DEFINE v == [u EXCEPT !.hp = x]
<1>1. Same(u, v, {"hp"}) /\ v.hp = x
  BY StateWrites DEF Core, Base
<1> HIDE DEF v
<1>2. v \in States /\ v.qs = u.qs /\ v.look = u.look /\ v.lc = u.lc /\ v.down = u.down
  BY <1>1 DEF Same
<1>3. Core(v) /\ Few(v)
  BY <1>2 DEF Core, Base, Waited, LookOK, Owns, Few
<1>4. NamesKept(u, v)
  BY <1>2 DEF NamesKept
<1> QED
  BY <1>1, <1>2, <1>3, <1>4 DEF v

\* What is left of g when a relaunch timer runs and the child is forgotten.
Forgotten(g, h) ==
  /\ h \in HelperState /\ h.proc = g.proc /\ h.status = g.status /\ h.check = g.check
  /\ ~h.child /\ h.rtimer /\ h.timers = IF g.rtimer THEN g.timers ELSE g.timers + 1

(* sauth_recover.                                                          *)
LEMMA RecoverFacts ==
  ASSUME NEW u, Core(u), Few(u), ~u.down, u.hp.timers <= MaxTimers + 1, NEW v \in Recover(u)
  PROVE  /\ Core(v) /\ Few(v) /\ NamesKept(u, v) /\ v.qs.open = u.qs.open
         /\ v.down => u.qs.open
         /\ \E g \in HelperState : Later(u.hp, g) /\ Forgotten(g, v.hp)
<1>0. MaxTimers \in Nat /\ u.hp \in HelperState
  BY LookupsAssumption DEF LookupsAssumption, Core, Base, States
<1>1. PICK w \in FailAll(u) :
        v = [w EXCEPT !.hp.child = FALSE, !.hp.rtimer = TRUE,
                      !.hp.timers = IF w.hp.rtimer THEN w.hp.timers ELSE w.hp.timers + 1]
  BY DEF Recover
<1>2. Heard(u, w) /\ (w.down => u.qs.open)
  BY FailAllFacts
<1>3. Core(w) /\ Few(w) /\ NamesKept(u, w) /\ w.qs.open = u.qs.open /\ Later(u.hp, w.hp)
  BY <1>2 DEF Heard
<1> DEFINE g == w.hp
           n == IF g.rtimer THEN g.timers ELSE g.timers + 1
           x == [[[g EXCEPT !.child = FALSE] EXCEPT !.rtimer = TRUE] EXCEPT !.timers = n]
           y == [w EXCEPT !.hp = x]
<1>4. v = y
  <2>1. v = [w EXCEPT !.hp.child = FALSE, !.hp.rtimer = TRUE, !.hp.timers = n]
    BY <1>1
  <2> HIDE DEF n
  <2>2. v = [[[w EXCEPT !.hp.child = FALSE] EXCEPT !.hp.rtimer = TRUE] EXCEPT !.hp.timers = n]
    BY <2>1
  <2>3. w \in [hp : HelperState, qs : QueryState, look : [Look -> LookupState], lc : ClientState, down : BOOLEAN]
    BY <1>3 DEF Core, Base, States
  <2> HIDE DEF g
  <2> QED
    BY <2>2, <2>3 DEF g
<1>5. g \in HelperState /\ g.timers = u.hp.timers
  BY <1>3 DEF Later
<1>6. n \in 0 .. MaxTimers + 2
  BY <1>0, <1>5 DEF HelperState
<1> HIDE DEF g, n
<1>7. Forgotten(g, x) /\ x \in HelperState
  BY <1>5, <1>6 DEF Forgotten, HelperState, n
<1> HIDE DEF x
<1>8. Core(y) /\ Few(y) /\ y.hp = x /\ y.qs = w.qs /\ y.down = w.down /\ NamesKept(w, y)
  BY <1>3, <1>7, HelperCore
<1> HIDE DEF y
<1>9. NamesKept(u, v)
  BY <1>3, <1>4, <1>8 DEF NamesKept
<1> QED
  BY <1>2, <1>3, <1>4, <1>5, <1>7, <1>8, <1>9 DEF g

(* child_cancel of a process that exited.                                  *)
LEMMA ChildCancelFacts ==
  ASSUME NEW u, Core(u), Few(u), ~u.down, HelperOK(u.hp), u.hp.proc = "exited",
         NEW v \in ChildCancel(u)
  PROVE  /\ Core(v) /\ Few(v) /\ NamesKept(u, v) /\ v.qs.open = u.qs.open
         /\ v.down => ~u.hp.child \/ u.qs.open
         /\ ~v.down => /\ HelperOK(v.hp) /\ v.hp.proc = "none"
                       /\ v.hp.timers > 0 /\ v.hp.timers <= MaxTimers + 1
<1> DEFINE h == u.hp
<1>0. MaxTimers \in Nat /\ h \in HelperState /\ h.timers <= MaxTimers /\ h.status = "running"
  BY LookupsAssumption DEF LookupsAssumption, Core, Base, States, HelperOK
<1> DEFINE End(w) == [w EXCEPT !.hp.proc = "none", !.hp.check = FALSE, !.hp.reads = FALSE]
           Gone(g) == [[[g EXCEPT !.proc = "none"] EXCEPT !.check = FALSE] EXCEPT !.reads = FALSE]
<1>1. ASSUME NEW w, Core(w), Few(w)
      PROVE  /\ Core(End(w)) /\ Few(End(w)) /\ NamesKept(w, End(w)) /\ End(w).qs = w.qs
             /\ End(w).down = w.down /\ End(w).hp = Gone(w.hp)
  <2> DEFINE y == [w EXCEPT !.hp = Gone(w.hp)]
  <2>1. w.hp \in HelperState /\ w \in [hp : HelperState, qs : QueryState, look : [Look -> LookupState], lc : ClientState, down : BOOLEAN]
    BY <1>1 DEF Core, Base, States
  <2>2. End(w) = y
    BY <2>1
  <2>3. Gone(w.hp) \in HelperState
    BY <2>1, HelperWrites
  <2> HIDE DEF Gone
  <2>4. Core(y) /\ Few(y) /\ NamesKept(w, y) /\ y.qs = w.qs /\ y.down = w.down /\ y.hp = Gone(w.hp)
    BY <1>1, <2>3, HelperCore
  <2> HIDE DEF y, End
  <2> QED
    BY <2>2, <2>4
<1>2. ASSUME NEW g \in HelperState
      PROVE  /\ Gone(g).proc = "none" /\ Gone(g).status = g.status /\ Gone(g).child = g.child
             /\ Gone(g).rtimer = g.rtimer /\ Gone(g).timers = g.timers
  BY DEF HelperState
<1>3. PICK w : v = End(w) /\ w \in IF ~h.child THEN {Down(u)} ELSE Recover([u EXCEPT !.hp.status = "dead"])
  BY <1>0 DEF ChildCancel
<1> HIDE DEF End, Gone
<1>4. CASE ~h.child
  <2>1. w = Down(u) /\ Core(w) /\ Few(w) /\ w.down /\ w.qs = u.qs
    BY <1>3, <1>4, DownHeard
  <2>2. Core(v) /\ Few(v) /\ v.down /\ v.qs = u.qs
    BY <1>1, <1>3, <2>1
  <2> QED
    BY <1>4, <2>2 DEF NamesKept
<1>5. CASE h.child
  <2> DEFINE x == [h EXCEPT !.status = "dead"]
             y == [u EXCEPT !.hp = x]
  <2>1. w \in Recover(y)
    <3>1. [u EXCEPT !.hp.status = "dead"] = y
      OBVIOUS
    <3> QED
      BY <1>3, <1>5, <3>1
  <2>2. /\ x \in HelperState /\ x.proc = "exited" /\ x.child /\ x.status = "dead" /\ x.timers = h.timers
        /\ x.rtimer = h.rtimer /\ x.check = h.check
    BY <1>0, <1>5 DEF HelperState
  <2> HIDE DEF x
  <2>3. Core(y) /\ Few(y) /\ y.hp = x /\ y.qs = u.qs /\ y.down = u.down /\ NamesKept(u, y)
    BY <2>2, HelperCore
  <2> HIDE DEF y
  <2>4. y.hp.timers <= MaxTimers + 1
    BY <1>0, <2>2, <2>3 DEF HelperState
  <2>5. /\ Core(w) /\ Few(w) /\ NamesKept(y, w) /\ w.qs.open = y.qs.open /\ (w.down => y.qs.open)
        /\ \E g \in HelperState : Later(y.hp, g) /\ Forgotten(g, w.hp)
    BY <2>1, <2>3, <2>4, RecoverFacts
  <2>6. PICK g \in HelperState : Later(x, g) /\ Forgotten(g, w.hp)
    BY <2>3, <2>5
  <2>7. /\ Core(v) /\ Few(v) /\ NamesKept(w, v) /\ v.qs = w.qs /\ v.down = w.down
        /\ v.hp = Gone(w.hp) /\ w.hp \in HelperState
    BY <1>1, <1>3, <2>5 DEF Core, Base, States
  <2>8. NamesKept(u, v)
    BY <2>3, <2>5, <2>7 DEF NamesKept
  <2>9. g.timers = h.timers /\ g.status = "dead" /\ (g.rtimer => h.timers > 0)
    BY <2>2, <2>6 DEF Later, HelperOK
  <2>10. /\ w.hp.status = "dead" /\ ~w.hp.child /\ w.hp.rtimer /\ w.hp.timers > 0
         /\ w.hp.timers <= MaxTimers + 1
    BY <1>0, <2>6, <2>9 DEF Forgotten, HelperState
  <2>11. HelperOK(v.hp) /\ v.hp.proc = "none" /\ v.hp.timers > 0 /\ v.hp.timers <= MaxTimers + 1
    BY <1>2, <2>7, <2>10 DEF HelperOK
  <2> QED
    BY <2>3, <2>5, <2>7, <2>8, <2>11
<1> QED
  BY <1>4, <1>5

(* The end of the channel.                                                 *)
LEMMA ReadEndFacts ==
  ASSUME NEW u, Core(u), Few(u), ~u.down, HelperOK(u.hp), u.hp.proc = "exited",
         NEW v \in ReadEnd(u)
  PROVE  /\ Core(v) /\ Few(v) /\ NamesKept(u, v)
         /\ v.down => ~u.hp.child \/ u.qs.open
         /\ ~v.down => HelperOK(v.hp)
<1>0. MaxTimers \in Nat
  BY LookupsAssumption DEF LookupsAssumption
<1>1. CASE ~u.hp.child
  <2>1. v = Down(u)
    BY <1>1 DEF ReadEnd
  <2> QED
    BY <1>1, <2>1, DownHeard DEF Heard
<1>2. CASE u.hp.child
  <2>1. PICK w \in ChildCancel(u) : v \in IF w.down THEN {w} ELSE Recover(w)
    BY <1>2 DEF ReadEnd
  <2>2. /\ Core(w) /\ Few(w) /\ NamesKept(u, w) /\ w.qs.open = u.qs.open
        /\ w.down => ~u.hp.child \/ u.qs.open
        /\ ~w.down => /\ HelperOK(w.hp) /\ w.hp.proc = "none"
                      /\ w.hp.timers > 0 /\ w.hp.timers <= MaxTimers + 1
    BY ChildCancelFacts
  <2>3. CASE w.down
    BY <2>1, <2>2, <2>3
  <2>4. CASE ~w.down
    <3>1. /\ Core(v) /\ Few(v) /\ NamesKept(w, v) /\ (v.down => w.qs.open)
          /\ \E g \in HelperState : Later(w.hp, g) /\ Forgotten(g, v.hp)
      BY <2>1, <2>2, <2>4, RecoverFacts
    <3>2. PICK g \in HelperState : Later(w.hp, g) /\ Forgotten(g, v.hp)
      BY <3>1
    <3>3. HelperOK(g) /\ g.proc # "exited" /\ g.timers = w.hp.timers /\ w.hp.timers > 0
      <4>1. HelperOK(w.hp) /\ w.hp.proc # "exited"
        BY <2>2, <2>4
      <4>2. w.hp.timers > 0
        BY <2>2, <2>4
      <4> QED
        BY <3>2, <4>1, <4>2 DEF Later
    <3>4. HelperOK(v.hp)
      BY <3>2, <3>3 DEF Forgotten, HelperOK, HelperState
    <3>5. NamesKept(u, v)
      BY <2>2, <3>1 DEF NamesKept
    <3> QED
      BY <2>2, <3>1, <3>4, <3>5
  <2> QED
    BY <2>3, <2>4
<1> QED
  BY <1>1, <1>2

-----------------------------------------------------------------------------
(* The steps of Lookups.                                                   *)

LInv(u) == Core(u) /\ Few(u) /\ (~u.down => HelperOK(u.hp))

\* What a step may do that is not one of connect.c.
Stepped(u, v) ==
  /\ LInv(v) /\ NamesKept(u, v)
  /\ v.down => ~u.hp.child \/ (\E l \in Look : u.look[l].gone) \/ u.qs.open

LEMMA HeardSteps ==
  ASSUME NEW u, LInv(u), ~u.down, NEW v, Heard(u, v),
         v.down => (\E l \in Look : u.look[l].gone) \/ u.qs.open
  PROVE  Stepped(u, v)
BY DEF LInv, Stepped, Heard, Later

LEMMA RelaunchSteps ==
  ASSUME NEW u, LInv(u), ~u.down, u.hp.timers > 0, NEW r \in Launch(u),
         NEW v, v = IF r.ok THEN [r.u EXCEPT !.hp.timers = u.hp.timers - 1] ELSE r.u
  PROVE  Stepped(u, v)
<1>0. /\ MaxTimers \in Nat /\ u \in States /\ u.hp \in HelperState /\ HelperOK(u.hp)
      /\ Core(u) /\ Few(u)
  BY LookupsAssumption, SMTT(40) DEF LookupsAssumption, LInv, Core, Base, States
<1> DEFINE w == r.u
           g == w.hp
<1>1. /\ Same(u, w, {"hp"}) /\ Later(u.hp, g) /\ (r.ok => g.child /\ ~g.rtimer)
  BY <1>0, LaunchFacts
<1>2. /\ w \in States /\ w.qs = u.qs /\ w.look = u.look /\ w.lc = u.lc /\ w.down = u.down
      /\ g \in HelperState /\ g.timers = u.hp.timers /\ HelperOK(g)
  BY <1>0, <1>1 DEF Same, Later
<1>3. Core(w) /\ Few(w) /\ NamesKept(u, w)
  BY <1>0, <1>2 DEF Core, Base, Waited, LookOK, Owns, Few, NamesKept
<1> HIDE DEF w, g
<1>4. CASE r.ok
  <2> DEFINE n == u.hp.timers - 1
             x == [g EXCEPT !.timers = n]
             y == [w EXCEPT !.hp = x]
  <2>1. v = y
    BY <1>4 DEF w, g
  <2>2. n \in 0 .. MaxTimers + 2 /\ n <= g.timers
    BY <1>0, <1>2 DEF HelperState
  <2> HIDE DEF n
  <2>3. /\ x \in HelperState /\ x.proc = g.proc /\ x.status = g.status /\ x.check = g.check
        /\ x.child = g.child /\ x.rtimer = g.rtimer /\ x.timers = n
    BY <1>2, <2>2 DEF HelperState
  <2> HIDE DEF x
  <2>4. g.timers \in Nat /\ n \in Nat
    BY <1>0, <1>2, <2>2 DEF HelperState
  <2>5. HelperOK(x)
    BY <1>0, <1>1, <1>2, <1>4, <2>2, <2>3, <2>4 DEF HelperOK, g, w
  <2>6. Core(y) /\ Few(y) /\ y.hp = x /\ y.down = w.down /\ NamesKept(w, y)
    BY <1>3, <2>3, HelperCore
  <2> HIDE DEF y
  <2> QED
    BY <1>2, <1>3, <2>1, <2>5, <2>6 DEF Stepped, LInv, NamesKept
<1>5. CASE ~r.ok
  BY <1>2, <1>3, <1>5 DEF Stepped, LInv, w, g
<1> QED
  BY <1>4, <1>5

(* sauth_timeout.                                                          *)
LEMMA ExpireSteps ==
  ASSUME NEW u, LInv(u), ~u.down, NEW q \in u.qs.timed, NEW v \in Fail(u, q)
  PROVE  Stepped(u, v)
<1>1. Core(u) /\ Few(u) /\ q \in Range(u.qs.list)
  BY DEF LInv, Core, Base, ListOK
<1>2. Heard(u, v) /\ (v.down => u.qs.open)
  BY <1>1, FailFacts
<1> QED
  BY <1>2, HeardSteps

(* child_check and the end of the channel.                                 *)
LEMMA NoticeSteps ==
  ASSUME NEW u, LInv(u), ~u.down, u.hp.proc = "exited", NEW v \in ChildCancel(u) \cup ReadEnd(u)
  PROVE  Stepped(u, v)
<1>1. Core(u) /\ Few(u) /\ HelperOK(u.hp)
  BY DEF LInv
<1>2. CASE v \in ChildCancel(u)
  BY <1>1, <1>2, ChildCancelFacts DEF Stepped, LInv
<1>3. CASE v \in ReadEnd(u)
  BY <1>1, <1>3, ReadEndFacts DEF Stepped, LInv
<1> QED
  BY <1>2, <1>3

\* What the server has heard of a query before it calls back.
Read(u, q, good) ==
  [u EXCEPT !.qs.asked = u.qs.asked \ {q}, !.qs.open = u.qs.open \/ (good /\ q[2] \in Port)]

LEMMA ReadFacts ==
  ASSUME NEW u, Core(u), Few(u), NEW q, NEW good \in BOOLEAN
  PROVE  LET w == Read(u, q, good)
         IN  /\ Core(w) /\ Few(w) /\ w.hp = u.hp /\ w.look = u.look /\ w.lc = u.lc /\ w.down = u.down
             /\ w.qs.list = u.qs.list /\ w.qs.timed = u.qs.timed /\ w.qs.asked = u.qs.asked \ {q}
             /\ NamesKept(u, w)
<1> DEFINE A == u.qs.asked \ {q}
           o == u.qs.open \/ (good /\ q[2] \in Port)
           x == [[u.qs EXCEPT !.asked = A] EXCEPT !.open = o]
           v == [u EXCEPT !.qs = x]
<1>0. u \in States /\ ListOK(u.qs) /\ u.qs \in QueryState
  BY DEF Core, Base, ListOK
<1>1. Read(u, q, good) = v
  <2>1. Read(u, q, good) = [u EXCEPT !.qs.asked = A, !.qs.open = o]
    BY DEF Read
  <2> HIDE DEF A, o
  <2>2. Read(u, q, good) = [[u EXCEPT !.qs.asked = A] EXCEPT !.qs.open = o]
    BY <2>1
  <2>3. u \in [hp : HelperState, qs : QueryState, look : [Look -> LookupState], lc : ClientState, down : BOOLEAN]
    BY <1>0 DEF States
  <2> QED
    BY <2>2, <2>3
<1>2. o \in BOOLEAN /\ A \in SUBSET Query
  BY <1>0 DEF QueryState
<1> HIDE DEF o
<1>3. /\ x \in QueryState /\ x.list = u.qs.list /\ x.asked = A /\ x.timed = u.qs.timed
  BY <1>0, <1>2 DEF QueryState
<1> HIDE DEF x
<1>4. ListOK(x)
  BY <1>0, <1>3 DEF ListOK
<1>5. Same(u, v, {"qs"}) /\ v.qs = x
  BY <1>0, <1>3, StateWrites
<1> HIDE DEF v
<1>6. v \in States /\ v.hp = u.hp /\ v.look = u.look /\ v.lc = u.lc /\ v.down = u.down
  BY <1>5 DEF Same
<1>7. Base(v)
  BY <1>3, <1>4, <1>5, <1>6 DEF Core, Base, Waited
<1>8. Core(v) /\ Few(v)
  BY <1>6, <1>7 DEF Core, LookOK, Owns, Few
<1>9. NamesKept(u, v)
  BY <1>3, <1>5 DEF NamesKept
<1> QED
  BY <1>1, <1>3, <1>5, <1>6, <1>8, <1>9

(* The answer to a query of a lookup.                                      *)
LEMMA AnswerSteps ==
  ASSUME NEW u, LInv(u), ~u.down, NEW q \in u.qs.asked, NEW good \in BOOLEAN,
         NEW v \in Tell(Read(u, q, good), q, good)
  PROVE  Stepped(u, v)
<1> DEFINE w == Read(u, q, good)
<1>1. Core(u) /\ Few(u) /\ q \in Range(u.qs.list) /\ HelperOK(u.hp)
  BY DEF LInv, Core, Base, ListOK
<1>2. /\ Core(w) /\ Few(w) /\ w.hp = u.hp /\ w.look = u.look /\ w.down = u.down
      /\ w.qs.list = u.qs.list /\ NamesKept(u, w)
  BY <1>1, ReadFacts
<1> HIDE DEF w
<1>3. /\ Heard(w, v) /\ (v.down => \E l \in Look : w.look[l].gone)
  BY <1>1, <1>2, TellFacts DEF w
<1>4. NamesKept(u, v) /\ HelperOK(v.hp)
  BY <1>1, <1>2, <1>3 DEF Heard, NamesKept, Later
<1> QED
  BY <1>2, <1>3, <1>4 DEF Stepped, LInv, Heard

(* The process exits.                                                      *)
LEMMA DiesSteps ==
  ASSUME NEW u, LInv(u), ~u.down, u.hp.proc = "alive", u.hp.timers <= MaxTimers,
         NEW v, v = [[u EXCEPT !.hp = [u.hp EXCEPT !.proc = "exited"]]
                        EXCEPT !.qs = [u.qs EXCEPT !.asked = {}]]
  PROVE  Stepped(u, v)
<1> DEFINE x == [u.hp EXCEPT !.proc = "exited"]
           w == [u EXCEPT !.hp = x]
           s == [u.qs EXCEPT !.asked = {}]
           y == [w EXCEPT !.qs = s]
<1>0. /\ u \in States /\ u.hp \in HelperState /\ u.qs \in QueryState /\ ListOK(u.qs)
      /\ Core(u) /\ Few(u) /\ HelperOK(u.hp)
  BY DEF LInv, Core, Base, ListOK, States
<1>1. /\ x \in HelperState /\ x.proc = "exited" /\ x.status = u.hp.status /\ x.check = u.hp.check
      /\ x.child = u.hp.child /\ x.rtimer = u.hp.rtimer /\ x.timers = u.hp.timers
  BY <1>0 DEF HelperState
<1> HIDE DEF x
<1>2. HelperOK(x)
  BY <1>0, <1>1 DEF HelperOK
<1>3. /\ Core(w) /\ Few(w) /\ w.hp = x /\ w.qs = u.qs /\ w.look = u.look /\ w.down = u.down
      /\ NamesKept(u, w)
  BY <1>0, <1>1, HelperCore
<1> HIDE DEF w
<1>4. /\ s \in QueryState /\ s.list = u.qs.list /\ s.timed = u.qs.timed /\ s.asked = {}
      /\ s.open = u.qs.open
  BY <1>0 DEF QueryState
<1> HIDE DEF s
<1>5. ListOK(s) /\ w \in States
  BY <1>0, <1>3, <1>4 DEF ListOK, Core, Base
<1>6. Same(w, y, {"qs"}) /\ y.qs = s
  BY <1>4, <1>5, StateWrites
<1>7. v = y
  BY DEF y, w, x, s
<1> HIDE DEF y
<1>8. y \in States /\ y.hp = x /\ y.look = w.look /\ y.lc = w.lc /\ y.down = u.down
  BY <1>3, <1>6 DEF Same
<1>9. Base(y)
  BY <1>3, <1>4, <1>5, <1>6, <1>8 DEF Core, Base, Waited
<1>10. Core(y) /\ Few(y)
  BY <1>3, <1>8, <1>9 DEF Core, LookOK, Owns, Few
<1>11. NamesKept(u, y)
  BY <1>4, <1>6 DEF NamesKept
<1> QED
  BY <1>2, <1>7, <1>8, <1>10, <1>11 DEF Stepped, LInv

\* Other clients, with the same queries and lookups.
LEMMA ClientsCore ==
  ASSUME NEW u, LInv(u), ~u.down, NEW c, LcOK(c),
         \A l \in Look : u.look[l].wants # {} /\ ~u.look[l].gone =>
                           c.at[u.look[l].block] = u.lc.at[u.look[l].block],
         NEW v, v = [u EXCEPT !.lc = c]
  PROVE  Stepped(u, v) /\ v.lc = c /\ v.look = u.look /\ v.qs = u.qs /\ v.hp = u.hp
<1>0. u \in States /\ Core(u) /\ Few(u) /\ c \in ClientState
  BY DEF LInv, Core, Base, LcOK
<1>1. Same(u, v, {"lc"}) /\ v.lc = c
  BY <1>0, StateWrites
<1>2. v \in States /\ v.hp = u.hp /\ v.qs = u.qs /\ v.look = u.look /\ v.down = u.down
  BY <1>1 DEF Same
<1>3. Base(v)
  BY <1>0, <1>1, <1>2 DEF Core, Base, Waited
<1>4. Core(v) /\ Few(v)
  BY <1>0, <1>1, <1>2, <1>3 DEF Core, LookOK, Owns, Few
<1>5. NamesKept(u, v)
  BY <1>2 DEF NamesKept
<1> QED
  BY <1>1, <1>2, <1>4, <1>5 DEF Stepped, LInv

(* lclient_accept.                                                         *)
LEMMA AcceptSteps ==
  ASSUME NEW u, LInv(u), ~u.down, u.lc.free # <<>>,
         NEW v, v = [u EXCEPT !.lc = [at |-> [u.lc.at EXCEPT ![Head(u.lc.free)] = "new"],
                                      free |-> Tail(u.lc.free)]]
  PROVE  Stepped(u, v)
<1> DEFINE b == Head(u.lc.free)
           A == [u.lc.at EXCEPT ![b] = "new"]
           F == Tail(u.lc.free)
           c == [at |-> A, free |-> F]
<1>0. /\ LcOK(u.lc) /\ u.lc \in ClientState /\ u.lc.free \in Seq(Block) /\ IsInjective(u.lc.free)
      /\ \A l \in Look : LookOK(u, l)
  BY DEF LInv, Core, Base, LcOK, ClientState
<1>1. /\ F \in Seq(Block) /\ IsInjective(F) /\ Range(F) = Range(u.lc.free) \ {b}
      /\ b \in Range(u.lc.free) /\ b \in Block
  BY <1>0, TailFacts
<1> HIDE DEF b
<1>2. /\ A \in [Block -> {"free", "new", "asking", "user"}] /\ u.lc.at[b] = "free"
      /\ \A d \in Block \ {b} : A[d] = u.lc.at[d]
  BY <1>0, <1>1 DEF ClientState, LcOK
<1> HIDE DEF A, F
<1>3. c \in ClientState /\ c.at = A /\ c.free = F
  BY <1>1, <1>2 DEF ClientState
<1>4. v = [u EXCEPT !.lc = c]
  BY DEF b, A, F
<1> HIDE DEF c
<1>5. Range(u.lc.free) \subseteq Block
  BY <1>0, SMTT(40) DEF Range
<1>6. LcOK(c)
  BY <1>0, <1>1, <1>2, <1>3, <1>5 DEF LcOK
<1>7. ASSUME NEW l \in Look, u.look[l].wants # {}, ~u.look[l].gone
      PROVE  c.at[u.look[l].block] = u.lc.at[u.look[l].block]
  BY <1>0, <1>2, <1>3, <1>7 DEF LookOK, Owns
<1> QED
  BY <1>4, <1>6, <1>7, ClientsCore, SMTT(40)

(* lclient_vexit.                                                          *)
LEMMA LeaveSteps ==
  ASSUME NEW u, LInv(u), ~u.down, NEW b \in Block, u.lc.at[b] # "free", NEW v, v = Exit(u, b)
  PROVE  Stepped(u, v)
<1>1. /\ Core(v) /\ v.hp = u.hp /\ v.qs = u.qs /\ v.down = u.down
      /\ \A l \in Look : v.look[l].wants = u.look[l].wants
  BY ExitCore DEF LInv
<1> QED
  BY <1>1 DEF Stepped, LInv, Few, NamesKept

(* lc_sauth_handshake.                                                     *)
LEMMA HandshakeSteps ==
  ASSUME NEW u, LInv(u), ~u.down, NEW b \in Block, NEW l \in Look, u.lc.at[b] = "new",
         u.look[l] = NoLook, NEW v \in Handshake(u, l, b)
  PROVE  Stepped(u, v)
<1> DEFINE A == [u.lc.at EXCEPT ![b] = "asking"]
           c == [u.lc EXCEPT !.at = A]
           w == [u EXCEPT !.lc = c]
           x == [NoLook EXCEPT !.block = b]
           f == [w.look EXCEPT ![l] = x]
           y == [w EXCEPT !.look = f]
           y0 == [u EXCEPT !.look[l] = x, !.lc.at[b] = "asking"]
<1>0. /\ LcOK(u.lc) /\ u.lc \in ClientState /\ \A m \in Look : LookOK(u, m)
      /\ u \in States /\ HelperOK(u.hp) /\ u.look \in [Look -> LookupState]
  BY DEF LInv, Core, Base, LcOK, States
<1>1. y0 = y
  <2>1. y0 = [[u EXCEPT !.look[l] = x] EXCEPT !.lc.at[b] = "asking"]
    BY Zenon
  <2>2. u \in [hp : HelperState, qs : QueryState, look : [Look -> LookupState], lc : ClientState, down : BOOLEAN]
    BY <1>0 DEF States
  <2> HIDE DEF x
  <2> QED
    BY <2>1, <2>2
<1>2. /\ A \in [Block -> {"free", "new", "asking", "user"}] /\ A[b] = "asking"
      /\ \A d \in Block \ {b} : A[d] = u.lc.at[d]
  BY <1>0 DEF ClientState
<1> HIDE DEF A
<1>3. c \in ClientState /\ c.at = A /\ c.free = u.lc.free
  BY <1>0, <1>2 DEF ClientState
<1> HIDE DEF c
<1>4. LcOK(c)
  <2>1. b \notin Range(u.lc.free) /\ Range(u.lc.free) \subseteq Block
    BY <1>0 DEF LcOK, ClientState, Range
  <2> QED
    BY <1>0, <1>2, <1>3, <2>1 DEF LcOK
<1>5. ASSUME NEW m \in Look, u.look[m].wants # {}, ~u.look[m].gone
      PROVE  c.at[u.look[m].block] = u.lc.at[u.look[m].block]
  BY <1>0, <1>2, <1>3, <1>5 DEF LookOK, Owns
<1>6. Stepped(u, w) /\ w.lc = c /\ w.look = u.look /\ w.qs = u.qs /\ w.hp = u.hp
  BY <1>4, <1>5, ClientsCore
<1> HIDE DEF w
<1>7. Core(w) /\ Few(w) /\ w \in States /\ ~w.down
  <2>1. Core(w) /\ Few(w) /\ w \in States
    BY <1>6 DEF Stepped, LInv, Core, Base
  <2>2. w.down = u.down
    BY <1>0 DEF w, States
  <2> QED
    BY <2>1, <2>2
<1>8. NoLook.wants = {} /\ x \in LookupState /\ x.wants = {} /\ x.block = b /\ ~x.gone
  BY DEF NoLook, LookupState
<1> HIDE DEF x
<1>9. f \in [Look -> LookupState] /\ f[l] = x /\ \A m \in Look \ {l} : f[m] = w.look[m]
  BY <1>0, <1>6, <1>8
<1> HIDE DEF f
<1>10. Same(w, y, {"look"}) /\ y.look = f
  BY <1>7, <1>9, StateWrites
<1> HIDE DEF y
<1>11. y \in States /\ y.hp = u.hp /\ y.qs = u.qs /\ y.lc = c /\ ~y.down
  BY <1>6, <1>7, <1>10 DEF Same
<1>12. \A m \in Look : y.look[m].wants = w.look[m].wants
  BY <1>6, <1>8, <1>9, <1>10
<1>13. Base(y)
  BY <1>6, <1>7, <1>11, <1>12 DEF Core, Base, Waited
<1>14. Busy(y, l)
  BY <1>2, <1>3, <1>6, <1>7, <1>8, <1>9, <1>10, <1>11, <1>13 DEF Core, Busy, Owns, LookOK
<1>15. PICK r \in Launch(y) :
         v \in IF r.ok THEN {AskFor(r.u, l, "dns")}
               ELSE {Waits(z, l, z.look[l].wants) : z \in LookupAuth(r.u, l)}
  <2>1. v \in UNION {IF r.ok THEN {AskFor(r.u, l, "dns")}
                     ELSE {Waits(z, l, z.look[l].wants) : z \in LookupAuth(r.u, l)} :
                     r \in Launch(y0)}
    BY DEF Handshake, x
  <2> HIDE DEF y0
  <2> QED
    BY <1>1, <2>1
<1>16. Busy(r.u, l) /\ Done1(y, r.u, l) /\ r.u.look = y.look
  BY <1>14, LaunchBusy
<1>17. Core(v) /\ Done1(y, v, l) /\ v.look[l].wants \in {{}, {"dns"}, {"auth"}}
  <2>1. CASE r.ok
    <3>1. v = AskFor(r.u, l, "dns") /\ "dns" \in Kinds /\ "dns" \notin r.u.look[l].wants
      BY <1>8, <1>9, <1>10, <1>15, <1>16, <2>1 DEF Kinds
    <3>2. Busy(v, l) /\ Done1(r.u, v, l) /\ v.look[l].wants = r.u.look[l].wants \cup {"dns"}
      BY <1>16, <3>1, AskForBusy
    <3>3. Core(v) /\ v.look[l].wants = {"dns"}
      BY <1>8, <1>9, <1>10, <1>16, <3>2, BusyIsCore
    <3> QED
      BY <1>16, <3>2, <3>3, Done1Twice
  <2>2. CASE ~r.ok
    <3>1. PICK z \in LookupAuth(r.u, l) : v = Waits(z, l, z.look[l].wants)
      BY <1>15, <2>2
    <3>2. "auth" \notin r.u.look[l].wants
      BY <1>8, <1>9, <1>10, <1>16
    <3>3. /\ Busy(z, l) /\ Done1(r.u, z, l)
          /\ z.look[l].wants \in {r.u.look[l].wants, r.u.look[l].wants \cup {"auth"}}
      BY <1>16, <3>1, <3>2, LookupAuthBusy
    <3>4. Core(v) /\ Done1(z, v, l) /\ v.look[l].wants = z.look[l].wants
      BY <3>1, <3>3, WaitsCore
    <3>5. z.look[l].wants \in {{}, {"auth"}}
      BY <1>8, <1>9, <1>10, <1>16, <3>3
    <3>6. Done1(r.u, v, l)
      BY <3>3, <3>4, Done1Twice
    <3> QED
      BY <1>16, <3>4, <3>5, <3>6, Done1Twice
  <2> QED
    BY <2>1, <2>2
<1>18. Few(v)
  <2> SUFFICES ASSUME NEW m \in Look PROVE OneOfMany(v.look[m].wants)
    BY DEF Few
  <2>1. CASE m = l
    BY <1>17, <2>1 DEF OneOfMany
  <2>2. CASE m # l
    <3>1. v.look[m] = w.look[m]
      BY <1>9, <1>10, <1>17, <2>2 DEF Done1
    <3> QED
      BY <1>7, <3>1 DEF Few
  <2> QED
    BY <2>1, <2>2
<1>19. ~v.down /\ HelperOK(v.hp) /\ NamesKept(u, v)
  BY <1>0, <1>11, <1>17 DEF Done1, Later, NamesKept
<1> QED
  BY <1>17, <1>18, <1>19 DEF Stepped, LInv

-----------------------------------------------------------------------------
(* What connect.c asks for.                                                *)

\* The queries of the other names.
OthersNames(u, v, q) ==
  \A x \in ForName \ {q} :
    /\ x \in Range(v.qs.list) <=> x \in Range(u.qs.list)
    /\ x \in v.qs.asked \cup v.qs.timed => x \in u.qs.asked \cup u.qs.timed

(* connect_cancel and the others.                                          *)
LEMMA DropSteps ==
  ASSUME NEW u, LInv(u), ~u.down, NEW q \in ForName, NEW v, v = Delete(u, {q})
  PROVE  /\ LInv(v) /\ ~v.down /\ OthersNames(u, v, q) /\ q \notin Range(v.qs.list)
         /\ q \notin v.qs.asked \cup v.qs.timed /\ v.hp = u.hp
<1>0. u \in States /\ ListOK(u.qs) /\ Core(u) /\ Few(u) /\ HelperOK(u.hp)
  BY ZenonT(60) DEF LInv, Core, Base
<1>1. /\ Same(u, v, {"qs"}) /\ ListOK(v.qs) /\ Range(v.qs.list) = Range(u.qs.list) \ {q}
      /\ v.qs.timed = u.qs.timed \ {q} /\ v.qs.asked = u.qs.asked \ {q}
  BY <1>0, DeleteFacts
<1>2. v \in States /\ v.hp = u.hp /\ v.look = u.look /\ v.lc = u.lc /\ v.down = u.down
  BY <1>1 DEF Same
<1>3. Waited(v)
  BY <1>0, <1>1, <1>2, NotNames, ZenonT(60) DEF Core, Base, Waited
<1>4. Core(v) /\ Few(v)
  BY <1>0, <1>1, <1>2, <1>3 DEF Core, Base, LookOK, Owns, Few
<1> QED
  BY <1>0, <1>1, <1>2, <1>4 DEF LInv, OthersNames

(* sauth_dns_forward.                                                      *)
LEMMA AskNameSteps ==
  ASSUME NEW u, LInv(u), ~u.down, NEW q \in ForName, NEW r \in Launch(u),
         NEW v, v = IF r.ok THEN Ask(Delete(r.u, {q}), q) ELSE r.u
  PROVE  /\ LInv(v) /\ ~v.down /\ OthersNames(u, v, q)
         /\ r.ok => q \in Range(v.qs.list)
         /\ ~r.ok => NamesKept(u, v)
<1> DEFINE w == r.u
           d == Delete(w, {q})
           y == Ask(d, q)
<1>0. u \in States /\ ListOK(u.qs) /\ Core(u) /\ Few(u) /\ HelperOK(u.hp)
  BY DEF LInv, Core, Base
<1>1. Same(u, w, {"hp"}) /\ Later(u.hp, w.hp)
  BY <1>0, LaunchFacts
<1>2. /\ w \in States /\ w.qs = u.qs /\ w.look = u.look /\ w.lc = u.lc /\ w.down = u.down
      /\ HelperOK(w.hp)
  BY <1>0, <1>1 DEF Same, Later
<1>3. LInv(w)
  BY <1>0, <1>2 DEF LInv, Core, Base, Waited, LookOK, Owns, Few
<1> HIDE DEF w
<1>4. CASE r.ok
  <2>1. /\ LInv(d) /\ ~d.down /\ OthersNames(w, d, q) /\ q \notin Range(d.qs.list) /\ d.hp = w.hp
        /\ q \notin d.qs.asked \cup d.qs.timed
    BY <1>2, <1>3, DropSteps
  <2>2. v = y
    BY <1>4 DEF w
  <2> HIDE DEF d
  <2>3. d \in States /\ ListOK(d.qs) /\ Core(d) /\ Few(d) /\ q \in Query
    BY <2>1, NotNames DEF LInv, Core, Base
  <2>4. /\ Same(d, y, {"qs"}) /\ ListOK(y.qs) /\ Range(y.qs.list) = Range(d.qs.list) \cup {q}
        /\ y.qs.timed = d.qs.timed \cup {q} /\ y.qs.asked \in {d.qs.asked, d.qs.asked \cup {q}}
    BY <2>1, <2>3, AskFacts
  <2> HIDE DEF y
  <2>5. y \in States /\ y.hp = d.hp /\ y.look = d.look /\ y.lc = d.lc /\ y.down = d.down
    BY <2>4 DEF Same
  <2>6. Waited(y)
    BY <2>3, <2>4, <2>5, NotNames, ZenonT(60) DEF Core, Base, Waited
  <2>7. LInv(y)
    BY <2>1, <2>3, <2>4, <2>5, <2>6 DEF LInv, Core, Base, LookOK, Owns, Few
  <2>8. OthersNames(u, y, q)
    BY <1>2, <2>1, <2>4 DEF OthersNames
  <2> QED
    BY <1>4, <2>1, <2>2, <2>4, <2>5, <2>7, <2>8
<1>5. CASE ~r.ok
  BY <1>2, <1>3, <1>5 DEF OthersNames, NamesKept, w
<1> QED
  BY <1>4, <1>5

(* The answer to a query of a connect{} block.                             *)
LEMMA NameSteps ==
  ASSUME NEW u, LInv(u), ~u.down, NEW q \in ForName, NEW v \in Tell(Read(u, q, FALSE), q, FALSE)
  PROVE  /\ Stepped(u, v) /\ ~v.down /\ q \notin v.qs.asked \cup v.qs.timed
<1> DEFINE w == Read(u, q, FALSE)
           y == [w EXCEPT !.qs.timed = w.qs.timed \ {q}]
<1>0. Core(u) /\ Few(u) /\ HelperOK(u.hp)
  BY DEF LInv
<1>1. /\ Core(w) /\ Few(w) /\ w.hp = u.hp /\ w.look = u.look /\ w.down = u.down
      /\ w.qs.list = u.qs.list /\ w.qs.asked = u.qs.asked \ {q} /\ NamesKept(u, w)
  BY <1>0, ReadFacts, ZenonT(60)
<1>2. v = y
  BY DEF Tell
<1> HIDE DEF w
<1>3. /\ Core(y) /\ y.hp = w.hp /\ y.look = w.look /\ y.down = w.down /\ NamesKept(w, y)
      /\ y.qs.asked = w.qs.asked /\ y.qs.timed = w.qs.timed \ {q}
  BY <1>1, Untimed
<1> HIDE DEF y
<1> QED
  BY <1>0, <1>1, <1>2, <1>3 DEF Stepped, LInv, Few, NamesKept

-----------------------------------------------------------------------------
(* The actions.                                                            *)

LEMMA BecomeFacts ==
  ASSUME NEW S, Become(S), S \subseteq States
  PROVE  State' \in S
<1>1. PICK u \in S : hp' = u.hp /\ qs' = u.qs /\ look' = u.look /\ lc' = u.lc /\ down' = u.down
  BY DEF Become
<1>2. State' = [hp |-> hp', qs |-> qs', look |-> look', lc |-> lc', down |-> down']
  BY DEF State
<1>3. u = [hp |-> u.hp, qs |-> u.qs, look |-> u.look, lc |-> u.lc, down |-> u.down]
  BY DEF States
<1>4. State' = u
  BY <1>1, <1>2, <1>3
<1> QED
  BY <1>4

LEMMA StateFields ==
  /\ State.hp = hp /\ State.qs = qs /\ State.look = look /\ State.lc = lc /\ State.down = down
  /\ State'.hp = hp' /\ State'.qs = qs' /\ State'.look = look' /\ State'.lc = lc'
  /\ State'.down = down'
BY DEF State

\* A handler whose outcomes are steps makes one.
LEMMA BecomeSteps ==
  ASSUME NEW u, NEW S, Become(S), \A v \in S : Stepped(u, v)
  PROVE  Stepped(u, State')
<1>1. S \subseteq States
  BY DEF Stepped, LInv, Core, Base
<1>2. State' \in S
  BY <1>1, BecomeFacts
<1> QED
  BY <1>2

LEMMA HelperStepKeeps ==
  ASSUME LInv(State), HelperStep
  PROVE  Stepped(State, State') /\ ~down
<1> DEFINE u == State
<1>0. /\ u.hp = hp /\ u.qs = qs /\ u.look = look /\ u.lc = lc /\ u.down = down
      /\ u'.hp = hp' /\ u'.qs = qs' /\ u'.look = look' /\ u'.lc = lc' /\ u'.down = down'
  BY StateFields
<1>1. CASE AcceptOne
  <2> DEFINE v == [u EXCEPT !.lc = [at |-> [u.lc.at EXCEPT ![Head(u.lc.free)] = "new"],
                                    free |-> Tail(u.lc.free)]]
  <2>1. ~u.down /\ u.lc.free # <<>> /\ u' = v
    BY <1>0, <1>1, ZenonT(60) DEF AcceptOne, State
  <2>2. Stepped(u, u')
    BY <2>1, AcceptSteps
  <2> QED
    BY <1>0, <2>1, <2>2
<1>2. CASE Dies
  <2> DEFINE v == [[u EXCEPT !.hp = [u.hp EXCEPT !.proc = "exited"]]
                      EXCEPT !.qs = [u.qs EXCEPT !.asked = {}]]
  <2> DEFINE h == [hp EXCEPT !.proc = "exited"]
             s == [qs EXCEPT !.asked = {}]
  <2>3. /\ ~down /\ hp.proc = "alive" /\ hp.timers <= MaxTimers /\ hp' = h /\ qs' = s
        /\ look' = look /\ lc' = lc /\ down' = down
    BY <1>2 DEF Dies
  <2>4. v = [[u EXCEPT !.hp = h] EXCEPT !.qs = s]
    BY <1>0
  <2> HIDE DEF h, s
  <2>5. [[u EXCEPT !.hp = h] EXCEPT !.qs = s]
          = [hp |-> h, qs |-> s, look |-> look, lc |-> lc, down |-> down]
    <3>1. [u EXCEPT !.hp = h] = [hp |-> h, qs |-> qs, look |-> look, lc |-> lc, down |-> down]
      BY DEF State
    <3>2. [[hp |-> h, qs |-> qs, look |-> look, lc |-> lc, down |-> down] EXCEPT !.qs = s]
            = [hp |-> h, qs |-> s, look |-> look, lc |-> lc, down |-> down]
      OBVIOUS
    <3> HIDE DEF u
    <3> QED
      BY <3>1, <3>2
  <2>6. u' = [hp |-> h, qs |-> s, look |-> look, lc |-> lc, down |-> down]
    BY <2>3 DEF State
  <2>1. ~u.down /\ u.hp.proc = "alive" /\ u.hp.timers <= MaxTimers /\ u' = v
    BY <1>0, <2>3, <2>4, <2>5, <2>6
  <2>2. Stepped(u, u')
    BY <2>1, DiesSteps
  <2> QED
    BY <1>0, <2>1, <2>2
<1>3. CASE Relaunch
  <2>1. ~u.down /\ u.hp.timers > 0
        /\ Become({IF r.ok THEN [r.u EXCEPT !.hp.timers = u.hp.timers - 1] ELSE r.u : r \in Launch(u)})
    BY <1>0, <1>3 DEF Relaunch
  <2> HIDE DEF u
  <2>2. \A v \in {IF r.ok THEN [r.u EXCEPT !.hp.timers = u.hp.timers - 1] ELSE r.u : r \in Launch(u)} :
          Stepped(u, v)
    BY <2>1, RelaunchSteps DEF u
  <2>3. Stepped(u, State')
    BY <2>1, <2>2, BecomeSteps
  <2> QED
    BY <1>0, <2>1, <2>3 DEF u
<1>4. CASE Check \/ Ends
  <2>1. ~u.down /\ u.hp.proc = "exited" /\ (Become(ChildCancel(u)) \/ Become(ReadEnd(u)))
    BY <1>0, <1>4 DEF Check, Ends
  <2> HIDE DEF u
  <2>2. (\A v \in ChildCancel(u) : Stepped(u, v)) /\ (\A v \in ReadEnd(u) : Stepped(u, v))
    BY <2>1, NoticeSteps DEF u
  <2>3. Stepped(u, State')
    BY <2>1, <2>2, BecomeSteps
  <2> QED
    BY <1>0, <2>1, <2>3 DEF u
<1>5. ASSUME NEW q \in Query, Expire(q) PROVE Stepped(State, State') /\ ~down
  <2>1. ~u.down /\ q \in u.qs.timed /\ Become(Fail(u, q))
    BY <1>0, <1>5 DEF Expire
  <2> HIDE DEF u
  <2>2. \A v \in Fail(u, q) : Stepped(u, v)
    BY <2>1, ExpireSteps DEF u
  <2>3. Stepped(u, State')
    BY <2>1, <2>2, BecomeSteps
  <2> QED
    BY <1>0, <2>1, <2>3 DEF u
<1>6. ASSUME NEW q \in qs.asked \cap ForLook, NEW good \in BOOLEAN, Answer(q, good)
      PROVE  Stepped(State, State') /\ ~down
  <2>1. ~u.down /\ q \in u.qs.asked /\ Become(Tell(Read(u, q, good), q, good))
    BY <1>0, <1>6 DEF Answer, Read
  <2> HIDE DEF u
  <2>2. \A v \in Tell(Read(u, q, good), q, good) : Stepped(u, v)
    BY <2>1, AnswerSteps DEF u
  <2>3. Stepped(u, State')
    BY <2>1, <2>2, BecomeSteps
  <2> QED
    BY <1>0, <2>1, <2>3 DEF u
<1>7. ASSUME NEW b \in Block, Leave(b) PROVE Stepped(State, State') /\ ~down
  <2>1. ~u.down /\ u.lc.at[b] # "free" /\ Become({Exit(u, b)})
    BY <1>0, <1>7 DEF Leave
  <2> HIDE DEF u
  <2>2. \A v \in {Exit(u, b)} : Stepped(u, v)
    BY <2>1, LeaveSteps DEF u
  <2>3. Stepped(u, State')
    BY <2>1, <2>2, BecomeSteps
  <2> QED
    BY <1>0, <2>1, <2>3 DEF u
<1>8. ASSUME NEW b \in Block, NEW l \in Look, UserSent(b, l) PROVE Stepped(State, State') /\ ~down
  <2>1. ~u.down /\ u.lc.at[b] = "new" /\ u.look[l] = NoLook /\ Become(Handshake(u, l, b))
    BY <1>0, <1>8 DEF UserSent
  <2> HIDE DEF u
  <2>2. \A v \in Handshake(u, l, b) : Stepped(u, v)
    BY <2>1, HandshakeSteps DEF u
  <2>3. Stepped(u, State')
    BY <2>1, <2>2, BecomeSteps
  <2> QED
    BY <1>0, <2>1, <2>3 DEF u
<1> QED
  BY <1>1, <1>2, <1>3, <1>4, <1>5, <1>6, <1>7, <1>8 DEF HelperStep

(* sauth_init.                                                             *)
LEMMA BootFacts == LInv(Boot) /\ Boot \in States /\ ~Boot.down /\ Range(Boot.qs.list) = {}
<1> DEFINE h == [proc |-> "none", status |-> "idle", check |-> FALSE, reads |-> FALSE,
                 child |-> FALSE, rtimer |-> TRUE, timers |-> 1]
           s == [list |-> <<>>, timed |-> {}, asked |-> {}, open |-> FALSE]
           k == [l \in Look |-> NoLook]
           c == [at |-> [b \in Block |-> "free"], free |-> FreeBlocks]
           u == Boot
<1>0. /\ MaxTimers \in Nat /\ FreeBlocks \in Seq(Block) /\ IsInjective(FreeBlocks)
      /\ Range(FreeBlocks) = Block
  BY LookupsAssumption DEF LookupsAssumption
<1>1. u = [hp |-> h, qs |-> s, look |-> k, lc |-> c, down |-> FALSE]
  BY DEF Boot
<1>2. h \in HelperState /\ HelperOK(h)
  BY <1>0 DEF HelperState, HelperOK
<1>3. s \in QueryState /\ s.list = <<>> /\ s.timed = {} /\ s.asked = {}
  BY DEF QueryState
<1>4. IsInjective(<<>>) /\ Range(<<>>) = {}
  BY DEF IsInjective, Range
<1> HIDE DEF h, s
<1>5. ListOK(s)
  BY <1>3, <1>4 DEF ListOK
<1>6. k \in [Look -> LookupState] /\ \A l \in Look : k[l] = NoLook /\ k[l].wants = {}
  BY DEF NoLook, LookupState
<1>7. c \in ClientState /\ c.free = FreeBlocks /\ \A b \in Block : c.at[b] = "free"
  BY <1>0 DEF ClientState
<1> HIDE DEF k, c
<1>8. LcOK(c)
  BY <1>0, <1>7 DEF LcOK
<1>9. u \in States /\ u.hp = h /\ u.qs = s /\ u.look = k /\ u.lc = c /\ u.down = FALSE
  BY <1>1, <1>2, <1>3, <1>6, <1>7 DEF States
<1> HIDE DEF u
<1>10. Base(u)
  BY <1>3, <1>4, <1>5, <1>6, <1>8, <1>9 DEF Base, Waited
<1>11. Core(u) /\ Few(u)
  BY <1>6, <1>9, <1>10 DEF Core, LookOK, Few, OneOfMany
<1> QED
  BY <1>2, <1>3, <1>4, <1>9, <1>11 DEF LInv, u

(* What LInv says of the queries and the process.                          *)
LEMMA LInvImplies ==
  ASSUME LInv(State)
  PROVE  LookupsOwned
<1>0. /\ State.hp = hp /\ State.qs = qs /\ State.look = look /\ State.lc = lc /\ State.down = down
  BY StateFields
<1>1. /\ hp \in HelperState /\ qs \in QueryState /\ look \in [Look -> LookupState]
      /\ lc \in ClientState /\ down \in BOOLEAN /\ ListOK(qs) /\ Waited(State)
      /\ ~down => HelperOK(hp)
  BY <1>0 DEF LInv, Core, Base, States
<1>2. LookupTypeOK
  BY <1>1 DEF LookupTypeOK, HelperState, QueryState, LookupState, ClientState, ListOK, Kinds
<1>3. Len(qs.list) = Cardinality(Range(qs.list))
  <2> DEFINE L == qs.list
             n == Len(L)
  <2>1. L \in Seq(Query) /\ IsInjective(L)
    BY <1>1 DEF ListOK, QueryState
  <2> HIDE DEF L
  <2>2. n \in Nat /\ DOMAIN L = 1 .. n /\ L \in [1 .. n -> Range(L)]
    BY <2>1 DEF Range
  <2>3. \A i, j \in 1 .. n : L[i] = L[j] => i = j
    BY <2>1, <2>2 DEF IsInjective
  <2> HIDE DEF n
  <2>4. L \in Bijection(1 .. n, Range(L))
    <3>1. L \in Injection(1 .. n, Range(L))
      BY <2>2, <2>3 DEF Injection, IsInjective
    <3>2. L \in Surjection(1 .. n, Range(L))
      BY <2>2 DEF Surjection, Range
    <3> QED
      BY <3>1, <3>2 DEF Bijection
  <2>5. ExistsBijection(1 .. n, Range(L))
    BY <2>4 DEF ExistsBijection
  <2>6. Cardinality(Range(L)) = n
    BY <2>2, <2>5, FS_CountingElements
  <2> QED
    BY <2>6 DEF L, n
<1>4. Range(qs.list) \ ForName = {q \in ForLook : q[2] \in look[q[1]].wants}
  <2>1. Range(qs.list) \subseteq Query
    BY <1>1 DEF QueryState, Range
  <2>2. ASSUME NEW l \in Look, NEW k \in Kinds
        PROVE  <<l, k>> \in Range(qs.list) <=> k \in look[l].wants
    BY <1>0, <1>1 DEF Waited
  <2>3. ASSUME NEW q PROVE q \in ForLook <=> q \in Query \ ForName
    BY NotNames DEF Query, ForLook, Kinds
  <2>4. ASSUME NEW q \in ForLook
        PROVE  q \in Range(qs.list) <=> q[2] \in look[q[1]].wants
    <3>1. q[1] \in Look /\ q[2] \in Kinds /\ q = <<q[1], q[2]>>
      BY DEF ForLook, Kinds
    <3> QED
      BY <2>2, <3>1
  <2> QED
    BY <2>1, <2>3, <2>4
<1>5. RelaunchPending
  BY <1>1 DEF RelaunchPending, HelperOK
<1> QED
  BY <1>2, <1>3, <1>4, <1>5 DEF LookupsOwned, QueriesOwned

-----------------------------------------------------------------------------
(* connect.c and the helper together.                                      *)

\* The inductive invariant.
OutInv == ConnInv /\ LInv(State) /\ QueriesAgree

\* The condition of StaysUp.
MayStop == ~hp.child \/ (\E l \in Look : look[l].gone) \/ qs.open

(* The start and a restart.                                                *)
LEMMA FreshHolds == OutInit => OutInv
<1> SUFFICES ASSUME OutInit PROVE OutInv
  OBVIOUS
<1>1. ConnInv /\ \A n \in Conn : cn[n].status = "idle" /\ ~cn[n].query
  BY ConnectInitHolds DEF OutInit, ConnectInit
<1>2. LInv(State) /\ Range(qs.list) = {}
  <2>1. State = Boot
    BY DEF OutInit, LookupInit, State, Boot
  <2> QED
    BY <2>1, BootFacts, StateFields
<1>3. qs.asked = {} /\ qs.timed = {}
  BY <1>2, StateFields DEF LInv, Core, Base, ListOK
<1>4. QueriesAgree
  BY <1>1, <1>3, ConnectsAssumption DEF QueriesAgree, ConnectsAssumption
<1> QED
  BY <1>1, <1>2, <1>4 DEF OutInv

\* No two names have the same query.
LEMMA NameQueries ==
  /\ \A n \in Named : NameOf(n) \in ForName
  /\ \A n, m : NameOf(n) = NameOf(m) => n = m
  /\ \A n : NameOf(n) \in Query => n \in Named /\ NameOf(n) \in ForName
<1>1. Asker = Named /\ "name" \notin Kinds
  BY OutgoingAssumption, LookupsAssumption DEF OutgoingAssumption, LookupsAssumption, Kinds
<1>2. \A n \in Named : NameOf(n) \in ForName
  BY <1>1 DEF NameOf, ForName
<1>3. \A n, m : NameOf(n) = NameOf(m) => n = m
  BY DEF NameOf
<1>4. \A n : NameOf(n) \in Query => n \in Named /\ NameOf(n) \in ForName
  BY <1>1 DEF NameOf, ForName, ForLook, Query, Kinds
<1> QED
  BY <1>2, <1>3, <1>4

LEMMA FreshAgain == OutInit' => OutInv'
BY FreshHolds, PTL

(* A step of connect.c and what it does to the queries.                    *)
LEMMA ConnectsKeeps ==
  ASSUME ~FailAtOnce, OutInv, Connects
  PROVE  OutInv' /\ ~down'
<1>1. ~down /\ ConnectStep /\ Queries /\ ConnInv /\ LInv(State) /\ QueriesAgree
  BY DEF Connects, OutInv
<1>2. PICK n \in Conn : Moves(n)
  BY <1>1, ConnectStepKeeps
<1>3. ConnInv'
  BY <1>1, ConnectStepKeeps
<1>4. QueryStep(n, cn[n], cn'[n]) /\ \A m \in Conn \ {n} : cn'[m] = cn[m] /\ ~Asks(m) /\ ~Drops(m)
  BY <1>2 DEF Moves, Asks, Drops
<1>5. Named \subseteq Conn
  BY ConnectsAssumption DEF ConnectsAssumption
<1> DEFINE q == NameOf(n)
           u == State
           Of1(m) == /\ cn[m].query => NameOf(m) \in Range(qs.list)
                     /\ NameOf(m) \in qs.asked \cup qs.timed => cn[m].query /\ cn[m].status = "resolving"
           Of2(m) == /\ cn'[m].query => NameOf(m) \in Range(qs'.list)
                     /\ NameOf(m) \in qs'.asked \cup qs'.timed =>
                          cn'[m].query /\ cn'[m].status = "resolving"
<1>6. \A m \in Named : Of1(m)
  BY <1>1 DEF QueriesAgree
<1>7. SUFFICES LInv(State') /\ ~down' /\ \A m \in Named : Of2(m)
  BY <1>3 DEF OutInv, QueriesAgree
<1>8. /\ u.hp = hp /\ u.qs = qs /\ u.down = down /\ u'.qs = qs' /\ u'.down = down'
  BY StateFields
<1> HIDE DEF q
\* The names of the other blocks.
<1>9. ASSUME OthersNames(u, u', q), NEW m \in Named \ {n} PROVE Of2(m)
  <2>1. NameOf(m) \in ForName \ {q}
    BY NameQueries DEF q
  <2>2. cn'[m] = cn[m]
    BY <1>4, <1>5
  <2> QED
    BY <1>6, <1>8, <1>9, <2>1, <2>2 DEF OthersNames
<1>10. CASE Asks(n)
  <2>1. n \in Named /\ q \in ForName
    BY <1>4, <1>10, NameQueries DEF QueryStep, Asks, q
  <2>2. AskName(q, cn'[n].query)
    BY <1>1, <1>4, <1>10 DEF Queries, q
  <2> DEFINE S == {IF cn'[n].query THEN Ask(Delete(r.u, {q}), q) ELSE r.u :
                   r \in {x \in Launch(State) : x.ok = cn'[n].query}}
  <2>3. Become(S)
    BY <2>2 DEF AskName
  <2> HIDE DEF u
  <2>4. ASSUME NEW v \in S
        PROVE  /\ LInv(v) /\ ~v.down /\ OthersNames(u, v, q)
               /\ cn'[n].query => q \in Range(v.qs.list)
               /\ ~cn'[n].query => NamesKept(u, v)
    <3>1. PICK r \in Launch(State) :
            r.ok = cn'[n].query /\ v = IF cn'[n].query THEN Ask(Delete(r.u, {q}), q) ELSE r.u
      OBVIOUS
    <3>2. r \in Launch(u) /\ LInv(u) /\ ~u.down /\ v = IF r.ok THEN Ask(Delete(r.u, {q}), q) ELSE r.u
      BY <1>1, <1>8, <3>1 DEF u
    <3> QED
      BY <2>1, <3>1, <3>2, AskNameSteps
  <2>5. S \subseteq States
    BY <2>4 DEF LInv, Core, Base
  <2> HIDE DEF S
  <2>6. State' \in S
    BY <2>3, <2>5, BecomeFacts
  <2>7. /\ LInv(u') /\ ~u'.down /\ OthersNames(u, u', q)
        /\ cn'[n].query => q \in Range(u'.qs.list)
        /\ ~cn'[n].query => NamesKept(u, u')
    BY <2>4, <2>6 DEF u
  <2>8. Of2(n)
    <3>1. cn'[n].status = "resolving" /\ cn[n].status # "resolving"
      BY <1>10 DEF Asks
    <3>2. q \notin qs.asked \cup qs.timed
      BY <1>6, <2>1, <3>1 DEF q
    <3> QED
      BY <1>8, <2>1, <2>7, <3>1, <3>2 DEF NamesKept, q
  <2> QED
    BY <1>8, <1>9, <2>7, <2>8 DEF u
<1>11. CASE ~Asks(n) /\ Drops(n)
  <2>1. DropName(q)
    BY <1>1, <1>4, <1>11 DEF Queries, q
  <2>2. q \in Range(u.qs.list) /\ Become({Delete(u, {q})})
    BY <1>8, <2>1 DEF DropName
  <2>3. q \in ForName /\ LInv(u) /\ ~u.down
    <3>1. Range(u.qs.list) \subseteq Query
      BY <1>1 DEF LInv, Core, Base, ListOK, QueryState, Range
    <3> QED
      BY <1>1, <1>8, <2>2, <3>1, NameQueries DEF q
  <2> HIDE DEF u
  <2> DEFINE v == Delete(u, {q})
  <2>4. /\ LInv(v) /\ ~v.down /\ OthersNames(u, v, q) /\ q \notin Range(v.qs.list)
        /\ q \notin v.qs.asked \cup v.qs.timed
    BY <2>3, DropSteps
  <2> HIDE DEF v
  <2>5. v \in States /\ Become({v})
    BY <2>2, <2>4 DEF LInv, Core, Base, v
  <2>6. State' = v
    BY <2>5, BecomeFacts
  <2>7. Of2(n)
    BY <1>8, <1>11, <2>4, <2>6 DEF Drops, q, u
  <2> QED
    BY <1>8, <1>9, <2>4, <2>6, <2>7 DEF u
<1>12. CASE ~Asks(n) /\ ~Drops(n)
  <2>1. UNCHANGED lookupVars
    BY <1>1, <1>4, <1>12 DEF Queries
  <2>2. qs' = qs /\ State' = State /\ down' = down
    BY <2>1 DEF lookupVars, State
  <2>3. n \in Named => Of2(n)
    BY <1>4, <1>6, <1>12, <2>2 DEF QueryStep, Asks, Drops
  <2>4. OthersNames(u, u', q)
    BY <2>2 DEF OthersNames
  <2> QED
    BY <1>1, <1>9, <2>2, <2>3, <2>4
<1> QED
  BY <1>10, <1>11, <1>12

\* Nothing of connect.c changes.
LEMMA HelperKeeps ==
  ASSUME OutInv, Lookups
  PROVE  OutInv' /\ (down' => MayStop)
<1>1. HelperStep /\ UNCHANGED connectVars /\ ConnInv /\ LInv(State) /\ QueriesAgree
  BY DEF Lookups, OutInv
<1>2. Stepped(State, State') /\ ~down
  BY <1>1, HelperStepKeeps
<1>3. cn' = cn /\ ConnInv'
  BY <1>1 DEF connectVars, ConnInv
<1>4. /\ LInv(State') /\ NamesKept(State, State')
      /\ State.qs = qs /\ State'.qs = qs' /\ State'.down = down' /\ State.hp = hp /\ State.look = look
  BY <1>2, StateFields DEF Stepped
<1>5. QueriesAgree'
  BY <1>1, <1>2, <1>3, <1>4, NameQueries DEF QueriesAgree, NamesKept
<1> QED
  BY <1>2, <1>3, <1>4, <1>5 DEF OutInv, Stepped, MayStop

(* connect_sauth.                                                          *)
LEMMA NameFoundKeeps ==
  ASSUME ~FailAtOnce, OutInv, NEW n \in Conn, NameFound(n)
  PROVE  OutInv' /\ ~down'
<1> DEFINE q == NameOf(n)
           u == State
<1>1. /\ Answered(n) /\ Answer(q, FALSE) /\ ConnInv /\ LInv(u) /\ QueriesAgree
  BY DEF NameFound, OutInv
<1>2. /\ ConnInv' /\ \A m \in Conn \ {n} : cn'[m] = cn[m]
      /\ cn'[n].status = "connecting" /\ cn'[n].query = cn[n].query
  BY <1>1, AnsweredKeeps
<1>3. /\ u.hp = hp /\ u.qs = qs /\ u.down = down /\ u'.qs = qs' /\ u'.down = down'
  BY StateFields
<1>4. ~down /\ q \in u.qs.asked /\ Become(Tell(Read(u, q, FALSE), q, FALSE))
  <2>1. /\ ~down /\ q \in qs.asked
        /\ Become(Tell([State EXCEPT !.qs.asked = qs.asked \ {q},
                                     !.qs.open = qs.open \/ (FALSE /\ q[2] \in Port)], q, FALSE))
    BY <1>1 DEF Answer
  <2> HIDE DEF q
  <2> QED
    BY <1>3, <2>1 DEF Read
<1>5. q \in ForName /\ n \in Named
  <2>1. q \in Query
    BY <1>1, <1>4 DEF LInv, Core, Base, ListOK, QueryState
  <2> QED
    BY <2>1, NameQueries
<1> HIDE DEF q, u
<1> DEFINE S == Tell(Read(u, q, FALSE), q, FALSE)
<1>6. \A v \in S : Stepped(u, v) /\ ~v.down /\ q \notin v.qs.asked \cup v.qs.timed
  BY <1>1, <1>3, <1>4, <1>5, NameSteps
<1>7. S \subseteq States /\ Become(S)
  BY <1>4, <1>6 DEF Stepped, LInv, Core, Base
<1> HIDE DEF S
<1>8. State' \in S
  BY <1>7, BecomeFacts
<1>9. LInv(u') /\ NamesKept(u, u') /\ ~u'.down /\ q \notin u'.qs.asked \cup u'.qs.timed
  BY <1>6, <1>8 DEF Stepped, u
<1>10. QueriesAgree'
  <2> SUFFICES ASSUME NEW m \in Named
               PROVE  /\ cn'[m].query => NameOf(m) \in Range(qs'.list)
                      /\ NameOf(m) \in qs'.asked \cup qs'.timed =>
                           cn'[m].query /\ cn'[m].status = "resolving"
    BY SMTT(40) DEF QueriesAgree
  <2>1. /\ cn[m].query => NameOf(m) \in Range(qs.list)
        /\ NameOf(m) \in qs.asked \cup qs.timed => cn[m].query /\ cn[m].status = "resolving"
    BY <1>1, <1>4 DEF QueriesAgree
  <2>2. NameOf(m) \in ForName /\ m \in Conn
    BY NameQueries, ConnectsAssumption DEF ConnectsAssumption
  <2>3. CASE m = n
    BY <1>2, <1>3, <1>9, <2>1, <2>2, <2>3 DEF NamesKept, q
  <2>4. CASE m # n
    BY <1>2, <1>3, <1>9, <2>1, <2>2, <2>4 DEF NamesKept
  <2> QED
    BY <2>3, <2>4
<1> QED
  BY <1>2, <1>3, <1>9, <1>10 DEF OutInv, u

LEMMA RestartsKeeps ==
  ASSUME Restarts
  PROVE  OutInv' /\ down
<1>1. down /\ OutInit'
  BY DEF Restarts, Restart, Become, OutInit, ConnectInit, LookupInit
<1> QED
  BY <1>1, FreshAgain

LEMMA OutInvImplies ==
  ASSUME OutInv
  PROVE  Owned
BY ConnInvImplies, LInvImplies DEF OutInv, Owned

(* Every step of the two together.                                         *)
LEMMA OutStepKeeps ==
  ASSUME ~FailAtOnce, OutInv, [OutNext]_outVars
  PROVE  OutInv' /\ (~down /\ down' => MayStop)
<1>1. CASE Connects
  BY <1>1, ConnectsKeeps
<1>2. CASE Lookups
  BY <1>2, HelperKeeps
<1>3. CASE Restarts
  BY <1>3, RestartsKeeps
<1>4. CASE \E n \in Conn : NameFound(n)
  BY <1>4, NameFoundKeeps
<1>5. CASE UNCHANGED outVars
  <2>1. UNCHANGED connectVars /\ UNCHANGED lookupVars
    BY <1>5 DEF outVars
  <2>2. ConnInv' /\ cn' = cn
    BY <2>1 DEF OutInv, ConnInv, connectVars
  <2>3. State' = State /\ qs' = qs /\ down' = down
    BY <2>1 DEF lookupVars, State
  <2> QED
    BY <2>2, <2>3 DEF OutInv, QueriesAgree
<1> QED
  BY <1>1, <1>2, <1>3, <1>4, <1>5 DEF OutNext

(***************************************************************************)
(* Timers, sockets, queries and clients have one owner each: no walk of    *)
(* the timers, no answer, timeout or death of the helper, in whatever      *)
(* order, makes connect.c, sauth.c and lc_sauth.c disagree.  It is the     *)
(* case ~FailAtOnce: a connect() that fails at once, called by its own     *)
(* timer, starts the next timer and then loses it in timer_run.            *)
(***************************************************************************)
THEOREM OwnersAlwaysOne == ~FailAtOnce => (OutSpec => []Owned)
<1> SUFFICES ASSUME ~FailAtOnce PROVE OutSpec => []Owned
  OBVIOUS
<1>1. OutInit => OutInv
  BY FreshHolds
<1>2. OutInv /\ [OutNext]_outVars => OutInv'
  BY OutStepKeeps
<1>3. OutInv => Owned
  BY OutInvImplies
<1> QED
  BY <1>1, <1>2, <1>3, PTL DEF OutSpec

(***************************************************************************)
(* No order of answers, timeouts, deaths and relaunches stops the server:  *)
(* sauth_recover never goes on with a query that its callbacks freed, and  *)
(* child_cancel never calls back without a child, but for what StaysUp     *)
(* excepts.                                                                *)
(***************************************************************************)
THEOREM ServerStaysUp == ~FailAtOnce => (OutSpec => StaysUp)
<1> SUFFICES ASSUME ~FailAtOnce PROVE OutSpec => StaysUp
  OBVIOUS
<1>1. OutInit => OutInv
  BY FreshHolds
<1>2. OutInv /\ [OutNext]_outVars => OutInv'
  BY OutStepKeeps
<1>3. OutInv /\ [OutNext]_outVars =>
        [ ~down /\ down' =>
            \/ ~hp.child
            \/ \E l \in Look : look[l].gone
            \/ qs.open ]_lookupVars
  BY OutStepKeeps DEF MayStop
<1> QED
  BY <1>1, <1>2, <1>3, PTL DEF OutSpec, StaysUp
=============================================================================
