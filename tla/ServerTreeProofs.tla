-------------------------- MODULE ServerTreeProofs --------------------------
(***************************************************************************)
(* Every server knows a tree below itself, and no NSERVER names an uplink  *)
(* its reader does not know, for any servers, links and sessions: TreeOK.  *)
(*                                                                         *)
(* TreeOK says nothing of what is on its way, so it is not inductive.  The *)
(* invariant adds that the messages to a server, taken one after the other *)
(* from what it knows over the link, introduce only what is not there, and *)
(* under what is, take away only what is there, and lead to what the       *)
(* sender knows over its other links (Leads, LinkOK).  So NSERVER finds    *)
(* the uplink and NQUIT what it names, and neither touches what is known   *)
(* over another link.  A view is what one side of a link knows: of each    *)
(* server behind it, the uplink.                                           *)
(*                                                                         *)
(* When nothing is on its way, what one end of a link heard is what the    *)
(* other told it.  So the ends know the same servers and, but for the      *)
(* root, the same tree, and with them all that are reached over links that *)
(* are up: Agreed.                                                         *)
(***************************************************************************)
EXTENDS ServerTree, SequenceTheorems, FiniteSetTheorems, FunctionTheorems,
        WellFoundedInduction, TLAPS

-----------------------------------------------------------------------------
(* Views and what messages make of them.                                   *)

View  == [Server -> Server \cup {Nobody}]
Entry == [up : Server \cup {Nobody}, via : Server \cup {Nobody}]
Trees == [Server -> Entry]

\* Of all that a server knows, what it knows over t, what it tells to t, and
\* what t is told of when nothing but s is behind s.
Ups(T)        == [w \in Server |-> T[w].up]
Heard(T, t)   == [w \in Server |-> IF T[w].via = t THEN T[w].up ELSE Nobody]
Side(T, s, t) == [w \in Server |-> IF w = s THEN t
                                   ELSE IF T[w].via = t THEN Nobody ELSE T[w].up]
Only(s, t)    == [w \in Server |-> IF w = s THEN t ELSE Nobody]

\* D is v and what is behind it.
Closed(W, X) == \A w \in Server : W[w] \in X => w \in X
Descends(W, v, D) ==
  /\ D \in SUBSET Server /\ v \in D /\ Closed(W, D)
  /\ \A X \in SUBSET Server : v \in X /\ Closed(W, X) => D \subseteq X

Cleared(W, D) == [w \in Server |-> IF w \in D THEN Nobody ELSE W[w]]

TreeMessage == [cmd : {"NSERVER"}, up : Server, name : Server]
               \cup [cmd : {"NQUIT"}, up : {Nobody}, name : Server]

\* m makes W2 of the view W.
Makes(W, m, W2) ==
  \/ /\ m.cmd = "NSERVER" /\ m.up \in Server
     /\ W[m.name] = Nobody /\ W[m.up] # Nobody
     /\ W2 = [W EXCEPT ![m.name] = m.up]
  \/ /\ m.cmd = "NQUIT"
     /\ W[m.name] # Nobody
     /\ \E D \in SUBSET Server : Descends(W, m.name, D) /\ W2 = Cleared(W, D)

\* The messages of q, one after the other, make B of A.
Line(q, V) == \A i \in 1 .. Len(q) : Makes(V[i - 1], q[i], V[i])
Leads(q, A, B) ==
  \E V \in [0 .. Len(q) -> View] : V[0] = A /\ V[Len(q)] = B /\ Line(q, V)

-----------------------------------------------------------------------------
(* The invariant.                                                          *)

\* T is a tree below s, and each branch of it is known over its own link.
Grown(T, s) ==
  /\ T \in Trees
  /\ T[s].up = s /\ T[s].via = s
  /\ \A v \in Server : T[v].up = Nobody <=> T[v].via = Nobody
  /\ \A v \in Server \ {s} : T[v].up # Nobody =>
       /\ T[T[v].up].up # Nobody
       /\ T[v].via = IF T[v].up = s THEN v ELSE T[T[v].up].via
       /\ T[v].via # s /\ T[T[v].via].up = s /\ T[T[v].via].via = T[v].via
  /\ \A X \in SUBSET Server :
       s \in X /\ Closed(Ups(T), X) => \A v \in Server : T[v].up # Nobody => v \in X

\* What the reader of l knows over it.
Base(l, E, R) ==
  IF E[Rev(l)] = "up" THEN Heard(R[l[2]], l[1]) ELSE Only(l[1], l[2])

Reaches(l, E, R, B) ==
  /\ E[l] = "up"   => B = Side(R[l[1]], l[1], l[2])
  /\ E[l] = "open" => B = Only(l[1], l[2])

LinkOK(l, E, N, R) ==
  /\ E[l] = "open" => N[l] = <<>>
  /\ E[Rev(l)] # "down" =>
       \E B \in View : Leads(N[l], Base(l, E, R), B) /\ Reaches(l, E, R, B)

IsChild(T, s, t) == T[t].up = s /\ T[t].via = t

Typed(E, N, R) ==
  /\ E \in [Link -> {"down", "open", "up"}]
  /\ N \in [Link -> Seq(TreeMessage)]
  /\ R \in [Server -> Trees]

Trued(E, N, R) ==
  /\ Typed(E, N, R)
  /\ \A s \in Server : Grown(R[s], s)
  /\ \A l \in Link : E[l] = "up" <=> IsChild(R[l[1]], l[1], l[2])
  /\ \A l \in Link : LinkOK(l, E, N, R)

TreeInv == Trued(end, net, tree) /\ crashed = {} /\ sessions \in 0 .. MaxSessions

-----------------------------------------------------------------------------
(* A set of numbers has a smallest.                                        *)
LEMMA LeastIn ==
  ASSUME NEW S \in SUBSET Nat, S # {}
  PROVE  \E x \in S : \A y \in S : x <= y
<1>1. \E x \in S : \A y \in S : ~ (<<y, x>> \in OpToRel(<, Nat))
  BY NatLessThanWellFounded, WFMin, Zenon
<1>2. \A x \in S, y \in S : <<y, x>> \in OpToRel(<, Nat) <=> y < x
  <2>1. \A x \in Nat, y \in Nat : <<y, x>> \in {p \in Nat \X Nat : p[1] < p[2]} <=> y < x
    OBVIOUS
  <2> QED
    BY <2>1, Zenon DEF OpToRel
<1>3. \E x \in S : \A y \in S : ~(y < x)
  BY <1>1, <1>2, Zenon
<1> QED
  BY <1>3

(* What holds at first and is kept by every change holds at last.          *)
LEMMA AlongLine ==
  ASSUME NEW k \in Nat, NEW S, NEW f, f[0] \in S[0],
         \A n \in 1 .. k : f[n - 1] \in S[n - 1] => f[n] \in S[n]
  PROVE  \A n \in 0 .. k : f[n] \in S[n]
<1> DEFINE Bad == {n \in 0 .. k : f[n] \notin S[n]}
<1>1. SUFFICES ASSUME Bad # {} PROVE FALSE
  OBVIOUS
<1>2. Bad \in SUBSET Nat
  OBVIOUS
<1>3. PICK n \in Bad : \A m \in Bad : n <= m
  BY <1>1, <1>2, LeastIn, Zenon
<1>4. n \in 1 .. k /\ f[n] \notin S[n]
  BY <1>3
<1>5. f[n - 1] \in S[n - 1]
  <2>1. n - 1 \in 0 .. k /\ ~(n <= n - 1)
    BY <1>4
  <2> QED
    BY <1>3, <2>1
<1> QED
  BY <1>4, <1>5

\* What the k changes of a line do to the things of S; x taken through them.
Changes(k, S) == [1 .. k -> [S -> S]]
Through(k, S, x, G) ==
  \E f \in [0 .. k -> S] : f[0] = x /\ \A n \in 1 .. k : f[n] = G[n][f[n - 1]]

(* There is the function that each change takes one step further.          *)
LEMMA LineFunction ==
  ASSUME NEW k \in Nat, NEW S, NEW x \in S, NEW G \in Changes(k, S)
  PROVE  Through(k, S, x, G)
<1> USE DEF Changes
<1> SUFFICES \E f \in [0 .. k -> S] : f[0] = x /\ \A n \in 1 .. k : f[n] = G[n][f[n - 1]]
  BY DEF Through
<1> DEFINE Is(f, m) == f[0] = x /\ \A n \in 1 .. m : f[n] = G[n][f[n - 1]]
           Reach == {m \in 0 .. k : \E f \in [0 .. m -> S] : Is(f, m)}
           Bad == (0 .. k) \ Reach
<1>1. 0 \in Reach
  <2>1. [n \in 0 .. 0 |-> x] \in [0 .. 0 -> S] /\ Is([n \in 0 .. 0 |-> x], 0)
    OBVIOUS
  <2>2. 0 \in 0 .. k
    OBVIOUS
  <2> HIDE DEF Is
  <2> QED
    BY <2>1, <2>2
<1>2. ASSUME NEW m \in 1 .. k, m - 1 \in Reach
      PROVE  m \in Reach
  <2>1. PICK f \in [0 .. m - 1 -> S] : Is(f, m - 1)
    BY <1>2
  <2> DEFINE g == [n \in 0 .. m |-> IF n = m THEN G[m][f[m - 1]] ELSE f[n]]
  <2>2. f[m - 1] \in S /\ G[m] \in [S -> S]
    BY <2>1
  <2>3. g \in [0 .. m -> S]
    <3>1. G[m][f[m - 1]] \in S
      BY <2>2
    <3>2. ASSUME NEW n \in 0 .. m, n # m PROVE f[n] \in S
      BY <2>1, <3>2
    <3> QED
      BY <3>1, <3>2
  <2>4. g[0] = x
    BY <2>1
  <2>5. ASSUME NEW n \in 1 .. m PROVE g[n] = G[n][g[n - 1]]
    <3>1. CASE n = m
      BY <3>1
    <3>2. CASE n # m
      <4>1. n \in 1 .. m - 1 /\ n - 1 \in 0 .. m /\ n - 1 # m /\ n \in 0 .. m
        BY <3>2
      <4>2. f[n] = G[n][f[n - 1]]
        BY <2>1, <4>1
      <4> QED
        BY <3>2, <4>1, <4>2
    <3> QED
      BY <3>1, <3>2
  <2> HIDE DEF g
  <2>6. Is(g, m)
    BY <2>4, <2>5
  <2> QED
    BY <2>3, <2>6, SMTT(40)
<1> HIDE DEF Reach
<1>3. SUFFICES Bad = {}
  <2> SUFFICES k \in Reach
    BY DEF Reach
  <2> QED
    BY <1>3
<1>4. SUFFICES ASSUME Bad # {} PROVE FALSE
  OBVIOUS
<1>5. Bad \in SUBSET Nat
  OBVIOUS
<1>6. PICK m \in Bad : \A n \in Bad : m <= n
  BY <1>4, <1>5, LeastIn, Zenon
<1>7. m \in 1 .. k /\ m \notin Reach
  BY <1>1, <1>6
<1>8. m - 1 \in Reach
  <2>1. m - 1 \in 0 .. k /\ ~(m <= m - 1)
    BY <1>7
  <2> QED
    BY <1>6, <2>1
<1> QED
  BY <1>2, <1>7, <1>8



-----------------------------------------------------------------------------
(* Below.                                                                  *)

(* Below is v and all that is behind it.  However the servers are found,   *)
(* as many rounds as there are servers find them all.                      *)
LEMMA BelowIs ==
  ASSUME NEW T \in Trees, NEW v \in Server
  PROVE  Descends(Ups(T), v, Below(T, v))
<1> DEFINE k == Cardinality(Server)
           S == SUBSET Server
           more(b) == b \cup {w \in Known(T) : T[w].up \in b}
           body(h) == [n \in 0 .. k |-> IF n = 0 THEN {v} ELSE more(h[n - 1])]
           below == CHOOSE h : h = body(h)
           G == [n \in 1 .. k |-> [b \in S |-> more(b)]]
<1>1. k \in Nat /\ IsFiniteSet(Server)
  BY FS_CardinalityType, ServerTreeAssumption DEF ServerTreeAssumption
<1>2. Below(T, v) = below[k]
  BY DEF Below
<1>3. below = CHOOSE h : h = body(h)
  OBVIOUS
<1>4. \A b \in S : more(b) \in S /\ b \subseteq more(b)
  BY DEF Known
<1>5. G \in Changes(k, S)
  BY <1>4 DEF Changes
<1> HIDE DEF k, below, more, G
<1>6. PICK f \in [0 .. k -> S] : f[0] = {v} /\ \A n \in 1 .. k : f[n] = G[n][f[n - 1]]
  <2>1. {v} \in S
    OBVIOUS
  <2> HIDE DEF S
  <2>2. Through(k, S, {v}, G)
    BY <1>1, <1>5, <2>1, LineFunction, Zenon
  <2> QED
    BY <2>2 DEF Through
<1>7. f = body(f)
  <2>1. ASSUME NEW n \in 0 .. k PROVE f[n] = IF n = 0 THEN {v} ELSE more(f[n - 1])
    <3>1. n = 0 \/ (n \in 1 .. k /\ n - 1 \in 0 .. k)
      BY <1>1
    <3>2. n \in 1 .. k /\ n - 1 \in 0 .. k => f[n] = more(f[n - 1])
      BY <1>6 DEF G
    <3> QED
      BY <1>6, <3>1, <3>2
  <2> QED
    BY <2>1
<1>8. below = body(below)
  <2> HIDE DEF body
  <2> QED
    BY <1>3, <1>7
<1>9. \A n \in 0 .. k : below[n] = IF n = 0 THEN {v} ELSE more(below[n - 1])
  BY <1>8, Zenon
<1>10. below[0] = {v} /\ \A n \in 1 .. k : n - 1 \in 0 .. k /\ below[n] = more(below[n - 1])
  <2>1. 0 \in 0 .. k /\ \A n \in 1 .. k : n \in 0 .. k /\ n - 1 \in 0 .. k /\ n # 0
    BY <1>1
  <2> QED
    BY <1>9, <2>1
<1>11. \A n \in 0 .. k : below[n] \in S /\ v \in below[n]
  <2> DEFINE P == [n \in 0 .. k |-> {b \in S : v \in b}]
  <2>1. below[0] \in P[0]
    BY <1>1, <1>10
  <2>2. \A n \in 1 .. k : below[n - 1] \in P[n - 1] => below[n] \in P[n]
    BY <1>1, <1>4, <1>10
  <2> HIDE DEF P
  <2>3. \A n \in 0 .. k : below[n] \in P[n]
    BY <1>1, <2>1, <2>2, AlongLine
  <2> QED
    BY <2>3 DEF P
<1>12. ASSUME NEW X \in SUBSET Server, v \in X, Closed(Ups(T), X)
       PROVE  below[k] \subseteq X
  <2> DEFINE P == [n \in 0 .. k |-> SUBSET X]
  <2>1. below[0] \in P[0]
    BY <1>1, <1>10, <1>12
  <2>2. ASSUME NEW n \in 1 .. k, below[n - 1] \in P[n - 1]
        PROVE  below[n] \in P[n]
    <3>1. n \in 0 .. k /\ n - 1 \in 0 .. k
      BY <1>1
    <3>2. below[n - 1] \subseteq X
      BY <2>2, <3>1
    <3>3. more(below[n - 1]) \subseteq X
      BY <1>12, <3>2 DEF more, Closed, Ups, Known
    <3> QED
      BY <1>10, <3>1, <3>3
  <2> HIDE DEF P
  <2>3. \A n \in 0 .. k : below[n] \in P[n]
    BY <1>1, <2>1, <2>2, AlongLine
  <2>4. k \in 0 .. k
    BY <1>1
  <2> QED
    BY <2>3, <2>4 DEF P
<1>13. more(below[k]) = below[k]
  <2> DEFINE P == [n \in 0 .. k |-> {b \in S : more(b) = b \/ Cardinality(b) >= n + 1}]
  <2>1. \A b \in S : IsFiniteSet(b) /\ Cardinality(b) \in Nat /\ Cardinality(b) <= k
    BY <1>1, FS_Subset, FS_CardinalityType DEF k
  <2>2. below[0] \in P[0]
    <3>1. Cardinality({v}) = 1
      BY FS_Singleton
    <3> QED
      BY <1>1, <1>10, <3>1
  <2>3. ASSUME NEW n \in 1 .. k, below[n - 1] \in P[n - 1]
        PROVE  below[n] \in P[n]
    <3> DEFINE b == below[n - 1]
               c == below[n]
    <3>1. n \in 0 .. k /\ n - 1 \in 0 .. k /\ n \in Nat
      BY <1>1
    <3>2. b \in S /\ c \in S /\ c = more(b) /\ b \subseteq c
      BY <1>4, <1>10, <1>11, <3>1
    <3>3. more(b) = b \/ Cardinality(b) >= n
      BY <2>3, <3>1
    <3> HIDE DEF b, c
    <3>4. CASE more(b) = b
      BY <3>1, <3>2, <3>4 DEF c
    <3>5. CASE more(b) # b /\ Cardinality(b) >= n
      <4>1. Cardinality(b) < Cardinality(c)
        <5>1. b # c
          BY <3>2, <3>5
        <5>2. Cardinality(b) <= Cardinality(c) /\ (Cardinality(b) = Cardinality(c) => b = c)
          BY <2>1, <3>2, FS_Subset
        <5> QED
          BY <2>1, <3>2, <5>1, <5>2
      <4>2. Cardinality(c) >= n + 1
        BY <2>1, <3>1, <3>2, <3>5, <4>1
      <4> QED
        BY <3>1, <3>2, <4>2 DEF c
    <3> QED
      BY <3>3, <3>4, <3>5
  <2> HIDE DEF P
  <2>4. \A n \in 0 .. k : below[n] \in P[n]
    BY <1>1, <2>2, <2>3, AlongLine
  <2>5. k \in 0 .. k /\ below[k] \in S
    BY <1>1, <1>11
  <2>6. more(below[k]) = below[k] \/ Cardinality(below[k]) >= k + 1
    BY <2>4, <2>5 DEF P
  <2> QED
    BY <1>1, <2>1, <2>5, <2>6
<1>14. k \in 0 .. k
  BY <1>1
<1>15. Closed(Ups(T), below[k])
  <2> SUFFICES ASSUME NEW w \in Server, T[w].up \in below[k] PROVE w \in below[k]
    BY DEF Closed, Ups
  <2>1. T[w].up # Nobody
    BY <1>11, <1>14, ServerTreeAssumption DEF ServerTreeAssumption
  <2>2. w \in Known(T)
    BY <2>1 DEF Known, Unknown
  <2> QED
    BY <1>13, <2>2 DEF more
<1> QED
  BY <1>2, <1>11, <1>12, <1>14, <1>15 DEF Descends

-----------------------------------------------------------------------------
(* Trees.                                                                  *)

\* v is known by s over a link of s.
Placed(T, s, v) == v \in Server /\ v # s /\ T[v].up # Nobody

(* Where what is placed has its uplink, and the root of its branch.        *)
LEMMA PlacedFacts ==
  ASSUME NEW T, NEW s \in Server, Grown(T, s), NEW v, Placed(T, s, v)
  PROVE  /\ T[v].up \in Server /\ T[v].via \in Server
         /\ T[T[v].up].up # Nobody
         /\ T[v].up = s => T[v].via = v
         /\ T[v].up # s => T[v].via = T[T[v].up].via
         /\ T[v].via # s /\ IsChild(T, s, T[v].via)
<1>1. v \in Server /\ v \in Server \ {s} /\ T[v].up # Nobody /\ T \in Trees
  BY DEF Placed, Grown
<1>2. T[v] \in Entry
  BY <1>1 DEF Trees
<1>3. T[v].up \in Server /\ T[v].via \in Server
  BY <1>1, <1>2 DEF Grown, Entry
<1> QED
  BY <1>1, <1>3 DEF Grown, IsChild

(* A server that is not known has no uplink.                               *)
LEMMA UnknownIs ==
  ASSUME NEW T, NEW s \in Server, Grown(T, s), NEW w \in Server
  PROVE  T[w] = Unknown <=> T[w].up = Nobody
<1>1. T[w] \in Entry
  BY DEF Grown, Trees
<1>2. T[w].up = Nobody => T[w].via = Nobody
  BY DEF Grown
<1>3. T[w] = [up |-> T[w].up, via |-> T[w].via]
  BY <1>1 DEF Entry
<1> QED
  BY <1>2, <1>3 DEF Unknown

(* Nobody is over the link of s to itself but s, nor over none.            *)
LEMMA ViaFacts ==
  ASSUME NEW T, NEW s \in Server, Grown(T, s), NEW t \in Server, t # s
  PROVE  /\ \A w \in Server : T[w].via = t => Placed(T, s, w)
         /\ T[s].via # t
<1>1. T[s].via = s /\ Nobody \notin Server
  BY ServerTreeAssumption DEF Grown, ServerTreeAssumption
<1>2. ASSUME NEW w \in Server, T[w].via = t PROVE Placed(T, s, w)
  <2>1. w # s
    BY <1>1, <1>2
  <2>2. T[w].up # Nobody
    BY <1>1, <1>2 DEF Grown
  <2> QED
    BY <2>1, <2>2 DEF Placed
<1> QED
  BY <1>1, <1>2

(* What is behind a server came over the link it came from.                *)
LEMMA BranchBelow ==
  ASSUME NEW T, NEW s \in Server, Grown(T, s), NEW v, Placed(T, s, v),
         NEW D, Descends(Ups(T), v, D)
  PROVE  \A w \in D : Placed(T, s, w) /\ T[w].via = T[v].via
<1> DEFINE t == T[v].via
           X == {w \in Server : T[w].via = t}
<1>1. t \in Server /\ t # s /\ v \in Server
  BY PlacedFacts DEF Placed
<1>2. \A w \in X : Placed(T, s, w)
  BY <1>1, ViaFacts
<1>3. v \in X
  BY <1>1
<1>4. Closed(Ups(T), X)
  <2> SUFFICES ASSUME NEW w \in Server, T[w].up \in X PROVE T[w].via = t
    BY DEF Closed, Ups
  <2>1. T[w].up # s /\ T[w].up # Nobody
    <3>1. Placed(T, s, T[w].up)
      BY <1>2
    <3> QED
      BY <3>1, ServerTreeAssumption DEF Placed, ServerTreeAssumption
  <2>2. w # s
    BY <2>1 DEF Grown
  <2>3. Placed(T, s, w)
    BY <2>1, <2>2 DEF Placed
  <2> QED
    BY <2>1, <2>3, PlacedFacts
<1>5. D \subseteq X
  BY <1>3, <1>4 DEF Descends
<1> QED
  BY <1>2, <1>5

(* What is behind a server of another's branch is not what the branch      *)
(* starts with.                                                            *)
LEMMA ChildBelow ==
  ASSUME NEW T, NEW s \in Server, Grown(T, s), NEW v, Placed(T, s, v),
         NEW D, Descends(Ups(T), v, D), NEW c \in D, IsChild(T, s, c)
  PROVE  c = v
<1>1. SUFFICES ASSUME c # v PROVE FALSE
  OBVIOUS
<1> DEFINE X == D \ {c}
<1>2. D \in SUBSET Server /\ v \in D /\ Closed(Ups(T), D)
  BY DEF Descends
<1>3. s \notin D
  BY BranchBelow DEF Placed
<1>4. Closed(Ups(T), X)
  <2> SUFFICES ASSUME NEW w \in Server, T[w].up \in X PROVE w \in X
    BY DEF Closed, Ups
  <2>1. w \in D
    BY <1>2 DEF Closed, Ups
  <2>2. w # c
    BY <1>3 DEF IsChild
  <2> QED
    BY <2>1, <2>2
<1>5. v \in X /\ X \in SUBSET Server
  BY <1>1, <1>2
<1>6. D \subseteq X
  BY <1>4, <1>5 DEF Descends
<1> QED
  BY <1>6

(* Behind a server of its own link is all that came over it.               *)
LEMMA WholeBranch ==
  ASSUME NEW T, NEW s \in Server, Grown(T, s), NEW v, Placed(T, s, v), T[v].via = v,
         NEW D, Descends(Ups(T), v, D)
  PROVE  D = {w \in Server : T[w].via = v}
<1> DEFINE X == {w \in Server : T[w].via # v} \cup D
<1>1. D \in SUBSET Server /\ v \in D /\ Closed(Ups(T), D)
  BY DEF Descends
<1>2. s \in X
  BY DEF Grown, Placed
<1>3. Closed(Ups(T), X)
  <2> SUFFICES ASSUME NEW w \in Server, T[w].up \in X PROVE w \in X
    BY DEF Closed, Ups
  <2>1. CASE T[w].up \in D
    BY <1>1, <2>1 DEF Closed, Ups
  <2>2. CASE T[w].up \notin D /\ T[T[w].up].via # v
    <3>1. CASE w = s
      BY <1>2, <3>1
    <3>2. CASE w # s
      <4>1. T[w].up # Nobody
        BY <1>1, ServerTreeAssumption DEF ServerTreeAssumption
      <4>2. Placed(T, s, w)
        BY <3>2, <4>1 DEF Placed
      <4>3. T[w].up = s => T[w].via = w
        BY <4>2, PlacedFacts
      <4>4. T[w].up # s => T[w].via # v
        BY <2>2, <4>2, PlacedFacts
      <4>5. w = v => w \in X
        BY <1>1
      <4> QED
        BY <4>3, <4>4, <4>5
    <3> QED
      BY <3>1, <3>2
  <2> QED
    BY <2>1, <2>2
<1>4. \A w \in Server : T[w].up # Nobody => w \in X
  <2>1. X \in SUBSET Server
    BY <1>1
  <2> HIDE DEF X
  <2> QED
    BY <1>2, <1>3, <2>1 DEF Grown
<1>5. v \in Server /\ v # s
  BY DEF Placed
<1>6. ASSUME NEW w \in Server, T[w].via = v PROVE w \in D
  <2>1. T[w].up # Nobody
    BY <1>5, <1>6, ViaFacts DEF Placed
  <2> QED
    BY <1>4, <1>6, <2>1
<1>7. \A w \in D : T[w].via = v
  BY BranchBelow
<1> QED
  BY <1>1, <1>6, <1>7

\* T without D.
Pruned(T, D) == [w \in Server |-> IF w \in D THEN Unknown ELSE T[w]]

(* A server and all behind it go: what is left is a tree.                  *)
LEMMA PrunedGrown ==
  ASSUME NEW T, NEW s \in Server, Grown(T, s), NEW v, Placed(T, s, v),
         NEW D, Descends(Ups(T), v, D)
  PROVE  Grown(Pruned(T, D), s)
<1> DEFINE T2 == Pruned(T, D)
<1>1. D \in SUBSET Server /\ Closed(Ups(T), D) /\ T \in Trees /\ Nobody \notin Server
  BY ServerTreeAssumption DEF Descends, Grown, ServerTreeAssumption
<1>2. s \notin D
  BY BranchBelow DEF Placed
<1>3. \A w \in Server : /\ w \in D => T2[w].up = Nobody /\ T2[w].via = Nobody
                        /\ w \notin D => T2[w] = T[w]
  BY DEF Pruned, Unknown
<1>4. T2 \in Trees
  BY <1>1 DEF Pruned, Trees, Entry, Unknown
<1>5. T2[s].up = s /\ T2[s].via = s
  BY <1>2, <1>3 DEF Grown
<1>6. \A w \in Server : T2[w].up = Nobody <=> T2[w].via = Nobody
  BY <1>3 DEF Grown
<1>7. ASSUME NEW w \in Server \ {s}, T2[w].up # Nobody
      PROVE  /\ T2[T2[w].up].up # Nobody
             /\ T2[w].via = IF T2[w].up = s THEN w ELSE T2[T2[w].up].via
             /\ T2[w].via # s /\ T2[T2[w].via].up = s /\ T2[T2[w].via].via = T2[w].via
  <2>1. w \notin D /\ T2[w] = T[w] /\ Placed(T, s, w)
    BY <1>3, <1>7 DEF Placed
  <2>2. /\ T[w].up \in Server /\ T[w].via \in Server
        /\ T[T[w].up].up # Nobody
        /\ T[w].up = s => T[w].via = w
        /\ T[w].up # s => T[w].via = T[T[w].up].via
        /\ T[w].via # s /\ IsChild(T, s, T[w].via)
    BY <2>1, PlacedFacts
  <2>3. T[w].up \notin D
    BY <1>1, <2>1 DEF Closed, Ups
  <2>4. T[w].via \notin D
    <3>1. SUFFICES ASSUME T[w].via \in D PROVE FALSE
      OBVIOUS
    <3>2. T[w].via = v
      BY <2>2, <3>1, ChildBelow
    <3>3. T[v].via = v
      BY <2>2, <3>2 DEF IsChild
    <3>4. w \in D
      BY <3>2, <3>3, WholeBranch
    <3> QED
      BY <2>1, <3>4
  <2>5. T2[T[w].up] = T[T[w].up] /\ T2[T[w].via] = T[T[w].via]
    BY <1>3, <2>2, <2>3, <2>4
  <2> QED
    BY <2>1, <2>2, <2>5 DEF IsChild
<1>8. ASSUME NEW X \in SUBSET Server, s \in X, Closed(Ups(T2), X)
      PROVE  \A w \in Server : T2[w].up # Nobody => w \in X
  <2> DEFINE Y == X \cup D
  <2>1. Y \in SUBSET Server /\ s \in Y
    BY <1>1, <1>8
  <2>2. Closed(Ups(T), Y)
    <3> SUFFICES ASSUME NEW w \in Server, T[w].up \in Y, w \notin D PROVE w \in X
      BY DEF Closed, Ups
    <3>1. T[w].up \in X
      BY <1>1 DEF Closed, Ups
    <3>2. T2[w].up \in X
      BY <1>3, <3>1
    <3> QED
      BY <1>8, <3>2 DEF Closed, Ups
  <2> HIDE DEF Y
  <2>3. \A w \in Server : T[w].up # Nobody => w \in Y
    BY <2>1, <2>2 DEF Grown
  <2> QED
    BY <1>3, <2>3 DEF Y
<1> HIDE DEF T2
<1>9. Grown(T2, s)
  BY <1>4, <1>5, <1>6, <1>7, <1>8, Zenon DEF Grown
<1> QED
  BY <1>9 DEF T2

\* T and x behind u.
Grafted(T, s, x, u) ==
  [T EXCEPT ![x] = [up |-> u, via |-> IF u = s THEN x ELSE T[u].via]]

(* A server that was not known comes behind one that is.                   *)
LEMMA GraftedGrown ==
  ASSUME NEW T, NEW s \in Server, Grown(T, s), NEW x \in Server, T[x].up = Nobody,
         NEW u \in Server, T[u].up # Nobody
  PROVE  /\ Grown(Grafted(T, s, x, u), s) /\ x # s
         /\ \A w \in Server \ {x} : Grafted(T, s, x, u)[w] = T[w]
         /\ Grafted(T, s, x, u)[x].up = u
         /\ Grafted(T, s, x, u)[x].via = IF u = s THEN x ELSE T[u].via
         /\ u # s => T[u].via \in Server /\ T[u].via # s /\ T[u].via # x
<1> DEFINE T2 == Grafted(T, s, x, u)
           t == IF u = s THEN x ELSE T[u].via
<1>1. T \in Trees /\ Nobody \notin Server /\ x # s /\ x # u
  BY ServerTreeAssumption DEF Grown, ServerTreeAssumption
<1>2. u # s => T[u].via \in Server /\ T[u].via # s /\ IsChild(T, s, T[u].via)
  BY PlacedFacts DEF Placed
<1>3. t \in Server /\ t # s /\ (u # s => t # x)
  BY <1>1, <1>2 DEF IsChild
<1>4. T2 \in Trees
  BY <1>1, <1>3 DEF Grafted, Trees, Entry
<1>5. T2[x].up = u /\ T2[x].via = t /\ \A w \in Server \ {x} : T2[w] = T[w]
  BY <1>1 DEF Grafted, Trees
<1>6. T2[s].up = s /\ T2[s].via = s
  BY <1>1, <1>5 DEF Grown
<1>7. \A w \in Server : T2[w].up = Nobody <=> T2[w].via = Nobody
  BY <1>1, <1>3, <1>5 DEF Grown
<1>8. ASSUME NEW w \in Server \ {s}, T2[w].up # Nobody
      PROVE  /\ T2[T2[w].up].up # Nobody
             /\ T2[w].via = IF T2[w].up = s THEN w ELSE T2[T2[w].up].via
             /\ T2[w].via # s /\ T2[T2[w].via].up = s /\ T2[T2[w].via].via = T2[w].via
  <2> HIDE DEF T2, t
  <2>1. CASE w = x
    <3>1. T2[T2[w].up].up # Nobody
      BY <1>1, <1>5, <2>1
    <3>2. CASE u = s
      BY <1>3, <1>5, <2>1, <3>1, <3>2 DEF t
    <3>3. CASE u # s
      <4>1. T2[t] = T[t] /\ t = T[u].via
        BY <1>3, <1>5, <3>3 DEF t
      <4> QED
        BY <1>1, <1>2, <1>3, <1>5, <2>1, <3>1, <3>3, <4>1 DEF IsChild
    <3> QED
      BY <3>2, <3>3
  <2>2. CASE w # x
    <3>1. T2[w] = T[w] /\ Placed(T, s, w)
      BY <1>5, <1>8, <2>2 DEF Placed
    <3>2. /\ T[w].up \in Server /\ T[w].via \in Server
          /\ T[T[w].up].up # Nobody
          /\ T[w].up = s => T[w].via = w
          /\ T[w].up # s => T[w].via = T[T[w].up].via
          /\ T[w].via # s /\ IsChild(T, s, T[w].via)
      BY <3>1, PlacedFacts
    <3>3. T[w].up # x /\ T[w].via # x
      BY <1>1, <3>2 DEF IsChild
    <3>4. T2[T[w].up] = T[T[w].up] /\ T2[T[w].via] = T[T[w].via]
      BY <1>5, <3>2, <3>3
    <3> QED
      BY <3>1, <3>2, <3>4 DEF IsChild
  <2> QED
    BY <2>1, <2>2
<1>9. ASSUME NEW X \in SUBSET Server, s \in X, Closed(Ups(T2), X)
      PROVE  \A w \in Server : T2[w].up # Nobody => w \in X
  <2> HIDE DEF T2, t
  <2>0. \A w \in Server : T2[w].up \in X => w \in X
    BY <1>9 DEF Closed, Ups
  <2> DEFINE Y == X \cup {x}
  <2>1. Y \in SUBSET Server /\ s \in Y
    BY <1>9
  <2>2. Closed(Ups(T), Y)
    <3> SUFFICES ASSUME NEW w \in Server, T[w].up \in Y, w # x PROVE w \in X
      BY DEF Closed, Ups
    <3>1. T[w].up # x
      <4>1. CASE w = s
        BY <1>1, <4>1 DEF Grown
      <4>2. CASE w # s
        <5>1. T[w].up # Nobody
          BY <1>1, <2>1
        <5>2. T[T[w].up].up # Nobody
          BY <4>2, <5>1, PlacedFacts DEF Placed
        <5> QED
          BY <5>2
      <4> QED
        BY <4>1, <4>2
    <3> QED
      BY <1>5, <2>0, <3>1
  <2> HIDE DEF Y
  <2>3. \A w \in Server : T[w].up # Nobody => w \in Y
    BY <2>1, <2>2 DEF Grown
  <2>4. u \in X
    BY <1>1, <2>3 DEF Y
  <2>5. x \in X
    BY <1>5, <2>0, <2>4
  <2> QED
    BY <1>5, <2>3, <2>5 DEF Y
<1>10. u # s => T[u].via # x
  BY <1>3
<1> HIDE DEF T2
<1>11. Grown(T2, s)
  BY <1>4, <1>6, <1>7, <1>8, <1>9, Zenon DEF Grown
<1> QED
  BY <1>1, <1>2, <1>5, <1>10, <1>11 DEF T2

-----------------------------------------------------------------------------
(* What changes of a tree are to the views of it.                          *)

LEMMA ViewsTyped ==
  ASSUME NEW T \in Trees, NEW s \in Server, NEW t \in Server
  PROVE  /\ Heard(T, t) \in View /\ Side(T, s, t) \in View /\ Only(s, t) \in View
         /\ \A w \in Server : Heard(T, t)[w] = IF T[w].via = t THEN T[w].up ELSE Nobody
         /\ \A w \in Server : Side(T, s, t)[w] = IF w = s THEN t
                                                 ELSE IF T[w].via = t THEN Nobody ELSE T[w].up
<1>1. \A w \in Server : T[w].up \in Server \cup {Nobody}
  BY DEF Trees, Entry
<1> QED
  BY <1>1 DEF Heard, Side, Only, View

(* There is one set of what is behind v.                                   *)
LEMMA OneBelow ==
  ASSUME NEW W, NEW v, NEW D, NEW D2, Descends(W, v, D), Descends(W, v, D2)
  PROVE  D = D2
BY DEF Descends

(* An NQUIT for what goes tells those it goes to what is left, and the     *)
(* server it came from knows that already.                                 *)
LEMMA PrunedViews ==
  ASSUME NEW T, NEW s \in Server, Grown(T, s), NEW v, Placed(T, s, v),
         NEW D, Descends(Ups(T), v, D), NEW u \in Server, u # s
  PROVE  /\ u # T[v].via => Heard(Pruned(T, D), u) = Heard(T, u)
         /\ u # T[v].via /\ IsChild(T, s, u)
              => Makes(Side(T, s, u), NQuit(v), Side(Pruned(T, D), s, u))
         /\ u = T[v].via => /\ Side(Pruned(T, D), s, u) = Side(T, s, u)
                            /\ Descends(Heard(T, u), v, D)
                            /\ Heard(Pruned(T, D), u) = Cleared(Heard(T, u), D)
<1> DEFINE T2 == Pruned(T, D)
           t  == T[v].via
<1>1. /\ D \in SUBSET Server /\ v \in D /\ T \in Trees /\ Nobody \notin Server
      /\ \A w \in Server : T[w].up \in D => w \in D
      /\ \A X \in SUBSET Server :
           v \in X /\ (\A w \in Server : T[w].up \in X => w \in X) => D \subseteq X
  BY ServerTreeAssumption DEF Descends, Closed, Ups, Grown, ServerTreeAssumption
<1>2. s \notin D /\ \A w \in D : T[w].via = t /\ Placed(T, s, w)
  BY BranchBelow DEF Placed
<1>3. \A w \in Server : /\ w \in D => T2[w].up = Nobody /\ T2[w].via = Nobody
                        /\ w \notin D => T2[w] = T[w]
  BY DEF Pruned, Unknown
<1>4. t \in Server /\ t # s /\ v \in Server /\ v # s /\ T[v].up # Nobody
  BY PlacedFacts DEF Placed
<1>5. \A w \in Server : T[w].up = Nobody <=> T[w].via = Nobody
  BY DEF Grown
<1>6. \A X \in SUBSET Server :
        /\ v \in X
        /\ \A w \in Server : T[w].up \in X /\ T[w].via = t /\ T[T[w].up].via = t => w \in X
        => D \subseteq X
  <2> SUFFICES ASSUME NEW X \in SUBSET Server, v \in X,
                      \A w \in Server :
                        T[w].up \in X /\ T[w].via = t /\ T[T[w].up].via = t => w \in X
               PROVE  D \subseteq X
    OBVIOUS
  <2> DEFINE Y == {w \in X : T[w].via = t}
  <2>1. ASSUME NEW w \in Server, T[w].up \in Y PROVE w \in Y
    <3>1. T[w].up \in Server /\ T[T[w].up].via = t /\ T[w].up \in X
      BY <2>1
    <3>2. T[w].up # s
      BY <1>4, <3>1 DEF Grown
    <3>3. w # s
      BY <3>2 DEF Grown
    <3>4. Placed(T, s, w)
      BY <1>1, <3>1, <3>3 DEF Placed
    <3>5. T[w].via = t
      BY <3>1, <3>2, <3>4, PlacedFacts
    <3> QED
      BY <3>1, <3>5
  <2>2. v \in Y /\ Y \in SUBSET Server
    BY <1>4
  <2> HIDE DEF Y
  <2>3. D \subseteq Y
    BY <1>1, <2>1, <2>2
  <2> QED
    BY <2>3 DEF Y
<1>7. T2 \in Trees
  BY PrunedGrown DEF Grown
<1> HIDE DEF T2, t
<1>8. /\ \A w \in Server : Heard(T, u)[w] = IF T[w].via = u THEN T[w].up ELSE Nobody
      /\ \A w \in Server : Heard(T2, u)[w] = IF T2[w].via = u THEN T2[w].up ELSE Nobody
      /\ \A w \in Server : Side(T, s, u)[w] = IF w = s THEN u
                                              ELSE IF T[w].via = u THEN Nobody ELSE T[w].up
      /\ \A w \in Server : Side(T2, s, u)[w] = IF w = s THEN u
                                               ELSE IF T2[w].via = u THEN Nobody ELSE T2[w].up
      /\ Heard(T, u) \in View /\ Heard(T2, u) \in View
      /\ Side(T, s, u) \in View /\ Side(T2, s, u) \in View
  BY <1>1, <1>7, ViewsTyped
<1>9. ASSUME u # t PROVE Heard(T2, u) = Heard(T, u)
  <2>1. \A w \in Server : Heard(T2, u)[w] = Heard(T, u)[w]
    BY <1>1, <1>2, <1>3, <1>8, <1>9
  <2> QED
    BY <1>8, <2>1 DEF View
<1>10. ASSUME u # t, IsChild(T, s, u)
       PROVE  Makes(Side(T, s, u), NQuit(v), Side(T2, s, u))
  <2> DEFINE W == Side(T, s, u)
  <2>1. W[v] # Nobody
    BY <1>4, <1>8, <1>10 DEF t
  <2>2. Closed(W, D)
    <3> SUFFICES ASSUME NEW w \in Server, W[w] \in D PROVE w \in D
      BY DEF Closed
    <3>1. u \notin D
      BY <1>2, <1>10 DEF IsChild
    <3> QED
      BY <1>1, <1>8, <3>1
  <2>3. ASSUME NEW X \in SUBSET Server, v \in X, Closed(W, X) PROVE D \subseteq X
    <3>1. ASSUME NEW w \in Server, T[w].up \in X, T[w].via = t, T[T[w].up].via = t
          PROVE  w \in X
      <4>1. w # s
        BY <1>4, <3>1 DEF Grown
      <4>2. W[w] = T[w].up
        BY <1>8, <1>10, <3>1, <4>1
      <4> QED
        BY <2>3, <3>1, <4>2 DEF Closed
    <3> QED
      BY <1>6, <2>3, <3>1
  <2>4. Descends(W, v, D)
    BY <1>1, <2>2, <2>3 DEF Descends
  <2>5. Side(T2, s, u) = Cleared(W, D)
    <3>1. \A w \in Server : Side(T2, s, u)[w] = IF w \in D THEN Nobody ELSE W[w]
      BY <1>1, <1>2, <1>3, <1>8
    <3> QED
      BY <1>8, <3>1 DEF View, Cleared
  <2> HIDE DEF W
  <2>6. NQuit(v).cmd = "NQUIT" /\ NQuit(v).name = v
    BY DEF NQuit
  <2>7. Makes(W, NQuit(v), Side(T2, s, u))
    BY <1>1, <2>1, <2>4, <2>5, <2>6 DEF Makes
  <2> QED
    BY <2>7 DEF W
<1>11. ASSUME u = t
       PROVE  /\ Side(T2, s, u) = Side(T, s, u)
              /\ Descends(Heard(T, u), v, D)
              /\ Heard(T2, u) = Cleared(Heard(T, u), D)
  <2> DEFINE W == Heard(T, u)
  <2>1. Side(T2, s, u) = Side(T, s, u)
    <3>1. \A w \in Server : Side(T2, s, u)[w] = Side(T, s, u)[w]
      BY <1>1, <1>2, <1>3, <1>8, <1>11
    <3> QED
      BY <1>8, <3>1 DEF View
  <2>2. Closed(W, D)
    BY <1>1, <1>8 DEF Closed
  <2>3. ASSUME NEW X \in SUBSET Server, v \in X, Closed(W, X) PROVE D \subseteq X
    <3>1. ASSUME NEW w \in Server, T[w].up \in X, T[w].via = t, T[T[w].up].via = t
          PROVE  w \in X
      <4>1. W[w] = T[w].up
        BY <1>8, <1>11, <3>1
      <4> QED
        BY <2>3, <3>1, <4>1 DEF Closed
    <3> QED
      BY <1>6, <2>3, <3>1
  <2>4. Descends(W, v, D)
    BY <1>1, <2>2, <2>3 DEF Descends
  <2>5. Heard(T2, u) = Cleared(W, D)
    <3>1. \A w \in Server : Heard(T2, u)[w] = IF w \in D THEN Nobody ELSE W[w]
      BY <1>1, <1>2, <1>3, <1>8
    <3> QED
      BY <1>8, <3>1 DEF View, Cleared
  <2> QED
    BY <2>1, <2>4, <2>5
<1> QED
  BY <1>9, <1>10, <1>11 DEF T2, t

(* The same for an NSERVER of what comes.                                  *)
LEMMA GraftedViews ==
  ASSUME NEW T, NEW s \in Server, Grown(T, s), NEW x \in Server, T[x].up = Nobody,
         NEW p \in Server, T[p].up # Nobody, NEW t, t = IF p = s THEN x ELSE T[p].via,
         NEW u \in Server, u # s
  PROVE  /\ u # t => /\ Heard(Grafted(T, s, x, p), u) = Heard(T, u)
                     /\ Makes(Side(T, s, u), NServer(p, x), Side(Grafted(T, s, x, p), s, u))
         /\ u = t => Side(Grafted(T, s, x, p), s, u) = Side(T, s, u)
         /\ u = t /\ p # s => Heard(Grafted(T, s, x, p), u) = [Heard(T, u) EXCEPT ![x] = p]
         /\ u = t /\ p = s => Heard(Grafted(T, s, x, p), u) = Only(u, s)
<1> DEFINE T2 == Grafted(T, s, x, p)
<1>1. /\ Grown(T2, s) /\ x # s /\ T2[x].up = p /\ T2[x].via = t
      /\ \A w \in Server \ {x} : T2[w] = T[w]
  BY GraftedGrown
<1>2. T \in Trees /\ T2 \in Trees /\ Nobody \notin Server /\ T[x].via = Nobody
  BY <1>1, ServerTreeAssumption DEF Grown, ServerTreeAssumption
<1>3. t \in Server /\ t # s
  BY <1>1, GraftedGrown
<1> HIDE DEF T2
<1>4. /\ \A w \in Server : Heard(T, u)[w] = IF T[w].via = u THEN T[w].up ELSE Nobody
      /\ \A w \in Server : Heard(T2, u)[w] = IF T2[w].via = u THEN T2[w].up ELSE Nobody
      /\ \A w \in Server : Side(T, s, u)[w] = IF w = s THEN u
                                              ELSE IF T[w].via = u THEN Nobody ELSE T[w].up
      /\ \A w \in Server : Side(T2, s, u)[w] = IF w = s THEN u
                                               ELSE IF T2[w].via = u THEN Nobody ELSE T2[w].up
      /\ Heard(T, u) \in View /\ Heard(T2, u) \in View
      /\ Side(T, s, u) \in View /\ Side(T2, s, u) \in View
      /\ Only(u, s) \in View
  BY <1>2, ViewsTyped
<1>5. ASSUME u # t PROVE Heard(T2, u) = Heard(T, u)
  <2>1. \A w \in Server : Heard(T2, u)[w] = Heard(T, u)[w]
    BY <1>1, <1>2, <1>4, <1>5
  <2> QED
    BY <1>4, <2>1 DEF View
<1>6. ASSUME u # t PROVE Makes(Side(T, s, u), NServer(p, x), Side(T2, s, u))
  <2> DEFINE W == Side(T, s, u)
             m == NServer(p, x)
  <2>1. m.cmd = "NSERVER" /\ m.up = p /\ m.name = x
    BY DEF NServer
  <2>2. W[x] = Nobody
    BY <1>1, <1>2, <1>4
  <2>3. W[p] # Nobody
    BY <1>2, <1>4, <1>6
  <2>4. Side(T2, s, u) = [W EXCEPT ![x] = p]
    <3>1. \A w \in Server : Side(T2, s, u)[w] = IF w = x THEN p ELSE W[w]
      BY <1>1, <1>4, <1>6
    <3> QED
      BY <1>4, <3>1 DEF View
  <2> HIDE DEF W, m
  <2>5. Makes(W, m, Side(T2, s, u))
    BY <2>1, <2>2, <2>3, <2>4 DEF Makes
  <2> QED
    BY <2>5 DEF W, m
<1>7. ASSUME u = t PROVE Side(T2, s, u) = Side(T, s, u)
  <2>1. \A w \in Server : Side(T2, s, u)[w] = Side(T, s, u)[w]
    BY <1>1, <1>2, <1>4, <1>7
  <2> QED
    BY <1>4, <2>1 DEF View
<1>8. ASSUME u = t, p # s PROVE Heard(T2, u) = [Heard(T, u) EXCEPT ![x] = p]
  <2>1. \A w \in Server : Heard(T2, u)[w] = IF w = x THEN p ELSE Heard(T, u)[w]
    BY <1>1, <1>4, <1>8
  <2> QED
    BY <1>4, <2>1 DEF View
<1>9. ASSUME u = t, p = s PROVE Heard(T2, u) = Only(u, s)
  <2>1. u = x
    BY <1>9
  <2>2. \A w \in Server : T[w].via # x
    <3> SUFFICES ASSUME NEW w \in Server, T[w].via = x PROVE FALSE
      OBVIOUS
    <3>1. Placed(T, s, w)
      BY <1>1, ViaFacts
    <3>2. IsChild(T, s, x)
      BY <3>1, PlacedFacts
    <3> QED
      BY <1>2, <3>2 DEF IsChild
  <2>3. \A w \in Server : Heard(T2, u)[w] = Only(u, s)[w]
    BY <1>1, <1>4, <1>9, <2>1, <2>2 DEF Only
  <2> QED
    BY <1>4, <2>3 DEF View
<1> QED
  BY <1>5, <1>6, <1>7, <1>8, <1>9 DEF T2

-----------------------------------------------------------------------------
(* What is on its way.                                                     *)

(* Nothing makes nothing of a view.                                        *)
LEMMA LeadsNowhere ==
  /\ \A A \in View : Leads(<<>>, A, A)
  /\ \A A, B : Leads(<<>>, A, B) => A = B
<1>1. ASSUME NEW A \in View PROVE Leads(<<>>, A, A)
  <2> DEFINE V == [i \in 0 .. 0 |-> A]
  <2>1. V \in [0 .. Len(<<>>) -> View] /\ V[0] = A /\ V[Len(<<>>)] = A
    OBVIOUS
  <2>2. Line(<<>>, V)
    BY DEF Line
  <2> HIDE DEF V
  <2> QED
    BY <2>1, <2>2 DEF Leads
<1>2. ASSUME NEW A, NEW B, Leads(<<>>, A, B) PROVE A = B
  BY <1>2 DEF Leads
<1> QED
  BY <1>1, <1>2

(* The first message of a line is read.                                    *)
LEMMA LeadsRead ==
  ASSUME NEW q \in Seq(TreeMessage), q # <<>>, NEW A, NEW B, Leads(q, A, B)
  PROVE  \E A2 \in View : Makes(A, Head(q), A2) /\ Leads(Tail(q), A2, B)
<1> DEFINE n == Len(q)
<1>1. PICK V \in [0 .. n -> View] : V[0] = A /\ V[n] = B /\ Line(q, V)
  BY DEF Leads
<1>2. n \in Nat \ {0} /\ Len(Tail(q)) = n - 1 /\ Head(q) = q[1]
  BY HeadTailProperties
<1>3. \A i \in 1 .. n - 1 : Tail(q)[i] = q[i + 1]
  BY <1>2
<1> DEFINE U == [i \in 0 .. n - 1 |-> V[i + 1]]
<1> HIDE DEF n
<1>4. U \in [0 .. Len(Tail(q)) -> View]
  BY <1>1, <1>2
<1>5. U[0] = V[1] /\ U[Len(Tail(q))] = B
  BY <1>1, <1>2
<1>6. Line(Tail(q), U)
  <2> SUFFICES ASSUME NEW i \in 1 .. n - 1 PROVE Makes(U[i - 1], Tail(q)[i], U[i])
    BY <1>2 DEF Line
  <2>1. i + 1 \in 1 .. Len(q) /\ (i + 1) - 1 = i
    BY <1>2 DEF n
  <2>2. Makes(V[i], q[i + 1], V[i + 1])
    BY <1>1, <2>1 DEF Line
  <2>3. U[i - 1] = V[i] /\ U[i] = V[i + 1]
    BY <1>2
  <2> QED
    BY <1>3, <2>2, <2>3
<1>7. Makes(V[0], q[1], V[1])
  <2>1. 1 \in 1 .. Len(q) /\ 1 - 1 = 0
    BY <1>2 DEF n
  <2> QED
    BY <1>1, <2>1 DEF Line
<1>8. V[1] \in View
  BY <1>1, <1>2
<1> HIDE DEF U
<1>9. Leads(Tail(q), V[1], B)
  BY <1>4, <1>5, <1>6 DEF Leads
<1> QED
  BY <1>1, <1>2, <1>7, <1>8, <1>9

(* A message is sent after those of a line.                                *)
LEMMA LeadsSend ==
  ASSUME NEW q \in Seq(TreeMessage), NEW A, NEW B, Leads(q, A, B),
         NEW m \in TreeMessage, NEW B2 \in View, Makes(B, m, B2)
  PROVE  Leads(q \o <<m>>, A, B2)
<1> DEFINE n == Len(q)
           r == q \o <<m>>
<1>1. PICK V \in [0 .. n -> View] : V[0] = A /\ V[n] = B /\ Line(q, V)
  BY DEF Leads
<1>2. n \in Nat /\ Len(r) = n + 1 /\ r[n + 1] = m /\ \A i \in 1 .. n : r[i] = q[i]
  OBVIOUS
<1> DEFINE U == [i \in 0 .. n + 1 |-> IF i = n + 1 THEN B2 ELSE V[i]]
<1> HIDE DEF n, r
<1>3. U \in [0 .. Len(r) -> View]
  <2>1. \A i \in 0 .. n + 1 : i # n + 1 => i \in 0 .. n
    BY <1>2
  <2> QED
    BY <1>1, <1>2, <2>1
<1>4. U[0] = A /\ U[Len(r)] = B2
  BY <1>1, <1>2
<1>5. Line(r, U)
  <2> SUFFICES ASSUME NEW i \in 1 .. n + 1 PROVE Makes(U[i - 1], r[i], U[i])
    BY <1>2 DEF Line
  <2>1. CASE i = n + 1
    <3>1. U[i - 1] = B /\ U[i] = B2 /\ r[i] = m
      BY <1>1, <1>2, <2>1
    <3> QED
      BY <3>1
  <2>2. CASE i # n + 1
    <3>1. i \in 1 .. n /\ i \in 1 .. Len(q)
      BY <1>2, <2>2 DEF n
    <3>2. U[i - 1] = V[i - 1] /\ U[i] = V[i] /\ r[i] = q[i]
      BY <1>2, <3>1
    <3>3. Makes(V[i - 1], q[i], V[i])
      BY <1>1, <3>1 DEF Line
    <3> QED
      BY <3>2, <3>3
  <2> QED
    BY <2>1, <2>2
<1> HIDE DEF U
<1>6. Leads(r, A, B2)
  BY <1>3, <1>4, <1>5 DEF Leads
<1> QED
  BY <1>6 DEF r

(* A sequence of all the servers of K has each of them once.               *)
LEMMA AllOnce ==
  ASSUME NEW K \in SUBSET Server, NEW q \in SetToSeqs(K)
  PROVE  /\ q \in Seq(K) /\ \A x \in K : \E i \in 1 .. Len(q) : q[i] = x
         /\ \A i, j \in 1 .. Len(q) : i # j => q[i] # q[j]
<1> DEFINE n == Cardinality(K)
<1>1. IsFiniteSet(K) /\ n \in Nat
  BY FS_Subset, FS_CardinalityType, ServerTreeAssumption DEF ServerTreeAssumption
<1>2. q \in [1 .. n -> K] /\ \A i, j \in 1 .. n : i # j => q[i] # q[j]
  BY DEF SetToSeqs
<1> HIDE DEF n
<1>3. q \in Seq(K) /\ Len(q) = n
  BY <1>1, <1>2
<1>4. q \in Injection(1 .. n, K)
  BY <1>2 DEF Injection, IsInjective
<1>5. IsFiniteSet(1 .. n) /\ Cardinality(1 .. n) = n
  <2>1. 1 \in Int /\ n \in Int
    BY <1>1
  <2>2. Cardinality(1 .. n) = IF 1 > n THEN 0 ELSE n - 1 + 1
    BY <2>1, FS_Interval, Zenon
  <2>3. IsFiniteSet(1 .. n)
    BY <2>1, FS_Interval, Zenon
  <2> QED
    BY <1>1, <2>2, <2>3
<1>6. q \in Surjection(1 .. n, K)
  BY <1>1, <1>4, <1>5, FS_Injection DEF n
<1>7. \A x \in K : \E i \in 1 .. n : q[i] = x
  BY <1>6 DEF Surjection
<1> QED
  BY <1>2, <1>3, <1>7

(* The burst makes, of nothing but s, all that s does not know over t.     *)
LEMMA BurstLeads ==
  ASSUME NEW T, NEW s \in Server, Grown(T, s), NEW t \in Server, t # s,
         T[t].up = Nobody, NEW q \in Bursts(T, s, t)
  PROVE  /\ Introduced(T, q) \in Seq(TreeMessage)
         /\ Leads(Introduced(T, q), Only(s, t), Side(Grafted(T, s, t, s), s, t))
<1> DEFINE K == Known(T) \ {s, t}
           n == Len(q)
           Q == Introduced(T, q)
           Sofar(i) == {q[j] : j \in 1 .. i}
           V == [i \in 0 .. n |-> [w \in Server |-> IF w = s THEN t
                                     ELSE IF w \in Sofar(i) THEN T[w].up ELSE Nobody]]
<1>1. T \in Trees /\ Nobody \notin Server /\ T[t].via = Nobody
  BY ServerTreeAssumption DEF Grown, ServerTreeAssumption
<1>2. \A w \in Server : T[w].up # Nobody <=> w \in Known(T)
  BY UnknownIs DEF Known
<1>3. K \in SUBSET Server /\ q \in SetToSeqs(K)
  BY DEF Bursts, Known
<1>4. \A i \in DOMAIN q : T[q[i]].up = s \/ \E j \in 1 .. i - 1 : q[j] = T[q[i]].up
  BY DEF Bursts
<1>5. /\ q \in Seq(K) /\ \A x \in K : \E i \in 1 .. Len(q) : q[i] = x
      /\ \A i, j \in 1 .. Len(q) : i # j => q[i] # q[j]
  BY <1>3, AllOnce
<1>6. n \in Nat /\ DOMAIN q = 1 .. n /\ \A i \in 1 .. n : q[i] \in K
  BY <1>5
<1>7. \A i \in 1 .. n : T[q[i]].up \in Server /\ q[i] \in Server /\ q[i] # s
  BY <1>1, <1>2, <1>6 DEF Trees, Entry, Known
<1>8. Q = [i \in 1 .. n |-> NServer(T[q[i]].up, q[i])]
  BY <1>6 DEF Introduced
<1>9. Q \in Seq(TreeMessage) /\ Len(Q) = n
  <2>1. \A i \in 1 .. n : NServer(T[q[i]].up, q[i]) \in TreeMessage
    BY <1>7 DEF NServer, TreeMessage
  <2> QED
    BY <1>6, <1>8, <2>1
<1>10. V \in [0 .. n -> View]
  BY <1>1 DEF View, Trees, Entry
<1>11. V[0] = Only(s, t)
  <2>1. 0 \in 0 .. n /\ Sofar(0) = {}
    BY <1>6
  <2> QED
    BY <2>1 DEF Only
<1>12. V[n] = Side(Grafted(T, s, t, s), s, t)
  <2> DEFINE T2 == Grafted(T, s, t, s)
  <2>1. Sofar(n) = K
    BY <1>5, <1>6
  <2>2. /\ T2[t].via = t /\ T2 \in Trees
        /\ \A w \in Server \ {t} : T2[w] = T[w]
    <3>1. T[s].up # Nobody
      BY <1>1 DEF Grown
    <3> QED
      BY <3>1, GraftedGrown DEF Grown
  <2>3. \A w \in Server : T[w].via # t
    <3> SUFFICES ASSUME NEW w \in Server, T[w].via = t PROVE FALSE
      OBVIOUS
    <3>1. Placed(T, s, w)
      BY ViaFacts
    <3>2. IsChild(T, s, t)
      BY <3>1, PlacedFacts
    <3> QED
      BY <1>1, <3>2 DEF IsChild
  <2> HIDE DEF T2
  <2>4. \A w \in Server : Side(T2, s, t)[w] = IF w = s THEN t
                                              ELSE IF T2[w].via = t THEN Nobody ELSE T2[w].up
    BY <2>2, ViewsTyped
  <2>5. \A w \in Server : V[n][w] = IF w = s THEN t ELSE IF w \in K THEN T[w].up ELSE Nobody
    BY <1>6, <2>1
  <2> HIDE DEF V
  <2>6. \A w \in Server : V[n][w] = Side(T2, s, t)[w]
    BY <1>2, <2>2, <2>3, <2>4, <2>5
  <2>7. Side(T2, s, t) \in View /\ V[n] \in View
    <3>1. n \in 0 .. n
      BY <1>6
    <3>2. Side(T2, s, t) \in View
      BY <2>2, ViewsTyped
    <3> QED
      BY <1>10, <3>1, <3>2
  <2>8. V[n] = Side(T2, s, t)
    BY <2>6, <2>7 DEF View
  <2> QED
    BY <2>8 DEF T2
<1>13. Line(Q, V)
  <2> SUFFICES ASSUME NEW i \in 1 .. n PROVE Makes(V[i - 1], Q[i], V[i])
    BY <1>9 DEF Line
  <2> DEFINE x == q[i]
             p == T[q[i]].up
  <2>1. i \in 0 .. n /\ i - 1 \in 0 .. n
    BY <1>6
  <2>2. Q[i].cmd = "NSERVER" /\ Q[i].up = p /\ Q[i].name = x
    BY <1>8 DEF NServer
  <2>3. x \in Server /\ x # s /\ p \in Server
    BY <1>7
  <2>4. /\ \A w \in Server : V[i][w] = IF w = s THEN t
                                       ELSE IF w \in Sofar(i) THEN T[w].up ELSE Nobody
        /\ \A w \in Server : V[i - 1][w] = IF w = s THEN t
                                           ELSE IF w \in Sofar(i - 1) THEN T[w].up ELSE Nobody
    BY <2>1
  <2>5. Sofar(i) = Sofar(i - 1) \cup {x}
    <3>1. 1 .. i = (1 .. i - 1) \cup {i}
      BY <2>1
    <3> QED
      BY <3>1
  <2>6. x \notin Sofar(i - 1)
    <3>1. \A j \in 1 .. i - 1 : j \in 1 .. Len(q) /\ j # i
      BY <2>1
    <3> QED
      BY <1>5, <3>1
  <2>7. p = s \/ p \in Sofar(i - 1)
    BY <1>4, <1>6
  <2>8. \A w \in Sofar(i - 1) : T[w].up # Nobody
    <3>1. \A j \in 1 .. i - 1 : j \in 1 .. n
      BY <2>1
    <3> QED
      BY <1>1, <1>7, <3>1
  <2>9. V[i - 1] \in View /\ V[i] \in View
    BY <1>10, <2>1
  <2> HIDE DEF V, Sofar, x, p, Q
  <2>10. V[i - 1][x] = Nobody /\ V[i - 1][p] # Nobody
    BY <1>1, <2>3, <2>4, <2>6, <2>7, <2>8
  <2>11. V[i] = [V[i - 1] EXCEPT ![x] = p]
    <3>1. \A w \in Server : V[i][w] = IF w = x THEN p ELSE V[i - 1][w]
      BY <2>3, <2>4, <2>5 DEF x, p
    <3> QED
      BY <2>9, <3>1 DEF View
  <2> QED
    BY <2>2, <2>3, <2>10, <2>11 DEF Makes
<1> HIDE DEF V, Q
<1>14. Leads(Q, Only(s, t), Side(Grafted(T, s, t, s), s, t))
  BY <1>9, <1>10, <1>11, <1>12, <1>13 DEF Leads
<1> QED
  BY <1>9, <1>14 DEF Q

-----------------------------------------------------------------------------
(* Links.                                                                  *)

LEMMA LinkFacts ==
  /\ \A l \in Link : /\ l[1] \in Server /\ l[2] \in Server /\ l[1] # l[2]
                     /\ l = <<l[1], l[2]>> /\ Rev(l) = <<l[2], l[1]>> /\ Rev(l) \in Link
                     /\ Rev(Rev(l)) = l
  /\ \A s, t : <<s, t>> \in Link => /\ s \in Server /\ t \in Server /\ s # t
                                    /\ <<t, s>> \in Link
                                    /\ Rev(<<s, t>>) = <<t, s>> /\ Rev(<<t, s>>) = <<s, t>>
BY ServerTreeAssumption DEF ServerTreeAssumption, Rev

(* A link of which neither end nor what is known there or on its way has   *)
(* changed is what it was.                                                 *)
LEMMA LinkStays ==
  ASSUME NEW l \in Link, NEW E, NEW N, NEW R, NEW E2, NEW N2, NEW R2, LinkOK(l, E, N, R),
         E2[l] = E[l], E2[Rev(l)] = E[Rev(l)], N2[l] = N[l],
         R2[l[1]] = R[l[1]], R2[l[2]] = R[l[2]]
  PROVE  LinkOK(l, E2, N2, R2)
<1>1. Base(l, E2, R2) = Base(l, E, R)
  BY DEF Base
<1>2. \A B : Reaches(l, E2, R2, B) <=> Reaches(l, E, R, B)
  BY DEF Reaches
<1> QED
  BY <1>1, <1>2 DEF LinkOK

\* s says m to all but t, and what it knows changes by m over each link but
\* that to t.
Speaks(s, t, m, E, N, R, E2, N2, R2) ==
  /\ \A x \in Server \ {s} : R2[x] = R[x]
  /\ \A l \in Link : l # <<s, t>> /\ l # <<t, s>> =>
       /\ E2[l] = E[l]
       /\ N2[l] = IF Sent(E, s, t, l) THEN N[l] \o <<m>> ELSE N[l]
  /\ \A u \in Server : u # s /\ u # t =>
       /\ Heard(R2[s], u) = Heard(R[s], u)
       /\ IsChild(R[s], s, u) => Makes(Side(R[s], s, u), m, Side(R2[s], s, u))

(* A server that speaks keeps the links it speaks over in order, and those *)
(* of the others.                                                          *)
LEMMA OtherLinks ==
  ASSUME NEW s \in Server, NEW t \in Server, NEW m \in TreeMessage,
         NEW E, NEW N, NEW R, NEW E2, NEW N2, NEW R2, Trued(E, N, R),
         Speaks(s, t, m, E, N, R, E2, N2, R2), R2[s] \in Trees,
         NEW l \in Link, l # <<s, t>>, l # <<t, s>>
  PROVE  LinkOK(l, E2, N2, R2)
<1>1. /\ l[1] \in Server /\ l[2] \in Server /\ l[1] # l[2]
      /\ l = <<l[1], l[2]>> /\ Rev(l) = <<l[2], l[1]>> /\ Rev(l) \in Link
  BY LinkFacts
<1>2. Rev(l) # <<s, t>> /\ Rev(l) # <<t, s>>
  BY <1>1
<1>3. E2[l] = E[l] /\ E2[Rev(l)] = E[Rev(l)]
  BY <1>1, <1>2 DEF Speaks
<1>4. N2[l] = IF Sent(E, s, t, l) THEN N[l] \o <<m>> ELSE N[l]
  BY DEF Speaks
<1>5. LinkOK(l, E, N, R) /\ N[l] \in Seq(TreeMessage) /\ (E[l] = "up" <=> IsChild(R[l[1]], l[1], l[2]))
  BY DEF Trued, Typed
<1>6. \A x \in Server : x # s => R2[x] = R[x]
  BY DEF Speaks
<1>7. CASE l[1] = s
  <2>1. l[2] # s /\ l[2] # t
    BY <1>1, <1>7
  <2>2. R2[l[2]] = R[l[2]]
    BY <1>1, <1>6, <2>1
  <2>3. Base(l, E2, R2) = Base(l, E, R)
    BY <1>3, <2>2 DEF Base
  <2>4. E2[l] = "open" => N2[l] = <<>>
    BY <1>3, <1>4, <1>5 DEF LinkOK, Sent
  <2>5. ASSUME E2[Rev(l)] # "down"
        PROVE  \E B \in View : Leads(N2[l], Base(l, E2, R2), B) /\ Reaches(l, E2, R2, B)
    <3>1. PICK B \in View : Leads(N[l], Base(l, E, R), B) /\ Reaches(l, E, R, B)
      BY <1>3, <1>5, <2>5 DEF LinkOK
    <3>2. CASE E[l] = "up"
      <4>1. N2[l] = N[l] \o <<m>>
        BY <1>1, <1>3, <1>4, <1>7, <2>1, <2>5, <3>2 DEF Sent
      <4>2. B = Side(R[s], s, l[2])
        BY <1>7, <3>1, <3>2 DEF Reaches
      <4> DEFINE B2 == Side(R2[s], s, l[2])
      <4>3. Makes(B, m, B2)
        BY <1>1, <1>5, <1>7, <2>1, <3>2, <4>2 DEF Speaks
      <4>4. B2 \in View
        BY <1>1, ViewsTyped
      <4>5. Reaches(l, E2, R2, B2)
        BY <1>3, <1>7, <3>2 DEF Reaches
      <4> HIDE DEF B2
      <4>6. Leads(N[l] \o <<m>>, Base(l, E, R), B2)
        BY <1>5, <3>1, <4>3, <4>4, LeadsSend
      <4> QED
        BY <2>3, <4>1, <4>4, <4>5, <4>6
    <3>3. CASE E[l] # "up"
      <4>1. N2[l] = N[l]
        BY <1>4, <3>3 DEF Sent
      <4>2. Reaches(l, E2, R2, B)
        BY <1>3, <3>1, <3>3 DEF Reaches
      <4> QED
        BY <2>3, <3>1, <4>1, <4>2
    <3> QED
      BY <3>2, <3>3
  <2> QED
    BY <2>4, <2>5 DEF LinkOK
<1>8. CASE l[1] # s
  <2>1. N2[l] = N[l] /\ R2[l[1]] = R[l[1]]
    BY <1>1, <1>4, <1>6, <1>8 DEF Sent
  <2>2. CASE l[2] # s
    <3>1. R2[l[2]] = R[l[2]]
      BY <1>1, <1>6, <2>2
    <3> QED
      BY <1>3, <1>5, <2>1, <3>1, LinkStays
  <2>3. CASE l[2] = s
    <3>1. Heard(R2[s], l[1]) = Heard(R[s], l[1])
      BY <1>1, <1>8, <2>3 DEF Speaks
    <3>2. Base(l, E2, R2) = Base(l, E, R)
      BY <1>3, <2>3, <3>1 DEF Base
    <3>3. \A B : Reaches(l, E2, R2, B) <=> Reaches(l, E, R, B)
      BY <1>3, <2>1 DEF Reaches
    <3> QED
      BY <1>3, <1>5, <2>1, <3>2, <3>3 DEF LinkOK
  <2> QED
    BY <2>2, <2>3
<1> QED
  BY <1>7, <1>8

(* What is read makes something of what is known.                          *)
LEMMA HeadMakes ==
  ASSUME NEW s, NEW t, <<s, t>> \in Link, NEW E, NEW N, NEW R, Trued(E, N, R),
         E[<<s, t>>] = "up", N[<<t, s>>] # <<>>
  PROVE  /\ Head(N[<<t, s>>]) \in TreeMessage
         /\ \E A2 \in View : Makes(Heard(R[s], t), Head(N[<<t, s>>]), A2)
<1> DEFINE l == <<t, s>>
<1>1. l \in Link /\ Rev(l) = <<s, t>>
  BY LinkFacts
<1>2. N[l] \in Seq(TreeMessage) /\ LinkOK(l, E, N, R)
  BY <1>1 DEF Trued, Typed
<1>3. Base(l, E, R) = Heard(R[s], t)
  BY <1>1 DEF Base
<1>4. PICK B \in View : Leads(N[l], Heard(R[s], t), B)
  BY <1>1, <1>2, <1>3 DEF LinkOK
<1> HIDE DEF l
<1>5. N[l] # <<>>
  BY DEF l
<1>6. \E A2 \in View : Makes(Heard(R[s], t), Head(N[l]), A2)
  BY <1>2, <1>4, <1>5, LeadsRead
<1>7. Head(N[l]) \in TreeMessage
  BY <1>2, <1>5
<1> QED
  BY <1>6, <1>7 DEF l

\* What s knows over t has changed by the message it read.
Took(s, t, N, R, R2) ==
  \A A2 \in View : Makes(Heard(R[s], t), Head(N[<<t, s>>]), A2) => A2 = Heard(R2[s], t)

(* A message is read and passed on.                                        *)
LEMMA ReadTrue ==
  ASSUME NEW s, NEW t, <<s, t>> \in Link, NEW m \in TreeMessage,
         NEW E, NEW N, NEW R, NEW N2, NEW R2, Trued(E, N, R),
         E[<<s, t>>] = "up", N[<<t, s>>] # <<>>,
         Speaks(s, t, m, E, N, R, E, N2, R2), Took(s, t, N, R, R2),
         Typed(E, N2, R2),
         N2[<<t, s>>] = Tail(N[<<t, s>>]), N2[<<s, t>>] = N[<<s, t>>],
         Grown(R2[s], s),
         Side(R2[s], s, t) = Side(R[s], s, t),
         \A u \in Server : <<s, u>> \in Link => (IsChild(R2[s], s, u) <=> IsChild(R[s], s, u))
  PROVE  Trued(E, N2, R2)
<1>1. /\ s \in Server /\ t \in Server /\ s # t /\ <<t, s>> \in Link
      /\ Rev(<<s, t>>) = <<t, s>> /\ Rev(<<t, s>>) = <<s, t>>
  BY LinkFacts
<1>2. \A x \in Server : x # s => R2[x] = R[x]
  BY DEF Speaks
<1>3. LinkOK(<<s, t>>, E, N2, R2)
  <2> DEFINE l == <<s, t>>
  <2>1. LinkOK(l, E, N, R) /\ l[1] = s /\ l[2] = t /\ N2[l] = N[l] /\ R2[t] = R[t]
    BY <1>1, <1>2 DEF Trued, Typed
  <2>2. Base(l, E, R2) = Base(l, E, R)
    BY <2>1 DEF Base
  <2>3. \A B : Reaches(l, E, R2, B) <=> Reaches(l, E, R, B)
    BY <2>1 DEF Reaches
  <2> HIDE DEF l
  <2>4. LinkOK(l, E, N2, R2)
    BY <2>1, <2>2, <2>3 DEF LinkOK
  <2> QED
    BY <2>4 DEF l
<1>4. LinkOK(<<t, s>>, E, N2, R2)
  <2> DEFINE l == <<t, s>>
  <2>1. /\ LinkOK(l, E, N, R) /\ l[1] = t /\ l[2] = s /\ R2[t] = R[t] /\ N[l] # <<>>
        /\ N2[l] = Tail(N[l]) /\ E[Rev(l)] = "up" /\ N[l] \in Seq(TreeMessage)
    BY <1>1, <1>2 DEF Trued, Typed
  <2>2. Base(l, E, R) = Heard(R[s], t) /\ Base(l, E, R2) = Heard(R2[s], t)
    BY <2>1 DEF Base
  <2>3. \A B : Reaches(l, E, R2, B) <=> Reaches(l, E, R, B)
    BY <2>1 DEF Reaches
  <2>4. \A A2 \in View : Makes(Heard(R[s], t), Head(N[l]), A2) => A2 = Heard(R2[s], t)
    BY DEF Took
  <2> HIDE DEF l
  <2>5. PICK B \in View : Leads(N[l], Heard(R[s], t), B) /\ Reaches(l, E, R, B)
    BY <2>1, <2>2 DEF LinkOK
  <2>6. PICK A2 \in View : Makes(Heard(R[s], t), Head(N[l]), A2) /\ Leads(Tail(N[l]), A2, B)
    BY <2>1, <2>5, LeadsRead
  <2>7. Leads(N2[l], Base(l, E, R2), B) /\ Reaches(l, E, R2, B)
    BY <2>1, <2>2, <2>3, <2>4, <2>5, <2>6
  <2>8. E[l] # "open"
    BY <2>1 DEF LinkOK
  <2>9. LinkOK(l, E, N2, R2)
    BY <2>7, <2>8 DEF LinkOK
  <2> QED
    BY <2>9 DEF l
<1>5. R2[s] \in Trees
  BY <1>1 DEF Typed
<1>6. \A l \in Link : LinkOK(l, E, N2, R2)
  <2> SUFFICES ASSUME NEW l \in Link, l # <<s, t>>, l # <<t, s>> PROVE LinkOK(l, E, N2, R2)
    BY <1>3, <1>4
  <2> QED
    BY <1>1, <1>5, OtherLinks
<1>7. ASSUME NEW l \in Link PROVE E[l] = "up" <=> IsChild(R2[l[1]], l[1], l[2])
  <2>1. E[l] = "up" <=> IsChild(R[l[1]], l[1], l[2])
    BY DEF Trued, Typed
  <2>2. l[1] \in Server /\ l[2] \in Server /\ l = <<l[1], l[2]>>
    BY LinkFacts
  <2> QED
    BY <1>2, <2>1, <2>2
<1>8. ASSUME NEW x \in Server PROVE Grown(R2[x], x)
  BY <1>2 DEF Trued, Typed
<1> QED
  BY <1>6, <1>7, <1>8 DEF Trued, Typed

(* A link is given up, and with it all that was known over it.             *)
LEMMA LeaveTrue ==
  ASSUME NEW s, NEW t, <<s, t>> \in Link, NEW m \in TreeMessage,
         NEW E, NEW N, NEW R, NEW E2, NEW N2, NEW R2, Trued(E, N, R),
         Speaks(s, t, m, E, N, R, E2, N2, R2),
         Typed(E2, N2, R2), E2[<<s, t>>] = "down", E2[<<t, s>>] = E[<<t, s>>],
         N2[<<t, s>>] = <<>>, N2[<<s, t>>] = N[<<s, t>>],
         Grown(R2[s], s),
         \A u \in Server : <<s, u>> \in Link =>
           (IsChild(R2[s], s, u) <=> IsChild(R[s], s, u) /\ u # t)
  PROVE  Trued(E2, N2, R2)
<1>1. /\ s \in Server /\ t \in Server /\ s # t /\ <<t, s>> \in Link
      /\ Rev(<<s, t>>) = <<t, s>> /\ Rev(<<t, s>>) = <<s, t>>
  BY LinkFacts
<1>2. \A x \in Server : x # s => R2[x] = R[x]
  BY DEF Speaks
<1>3. LinkOK(<<s, t>>, E2, N2, R2)
  <2> DEFINE l == <<s, t>>
  <2>1. /\ LinkOK(l, E, N, R) /\ l[2] = t /\ N2[l] = N[l] /\ R2[t] = R[t]
        /\ E2[l] = "down" /\ E2[Rev(l)] = E[Rev(l)]
    BY <1>1, <1>2 DEF Trued, Typed
  <2>2. Base(l, E2, R2) = Base(l, E, R)
    BY <2>1 DEF Base
  <2>3. \A B : Reaches(l, E2, R2, B)
    BY <2>1 DEF Reaches
  <2> HIDE DEF l
  <2>4. LinkOK(l, E2, N2, R2)
    BY <2>1, <2>2, <2>3 DEF LinkOK
  <2> QED
    BY <2>4 DEF l
<1>4. LinkOK(<<t, s>>, E2, N2, R2)
  BY <1>1 DEF LinkOK
<1>5. R2[s] \in Trees
  BY <1>1 DEF Typed
<1>6. \A l \in Link : LinkOK(l, E2, N2, R2)
  <2> SUFFICES ASSUME NEW l \in Link, l # <<s, t>>, l # <<t, s>> PROVE LinkOK(l, E2, N2, R2)
    BY <1>3, <1>4
  <2> QED
    BY <1>1, <1>5, OtherLinks
<1>7. ASSUME NEW l \in Link PROVE E2[l] = "up" <=> IsChild(R2[l[1]], l[1], l[2])
  <2>1. E[l] = "up" <=> IsChild(R[l[1]], l[1], l[2])
    BY DEF Trued, Typed
  <2>2. l[1] \in Server /\ l[2] \in Server /\ l = <<l[1], l[2]>>
    BY LinkFacts
  <2>3. CASE l = <<s, t>>
    BY <1>1, <2>3
  <2>4. CASE l = <<t, s>>
    BY <1>1, <1>2, <2>1, <2>4
  <2>5. CASE l # <<s, t>> /\ l # <<t, s>>
    <3>1. E2[l] = E[l] /\ (l[1] = s => l[2] # t)
      BY <2>2, <2>5 DEF Speaks
    <3> QED
      BY <1>2, <2>1, <2>2, <3>1
  <2> QED
    BY <2>3, <2>4, <2>5
<1>8. ASSUME NEW x \in Server PROVE Grown(R2[x], x)
  BY <1>2 DEF Trued, Typed
<1> QED
  BY <1>6, <1>7, <1>8 DEF Trued, Typed

(* The end of a link goes up: what was a handshake is a server, known to   *)
(* all but the peer, who gets the burst.                                   *)
LEMMA JoinTrue ==
  ASSUME NEW s, NEW t, <<s, t>> \in Link, NEW m \in TreeMessage,
         NEW E, NEW N, NEW R, NEW E2, NEW N2, NEW R2, Trued(E, N, R),
         Speaks(s, t, m, E, N, R, E2, N2, R2),
         Typed(E2, N2, R2), E[<<s, t>>] = "open", E2[<<s, t>>] = "up", E2[<<t, s>>] = E[<<t, s>>],
         N2[<<t, s>>] = N[<<t, s>>],
         Grown(R2[s], s), Heard(R2[s], t) = Only(t, s),
         E[<<t, s>>] # "down" => Leads(N2[<<s, t>>], Only(s, t), Side(R2[s], s, t)),
         \A u \in Server : <<s, u>> \in Link =>
           (IsChild(R2[s], s, u) <=> IsChild(R[s], s, u) \/ u = t)
  PROVE  Trued(E2, N2, R2)
<1>1. /\ s \in Server /\ t \in Server /\ s # t /\ <<t, s>> \in Link
      /\ Rev(<<s, t>>) = <<t, s>> /\ Rev(<<t, s>>) = <<s, t>>
  BY LinkFacts
<1>2. \A x \in Server : x # s => R2[x] = R[x]
  BY DEF Speaks
<1>3. LinkOK(<<s, t>>, E2, N2, R2)
  <2> DEFINE l == <<s, t>>
  <2>1. /\ LinkOK(l, E, N, R) /\ l[1] = s /\ l[2] = t /\ R2[t] = R[t] /\ N[l] = <<>>
        /\ E[l] = "open" /\ E2[l] = "up" /\ E2[Rev(l)] = E[Rev(l)]
        /\ N[l] \in Seq(TreeMessage)
    BY <1>1, <1>2 DEF Trued, Typed, LinkOK
  <2>2. Base(l, E2, R2) = Base(l, E, R)
    BY <2>1 DEF Base
  <2>3. ASSUME E2[Rev(l)] # "down"
        PROVE  \E B \in View : Leads(N2[l], Base(l, E2, R2), B) /\ Reaches(l, E2, R2, B)
    <3>1. PICK B \in View : Leads(N[l], Base(l, E, R), B) /\ Reaches(l, E, R, B)
      BY <2>1, <2>3 DEF LinkOK
    <3>2. B = Only(s, t)
      BY <2>1, <3>1 DEF Reaches
    <3>3. Base(l, E, R) = Only(s, t)
      BY <2>1, <3>1, <3>2, LeadsNowhere
    <3>4. Leads(N2[l], Only(s, t), Side(R2[s], s, t))
      BY <1>1, <2>1, <2>3
    <3>5. Side(R2[s], s, t) \in View
      BY <1>1, ViewsTyped DEF Typed
    <3>6. Reaches(l, E2, R2, Side(R2[s], s, t))
      BY <2>1 DEF Reaches
    <3> HIDE DEF l
    <3> QED
      BY <2>2, <3>3, <3>4, <3>5, <3>6
  <2> HIDE DEF l
  <2>4. LinkOK(l, E2, N2, R2)
    BY <2>1, <2>3 DEF LinkOK
  <2> QED
    BY <2>4 DEF l
<1>4. LinkOK(<<t, s>>, E2, N2, R2)
  <2> DEFINE l == <<t, s>>
  <2>1. /\ LinkOK(l, E, N, R) /\ l[1] = t /\ l[2] = s /\ R2[t] = R[t] /\ N2[l] = N[l]
        /\ E2[l] = E[l] /\ E[Rev(l)] = "open" /\ E2[Rev(l)] = "up"
    BY <1>1, <1>2 DEF Trued, Typed
  <2>2. Base(l, E2, R2) = Base(l, E, R)
    BY <2>1 DEF Base
  <2>3. \A B : Reaches(l, E2, R2, B) <=> Reaches(l, E, R, B)
    BY <2>1 DEF Reaches
  <2> HIDE DEF l
  <2>4. LinkOK(l, E2, N2, R2)
    BY <2>1, <2>2, <2>3 DEF LinkOK
  <2> QED
    BY <2>4 DEF l
<1>5. R2[s] \in Trees
  BY <1>1 DEF Typed
<1>6. \A l \in Link : LinkOK(l, E2, N2, R2)
  <2> SUFFICES ASSUME NEW l \in Link, l # <<s, t>>, l # <<t, s>> PROVE LinkOK(l, E2, N2, R2)
    BY <1>3, <1>4
  <2> QED
    BY <1>1, <1>5, OtherLinks
<1>7. ASSUME NEW l \in Link PROVE E2[l] = "up" <=> IsChild(R2[l[1]], l[1], l[2])
  <2>1. E[l] = "up" <=> IsChild(R[l[1]], l[1], l[2])
    BY DEF Trued, Typed
  <2>2. l[1] \in Server /\ l[2] \in Server /\ l = <<l[1], l[2]>>
    BY LinkFacts
  <2>3. CASE l = <<s, t>>
    BY <1>1, <2>3
  <2>4. CASE l = <<t, s>>
    BY <1>1, <1>2, <2>1, <2>4
  <2>5. CASE l # <<s, t>> /\ l # <<t, s>>
    <3>1. E2[l] = E[l] /\ (l[1] = s => l[2] # t)
      BY <2>2, <2>5 DEF Speaks
    <3> QED
      BY <1>2, <2>1, <2>2, <3>1
  <2> QED
    BY <2>3, <2>4, <2>5
<1>8. ASSUME NEW x \in Server PROVE Grown(R2[x], x)
  BY <1>2 DEF Trued, Typed
<1> QED
  BY <1>6, <1>7, <1>8 DEF Trued, Typed

(* A handshake comes to nothing.                                           *)
LEMMA GiveUpTrue ==
  ASSUME NEW s, NEW t, <<s, t>> \in Link,
         NEW E, NEW N, NEW R, Trued(E, N, R), E[<<s, t>>] = "open"
  PROVE  Trued([E EXCEPT ![<<s, t>>] = "down"], [N EXCEPT ![<<t, s>>] = <<>>], R)
<1> DEFINE E2 == [E EXCEPT ![<<s, t>>] = "down"]
           N2 == [N EXCEPT ![<<t, s>>] = <<>>]
<1>1. /\ s \in Server /\ t \in Server /\ s # t /\ <<t, s>> \in Link
      /\ Rev(<<s, t>>) = <<t, s>> /\ Rev(<<t, s>>) = <<s, t>>
  BY LinkFacts
<1>2. /\ E \in [Link -> {"down", "open", "up"}] /\ N \in [Link -> Seq(TreeMessage)]
      /\ \A l \in Link : LinkOK(l, E, N, R) /\ (E[l] = "up" <=> IsChild(R[l[1]], l[1], l[2]))
  BY DEF Trued, Typed
<1>3. /\ \A l \in Link : E2[l] = IF l = <<s, t>> THEN "down" ELSE E[l]
      /\ \A l \in Link : N2[l] = IF l = <<t, s>> THEN <<>> ELSE N[l]
      /\ E2 \in [Link -> {"down", "open", "up"}]
  BY <1>2
<1>4. N2 \in [Link -> Seq(TreeMessage)]
  <2>1. <<>> \in Seq(TreeMessage)
    OBVIOUS
  <2> QED
    BY <1>2, <2>1
<1> HIDE DEF E2, N2
<1>5. ASSUME NEW l \in Link PROVE LinkOK(l, E2, N2, R)
  <2>1. LinkOK(l, E, N, R) /\ Rev(l) \in Link /\ l[1] # l[2] /\ Rev(Rev(l)) = l
    BY <1>2, LinkFacts
  <2>2. CASE l = <<t, s>>
    <3>1. E2[Rev(l)] = "down" /\ N2[l] = <<>>
      BY <1>1, <1>3, <2>2
    <3> QED
      BY <3>1 DEF LinkOK
  <2>3. CASE l = <<s, t>>
    <3>1. /\ E2[l] = "down" /\ N2[l] = N[l] /\ E2[Rev(l)] = E[Rev(l)]
      BY <1>1, <1>3, <2>1, <2>3
    <3>2. Base(l, E2, R) = Base(l, E, R)
      BY <3>1 DEF Base
    <3>3. \A B : Reaches(l, E2, R, B)
      BY <3>1 DEF Reaches
    <3> QED
      BY <2>1, <3>1, <3>2, <3>3 DEF LinkOK
  <2>4. CASE l # <<s, t>> /\ l # <<t, s>>
    <3>1. Rev(l) # <<s, t>>
      BY <1>1, <2>1, <2>4
    <3>2. E2[l] = E[l] /\ E2[Rev(l)] = E[Rev(l)] /\ N2[l] = N[l]
      BY <1>3, <2>1, <2>4, <3>1
    <3>3. Base(l, E2, R) = Base(l, E, R)
      BY <3>2 DEF Base
    <3>4. \A B : Reaches(l, E2, R, B) <=> Reaches(l, E, R, B)
      BY <3>2 DEF Reaches
    <3> QED
      BY <2>1, <3>2, <3>3, <3>4 DEF LinkOK
  <2> QED
    BY <2>2, <2>3, <2>4
<1>6. \A l \in Link : E2[l] = "up" <=> IsChild(R[l[1]], l[1], l[2])
  BY <1>2, <1>3
<1>7. R \in [Server -> Trees] /\ \A x \in Server : Grown(R[x], x)
  BY DEF Trued, Typed
<1>8. Trued(E2, N2, R)
  BY <1>3, <1>4, <1>5, <1>6, <1>7 DEF Trued, Typed
<1> QED
  BY <1>8 DEF E2, N2

(* A connection is made: neither side knows anything over it.              *)
LEMMA OpenTrue ==
  ASSUME NEW s, NEW t, <<s, t>> \in Link,
         NEW E, NEW N, NEW R, Trued(E, N, R),
         E[<<s, t>>] = "down", E[<<t, s>>] = "down"
  PROVE  Trued([E EXCEPT ![<<s, t>>] = "open", ![<<t, s>>] = "open"],
               [N EXCEPT ![<<s, t>>] = <<>>, ![<<t, s>>] = <<>>], R)
<1> DEFINE E2 == [E EXCEPT ![<<s, t>>] = "open", ![<<t, s>>] = "open"]
           N2 == [N EXCEPT ![<<s, t>>] = <<>>, ![<<t, s>>] = <<>>]
<1>1. /\ s \in Server /\ t \in Server /\ s # t /\ <<t, s>> \in Link
      /\ Rev(<<s, t>>) = <<t, s>> /\ Rev(<<t, s>>) = <<s, t>>
  BY LinkFacts
<1>2. /\ E \in [Link -> {"down", "open", "up"}] /\ N \in [Link -> Seq(TreeMessage)]
      /\ \A l \in Link : LinkOK(l, E, N, R) /\ (E[l] = "up" <=> IsChild(R[l[1]], l[1], l[2]))
  BY DEF Trued, Typed
<1>3. /\ \A l \in Link : E2[l] = IF l \in {<<s, t>>, <<t, s>>} THEN "open" ELSE E[l]
      /\ \A l \in Link : N2[l] = IF l \in {<<s, t>>, <<t, s>>} THEN <<>> ELSE N[l]
      /\ E2 \in [Link -> {"down", "open", "up"}]
  BY <1>2
<1>4. N2 \in [Link -> Seq(TreeMessage)]
  <2>1. <<>> \in Seq(TreeMessage)
    OBVIOUS
  <2> QED
    BY <1>2, <2>1
<1> HIDE DEF E2, N2
<1>5. ASSUME NEW l \in Link PROVE LinkOK(l, E2, N2, R)
  <2>1. LinkOK(l, E, N, R) /\ Rev(l) \in Link /\ l[1] \in Server /\ l[2] \in Server /\ Rev(Rev(l)) = l
    BY <1>2, LinkFacts
  <2>2. CASE l \in {<<s, t>>, <<t, s>>}
    <3>1. E2[l] = "open" /\ E2[Rev(l)] = "open" /\ N2[l] = <<>>
      BY <1>1, <1>3, <2>2
    <3>2. Base(l, E2, R) = Only(l[1], l[2]) /\ Reaches(l, E2, R, Only(l[1], l[2]))
      BY <3>1 DEF Base, Reaches
    <3>3. Only(l[1], l[2]) \in View
      BY <2>1 DEF Only, View
    <3>4. Leads(<<>>, Only(l[1], l[2]), Only(l[1], l[2]))
      BY <3>3, LeadsNowhere
    <3> QED
      BY <3>1, <3>2, <3>3, <3>4 DEF LinkOK
  <2>3. CASE l \notin {<<s, t>>, <<t, s>>}
    <3>1. Rev(l) \notin {<<s, t>>, <<t, s>>}
      BY <1>1, <2>1, <2>3
    <3>2. E2[l] = E[l] /\ E2[Rev(l)] = E[Rev(l)] /\ N2[l] = N[l]
      BY <1>3, <2>1, <2>3, <3>1
    <3>3. Base(l, E2, R) = Base(l, E, R)
      BY <3>2 DEF Base
    <3>4. \A B : Reaches(l, E2, R, B) <=> Reaches(l, E, R, B)
      BY <3>2 DEF Reaches
    <3> QED
      BY <2>1, <3>2, <3>3, <3>4 DEF LinkOK
  <2> QED
    BY <2>2, <2>3
<1>6. \A l \in Link : E2[l] = "up" <=> IsChild(R[l[1]], l[1], l[2])
  BY <1>2, <1>3
<1>7. R \in [Server -> Trees] /\ \A x \in Server : Grown(R[x], x)
  BY DEF Trued, Typed
<1>8. Trued(E2, N2, R)
  BY <1>3, <1>4, <1>5, <1>6, <1>7 DEF Trued, Typed
<1> QED
  BY <1>8 DEF E2, N2

-----------------------------------------------------------------------------
(* What servers do.                                                        *)

LEMMA TellIs ==
  ASSUME NEW s, NEW but, NEW m \in TreeMessage, NEW N \in [Link -> Seq(TreeMessage)]
  PROVE  /\ Tell(N, s, but, <<m>>) \in [Link -> Seq(TreeMessage)]
         /\ \A l \in Link : Tell(N, s, but, <<m>>)[l] =
                              IF Sent(end, s, but, l) THEN N[l] \o <<m>> ELSE N[l]
<1>1. \A l \in Link : N[l] \in Seq(TreeMessage) /\ N[l] \o <<m>> \in Seq(TreeMessage)
  OBVIOUS
<1> QED
  BY <1>1 DEF Tell

\* The network without what s reads from t.
After(s, t) == [net EXCEPT ![<<t, s>>] = Tail(net[<<t, s>>])]

LEMMA AfterIs ==
  ASSUME NEW s, NEW t, <<s, t>> \in Link, net \in [Link -> Seq(TreeMessage)],
         net[<<t, s>>] # <<>>
  PROVE  /\ After(s, t) \in [Link -> Seq(TreeMessage)]
         /\ After(s, t)[<<t, s>>] = Tail(net[<<t, s>>])
         /\ \A l \in Link : l # <<t, s>> => After(s, t)[l] = net[l]
<1>1. <<t, s>> \in Link
  BY LinkFacts
<1>2. Tail(net[<<t, s>>]) \in Seq(TreeMessage)
  BY <1>1
<1> QED
  BY <1>1, <1>2 DEF After

(* server_exit: of the peer itself, or of one behind it as an NQUIT says.  *)
LEMMA ExitTrue ==
  ASSUME NEW s, NEW t, <<s, t>> \in Link, Trued(end, net, tree), end[<<s, t>>] = "up",
         NEW v \in Server, tree[s][v].via = t,
         NEW N \in [Link -> Seq(TreeMessage)],
         \A l \in Link : l # <<t, s>> => N[l] = net[l],
         v # t => /\ net[<<t, s>>] # <<>> /\ N[<<t, s>>] = Tail(net[<<t, s>>])
                  /\ Head(net[<<t, s>>]).cmd = "NQUIT" /\ Head(net[<<t, s>>]).name = v,
         Exit(s, N, v, t)
  PROVE  Trued(end', net', tree')
<1> DEFINE T  == tree[s]
           D  == Below(T, v)
           T2 == Pruned(T, D)
           m  == NQuit(v)
           N1 == Tell(N, s, t, <<m>>)
           X  == {v} \cap {x \in Server : tree[s][v].via = x}
<1>1. /\ s \in Server /\ t \in Server /\ s # t /\ <<t, s>> \in Link
      /\ \A l \in Link : l = <<l[1], l[2]>> /\ l[1] \in Server /\ l[2] \in Server
  BY LinkFacts
<1>2. /\ end \in [Link -> {"down", "open", "up"}] /\ net \in [Link -> Seq(TreeMessage)]
      /\ tree \in [Server -> Trees] /\ Grown(T, s) /\ T \in Trees
  BY <1>1 DEF Trued, Typed
<1>3. Placed(T, s, v)
  BY <1>1, <1>2, ViaFacts
<1>4. Descends(Ups(T), v, D)
  BY <1>2, BelowIs, SMTT(40)
<1>5. Grown(T2, s) /\ T2 \in Trees
  <2>1. Grown(T2, s)
    BY <1>1, <1>2, <1>3, <1>4, PrunedGrown
  <2> QED
    BY <2>1 DEF Grown
<1>6. m \in TreeMessage
  BY DEF NQuit, TreeMessage
<1>7. /\ N1 \in [Link -> Seq(TreeMessage)]
      /\ \A l \in Link : N1[l] = IF Sent(end, s, t, l) THEN N[l] \o <<m>> ELSE N[l]
  BY <1>6, TellIs
<1>8. Become(s, N1, T2, X)
  BY DEF Exit, Without, Pruned
<1>9. \A x : x \in X <=> x = v /\ v = t
  BY <1>1
<1> HIDE DEF X, N1, T2, D, T, m
<1>10. /\ end' \in [Link -> {"down", "open", "up"}]
       /\ net' \in [Link -> Seq(TreeMessage)]
       /\ tree' \in [Server -> Trees] /\ tree'[s] = T2
       /\ \A x \in Server \ {s} : tree'[x] = tree[x]
       /\ \A l \in Link : end'[l] = IF l[1] = s /\ l[2] \in X THEN "down" ELSE end[l]
       /\ \A l \in Link : net'[l] = IF l[2] = s /\ l[1] \in X THEN <<>> ELSE N1[l]
  <2>1. /\ s \in Server /\ N1 \in [Link -> Seq(TreeMessage)] /\ T2 \in Trees
        /\ end \in [Link -> {"down", "open", "up"}] /\ tree \in [Server -> Trees]
        /\ Become(s, N1, T2, X)
    BY <1>1, <1>2, <1>5, <1>7, <1>8
  <2>2. <<>> \in Seq(TreeMessage)
    OBVIOUS
  <2> QED
    BY <2>1, <2>2 DEF Become
<1>11. T = tree[s] /\ T[v].via = t
  BY DEF T
<1>12. ASSUME NEW u \in Server, u # s
       PROVE  /\ u # t => Heard(T2, u) = Heard(T, u)
              /\ u # t /\ IsChild(T, s, u) => Makes(Side(T, s, u), m, Side(T2, s, u))
              /\ u = t => /\ Side(T2, s, u) = Side(T, s, u)
                          /\ Descends(Heard(T, u), v, D)
                          /\ Heard(T2, u) = Cleared(Heard(T, u), D)
  BY <1>1, <1>2, <1>3, <1>4, <1>11, <1>12, PrunedViews DEF T2, m
<1>13. Speaks(s, t, m, end, net, tree, end', net', tree')
  <2>1. ASSUME NEW l \in Link, l # <<s, t>>, l # <<t, s>>
        PROVE  /\ end'[l] = end[l]
               /\ net'[l] = IF Sent(end, s, t, l) THEN net[l] \o <<m>> ELSE net[l]
    <3>1. ~(l[1] = s /\ l[2] = t) /\ ~(l[2] = s /\ l[1] = t)
      BY <1>1, <2>1
    <3>2. ~(l[1] = s /\ l[2] \in X) /\ ~(l[2] = s /\ l[1] \in X)
      BY <1>9, <3>1
    <3>3. N[l] = net[l]
      BY <2>1
    <3> QED
      BY <1>7, <1>10, <3>2, <3>3
  <2>2. ASSUME NEW u \in Server, u # s, u # t
        PROVE  /\ Heard(tree'[s], u) = Heard(tree[s], u)
               /\ IsChild(tree[s], s, u) => Makes(Side(tree[s], s, u), m, Side(tree'[s], s, u))
    BY <1>10, <1>11, <1>12, <2>2
  <2> QED
    BY <1>10, <2>1, <2>2 DEF Speaks
<1>14. /\ net'[<<s, t>>] = net[<<s, t>>]
       /\ ~(<<t, s>>[1] = s)
  <2>1. ~Sent(end, s, t, <<s, t>>) /\ N[<<s, t>>] = net[<<s, t>>]
    BY <1>1 DEF Sent
  <2> QED
    BY <1>1, <1>7, <1>10, <2>1
<1>15. ASSUME NEW u \in Server
       PROVE  IsChild(T2, s, u) <=> IsChild(T, s, u) /\ u # v
  <2>1. /\ u \in D => T2[u].up = Nobody
        /\ u \notin D => T2[u] = T[u]
    BY DEF T2, Pruned, Unknown
  <2>2. v \in D /\ Nobody # s
    BY <1>1, <1>4, ServerTreeAssumption DEF Descends, ServerTreeAssumption
  <2>3. u \in D /\ IsChild(T, s, u) => u = v
    BY <1>1, <1>2, <1>3, <1>4, ChildBelow
  <2> QED
    BY <2>1, <2>2, <2>3 DEF IsChild
<1>16. CASE v = t
  <2>1. X = {t}
    BY <1>9, <1>16
  <2>2. end'[<<s, t>>] = "down" /\ end'[<<t, s>>] = end[<<t, s>>] /\ net'[<<t, s>>] = <<>>
    BY <1>1, <1>10, <2>1
  <2>3. \A u \in Server : <<s, u>> \in Link =>
          (IsChild(tree'[s], s, u) <=> IsChild(tree[s], s, u) /\ u # t)
    BY <1>10, <1>11, <1>15, <1>16
  <2>4. Grown(tree'[s], s)
    BY <1>5, <1>10
  <2>5. Trued(end', net', tree')
    <3>1. Typed(end', net', tree') /\ net'[<<s, t>>] = net[<<s, t>>]
      BY <1>10, <1>14 DEF Typed
    <3> QED
      BY <1>6, <1>13, <2>2, <2>3, <2>4, <3>1, LeaveTrue
  <2> QED
    BY <2>5
<1>17. CASE v # t
  <2>1. end' = end
    <3>1. \A l \in Link : end'[l] = end[l]
      BY <1>9, <1>10, <1>17
    <3> QED
      BY <1>2, <1>10, <3>1
  <2>2. net'[<<t, s>>] = Tail(net[<<t, s>>])
    <3>1. ~Sent(end, s, t, <<t, s>>)
      BY <1>1 DEF Sent
    <3>2. <<t, s>>[1] \notin X
      BY <1>9, <1>17
    <3> QED
      BY <1>1, <1>7, <1>10, <1>17, <3>1, <3>2
  <2>3. \A u \in Server : <<s, u>> \in Link =>
          (IsChild(tree'[s], s, u) <=> IsChild(tree[s], s, u))
    <3>1. ~IsChild(T, s, v)
      BY <1>11, <1>17 DEF IsChild
    <3> QED
      BY <1>10, <1>11, <1>15, <3>1
  <2>4. Took(s, t, net, tree, tree')
    <3> SUFFICES ASSUME NEW A2 \in View, Makes(Heard(T, t), Head(net[<<t, s>>]), A2)
                 PROVE  A2 = Heard(T2, t)
      BY <1>10, <1>11 DEF Took
    <3>1. PICK D2 \in SUBSET Server :
            Descends(Heard(T, t), v, D2) /\ A2 = Cleared(Heard(T, t), D2)
      BY <1>17 DEF Makes
    <3>2. Descends(Heard(T, t), v, D) /\ Heard(T2, t) = Cleared(Heard(T, t), D)
      BY <1>1, <1>12
    <3>3. D2 = D
      BY <3>1, <3>2, OneBelow
    <3> QED
      BY <3>1, <3>2, <3>3
  <2>5. Grown(tree'[s], s) /\ Side(tree'[s], s, t) = Side(tree[s], s, t)
    BY <1>1, <1>5, <1>10, <1>11, <1>12
  <2>6. Speaks(s, t, m, end, net, tree, end, net', tree')
    BY <1>13, <2>1
  <2>7. Typed(end, net', tree')
    BY <1>2, <1>10 DEF Typed
  <2>8. Trued(end, net', tree')
    BY <1>6, <1>14, <1>17, <2>2, <2>3, <2>4, <2>5, <2>6, <2>7, ReadTrue, ZenonT(60)
  <2> QED
    BY <2>1, <2>8
<1> QED
  BY <1>16, <1>17

(* ms_nserver of a server that was not known: it comes behind its uplink,  *)
(* which is known, and over the link of the message.                       *)
LEMMA NServerTrue ==
  ASSUME NEW s, NEW t, <<s, t>> \in Link, Trued(end, net, tree), end[<<s, t>>] = "up",
         net[<<t, s>>] # <<>>, NEW m, m = Head(net[<<t, s>>]), m.cmd = "NSERVER",
         tree[s][m.name] = Unknown
  PROVE  /\ tree[s][m.up] # Unknown
         /\ Become(s, Tell(After(s, t), s, t, <<m>>),
                   [tree[s] EXCEPT ![m.name] = [up |-> m.up, via |-> t]], {})
              => Trued(end', net', tree')
<1> DEFINE T  == tree[s]
           x  == m.name
           p  == m.up
           N  == After(s, t)
           N1 == Tell(N, s, t, <<m>>)
           T2 == Grafted(T, s, x, p)
<1>1. /\ s \in Server /\ t \in Server /\ s # t /\ <<t, s>> \in Link
      /\ \A l \in Link : l = <<l[1], l[2]>> /\ l[1] \in Server /\ l[2] \in Server
  BY LinkFacts
<1>2. /\ end \in [Link -> {"down", "open", "up"}] /\ net \in [Link -> Seq(TreeMessage)]
      /\ tree \in [Server -> Trees] /\ Grown(T, s) /\ T \in Trees
  BY <1>1 DEF Trued, Typed
<1>3. m \in TreeMessage /\ \E A2 \in View : Makes(Heard(T, t), m, A2)
  BY HeadMakes, SMTT(40)
<1>4. /\ x \in Server /\ p \in Server
      /\ Heard(T, t)[x] = Nobody /\ Heard(T, t)[p] # Nobody
      /\ \A A2 \in View : Makes(Heard(T, t), m, A2) => A2 = [Heard(T, t) EXCEPT ![x] = p]
  BY <1>3 DEF Makes, TreeMessage
<1>5. T[p].via = t /\ T[p].up # Nobody
  BY <1>1, <1>2, <1>4, ViewsTyped
<1>6. tree[s][p] # Unknown
  BY <1>5 DEF Unknown
<1>7. T[x].up = Nobody
  BY DEF Unknown
<1>8. p # s
  BY <1>1, <1>2, <1>5 DEF Grown
<1>9. T2 = [tree[s] EXCEPT ![x] = [up |-> p, via |-> t]]
  BY <1>5, <1>8 DEF Grafted
<1> HIDE DEF T, x, p
<1>10. Grown(T2, s) /\ x # s /\ T2[x].up = p /\ \A w \in Server \ {x} : T2[w] = T[w]
  <2>1. s \in Server /\ Grown(T, s) /\ x \in Server /\ T[x].up = Nobody
        /\ p \in Server /\ T[p].up # Nobody
    BY <1>1, <1>2, <1>4, <1>5, <1>7
  <2> QED
    BY <2>1, GraftedGrown
<1>11. T2 \in Trees
  BY <1>10 DEF Grown
<1>12. NServer(p, x) = m
  BY <1>3 DEF NServer, TreeMessage, x, p
<1>13. /\ N \in [Link -> Seq(TreeMessage)] /\ N[<<t, s>>] = Tail(net[<<t, s>>])
       /\ \A l \in Link : l # <<t, s>> => N[l] = net[l]
  BY <1>2, AfterIs
<1> HIDE DEF N
<1>14. /\ N1 \in [Link -> Seq(TreeMessage)]
       /\ \A l \in Link : N1[l] = IF Sent(end, s, t, l) THEN N[l] \o <<m>> ELSE N[l]
  <2>1. \A l \in Link : N[l] \in Seq(TreeMessage) /\ N[l] \o <<m>> \in Seq(TreeMessage)
    BY <1>3, <1>13
  <2> QED
    BY <2>1 DEF Tell
<1> HIDE DEF N1, T2
<1>15. SUFFICES ASSUME Become(s, N1, T2, {}) PROVE Trued(end', net', tree')
  BY <1>6, <1>9 DEF N, N1, x, p
<1>16. T = tree[s]
  BY DEF T
<1>17. /\ end' = end /\ net' = N1
       /\ tree' \in [Server -> Trees] /\ tree'[s] = T2
       /\ \A r \in Server \ {s} : tree'[r] = tree[r]
  <2>1. end' = [l \in Link |-> end[l]] /\ net' = [l \in Link |-> N1[l]]
    BY <1>15 DEF Become
  <2> QED
    BY <1>1, <1>2, <1>11, <1>14, <1>15, <2>1 DEF Become
<1>18. ASSUME NEW u \in Server, u # s
       PROVE  /\ u # t => /\ Heard(T2, u) = Heard(T, u)
                          /\ Makes(Side(T, s, u), m, Side(T2, s, u))
              /\ u = t => /\ Side(T2, s, u) = Side(T, s, u)
                          /\ Heard(T2, u) = [Heard(T, u) EXCEPT ![x] = p]
  <2>1. t = IF p = s THEN x ELSE T[p].via
    BY <1>5, <1>8
  <2>2. s \in Server /\ Grown(T, s) /\ x \in Server /\ T[x].up = Nobody
        /\ p \in Server /\ T[p].up # Nobody
    BY <1>1, <1>2, <1>4, <1>5, <1>7
  <2> QED
    BY <1>8, <1>12, <1>18, <2>1, <2>2, GraftedViews DEF T2
<1>19. Speaks(s, t, m, end, net, tree, end, net', tree')
  <2>1. ASSUME NEW l \in Link, l # <<s, t>>, l # <<t, s>>
        PROVE  /\ end[l] = end[l]
               /\ net'[l] = IF Sent(end, s, t, l) THEN net[l] \o <<m>> ELSE net[l]
    BY <1>13, <1>14, <1>17, <2>1
  <2>2. ASSUME NEW u \in Server, u # s, u # t
        PROVE  /\ Heard(tree'[s], u) = Heard(tree[s], u)
               /\ IsChild(tree[s], s, u) => Makes(Side(tree[s], s, u), m, Side(tree'[s], s, u))
    BY <1>16, <1>17, <1>18, <2>2
  <2> QED
    BY <1>17, <2>1, <2>2 DEF Speaks
<1>20. net'[<<s, t>>] = net[<<s, t>>] /\ net'[<<t, s>>] = Tail(net[<<t, s>>])
  <2>1. ~Sent(end, s, t, <<s, t>>) /\ ~Sent(end, s, t, <<t, s>>) /\ <<s, t>> # <<t, s>>
    BY <1>1 DEF Sent
  <2> QED
    BY <1>1, <1>13, <1>14, <1>17, <2>1
<1>21. \A u \in Server : <<s, u>> \in Link =>
         (IsChild(tree'[s], s, u) <=> IsChild(tree[s], s, u))
  <2>1. ~IsChild(T2, s, x) /\ ~IsChild(T, s, x)
    BY <1>1, <1>7, <1>8, <1>10, ServerTreeAssumption DEF IsChild, ServerTreeAssumption
  <2> QED
    BY <1>10, <1>16, <1>17, <2>1 DEF IsChild
<1>22. Took(s, t, net, tree, tree')
  <2> SUFFICES ASSUME NEW A2 \in View, Makes(Heard(T, t), m, A2) PROVE A2 = Heard(T2, t)
    BY <1>16, <1>17 DEF Took
  <2> QED
    BY <1>1, <1>4, <1>18 DEF T, x, p
<1>23. Grown(tree'[s], s) /\ Side(tree'[s], s, t) = Side(tree[s], s, t)
  BY <1>1, <1>10, <1>16, <1>17, <1>18
<1>24. Typed(end, net', tree')
  BY <1>2, <1>14, <1>17 DEF Typed
<1>25. Trued(end, net', tree')
  BY <1>3, <1>19, <1>20, <1>21, <1>22, <1>23, <1>24, ReadTrue
<1> QED
  BY <1>17, <1>25

(* server_register of one that was not known.                              *)
LEMMA RegisterTrue ==
  ASSUME NEW s, NEW t, <<s, t>> \in Link, Trued(end, net, tree), Register(s, t),
         tree[s][t] = Unknown
  PROVE  Trued(end', net', tree')
<1> DEFINE T  == tree[s]
           m  == NServer(s, t)
           N1 == Tell(net, s, t, <<m>>)
           T2 == Grafted(T, s, t, s)
<1>1. /\ s \in Server /\ t \in Server /\ s # t /\ <<t, s>> \in Link
      /\ \A l \in Link : l = <<l[1], l[2]>> /\ l[1] \in Server /\ l[2] \in Server
  BY LinkFacts
<1>2. /\ end \in [Link -> {"down", "open", "up"}] /\ net \in [Link -> Seq(TreeMessage)]
      /\ tree \in [Server -> Trees] /\ Grown(T, s) /\ T \in Trees
      /\ LinkOK(<<s, t>>, end, net, tree)
  BY <1>1 DEF Trued, Typed
<1>3. end[<<s, t>>] = "open"
  BY DEF Register
<1>4. net[<<s, t>>] = <<>>
  BY <1>2, <1>3 DEF LinkOK
<1>5. T[t].up = Nobody /\ T[s].up # Nobody
  BY <1>1, <1>2, ServerTreeAssumption DEF Unknown, Grown, ServerTreeAssumption
<1>6. /\ Grown(T2, s) /\ T2[t].up = s /\ T2[t].via = t
      /\ \A w \in Server \ {t} : T2[w] = T[w]
  BY <1>1, <1>2, <1>5, GraftedGrown
<1>7. T2 \in Trees
  BY <1>6 DEF Grown
<1>8. m \in TreeMessage
  BY <1>1 DEF NServer, TreeMessage
<1>9. /\ N1 \in [Link -> Seq(TreeMessage)]
      /\ \A l \in Link : N1[l] = IF Sent(end, s, t, l) THEN net[l] \o <<m>> ELSE net[l]
  <2>1. net \in [Link -> Seq(TreeMessage)]
    BY <1>2
  <2> HIDE DEF m, T, T2
  <2>2. \A l \in Link : net[l] \in Seq(TreeMessage) /\ net[l] \o <<m>> \in Seq(TreeMessage)
    BY <1>8, <2>1
  <2> QED
    BY <2>2 DEF Tell
<1>10. PICK q \in Bursts(T, s, t) :
         net' = [N1 EXCEPT ![<<s, t>>] = IF end[<<t, s>>] = "down" THEN net[<<s, t>>]
                                         ELSE net[<<s, t>>] \o Introduced(T, q)]
  BY DEF Register
<1>11. /\ end' = [end EXCEPT ![<<s, t>>] = "up"]
       /\ tree' = [tree EXCEPT ![s] = T2]
  BY DEF Register, Grafted
<1>12. /\ Introduced(T, q) \in Seq(TreeMessage)
       /\ Leads(Introduced(T, q), Only(s, t), Side(T2, s, t))
  BY <1>1, <1>2, <1>5, <1>10, BurstLeads
<1> DEFINE Q == IF end[<<t, s>>] = "down" THEN <<>> ELSE Introduced(T, q)
<1>13. Q \in Seq(TreeMessage) /\ net' = [N1 EXCEPT ![<<s, t>>] = Q]
  <2>1. <<>> \o Introduced(T, q) = Introduced(T, q) /\ <<>> \in Seq(TreeMessage)
    BY <1>12
  <2> QED
    BY <1>4, <1>10, <1>12, <2>1
<1>14. end[<<t, s>>] # "down" => Leads(Q, Only(s, t), Side(T2, s, t))
  BY <1>12
<1> HIDE DEF Q, T, T2, N1
<1>15. /\ net' \in [Link -> Seq(TreeMessage)] /\ net'[<<s, t>>] = Q
       /\ \A l \in Link : l # <<s, t>> => net'[l] = N1[l]
  BY <1>9, <1>13
<1>16. /\ end' \in [Link -> {"down", "open", "up"}] /\ end'[<<s, t>>] = "up"
       /\ \A l \in Link : l # <<s, t>> => end'[l] = end[l]
  BY <1>2, <1>11
<1>17. /\ tree' \in [Server -> Trees] /\ tree'[s] = T2 /\ T = tree[s]
       /\ \A r \in Server \ {s} : tree'[r] = tree[r]
  BY <1>1, <1>2, <1>7, <1>11 DEF T
<1>18. ASSUME NEW u \in Server, u # s
       PROVE  /\ u # t => /\ Heard(T2, u) = Heard(T, u)
                          /\ Makes(Side(T, s, u), m, Side(T2, s, u))
              /\ u = t => Heard(T2, u) = Only(u, s)
  <2>1. t = IF s = s THEN t ELSE T[s].via
    OBVIOUS
  <2> QED
    BY <1>1, <1>2, <1>5, <1>18, <2>1, GraftedViews DEF T2
<1>19. Speaks(s, t, m, end, net, tree, end', net', tree')
  <2>1. ASSUME NEW l \in Link, l # <<s, t>>, l # <<t, s>>
        PROVE  /\ end'[l] = end[l]
               /\ net'[l] = IF Sent(end, s, t, l) THEN net[l] \o <<m>> ELSE net[l]
    BY <1>9, <1>15, <1>16, <2>1
  <2>2. ASSUME NEW u \in Server, u # s, u # t
        PROVE  /\ Heard(tree'[s], u) = Heard(tree[s], u)
               /\ IsChild(tree[s], s, u) => Makes(Side(tree[s], s, u), m, Side(tree'[s], s, u))
    BY <1>17, <1>18, <2>2
  <2> QED
    BY <1>17, <2>1, <2>2 DEF Speaks
<1>20. net'[<<t, s>>] = net[<<t, s>>] /\ end'[<<t, s>>] = end[<<t, s>>]
  <2>1. ~Sent(end, s, t, <<t, s>>) /\ <<s, t>> # <<t, s>>
    BY <1>1 DEF Sent
  <2> QED
    BY <1>1, <1>9, <1>15, <1>16, <2>1
<1>21. \A u \in Server : <<s, u>> \in Link =>
         (IsChild(tree'[s], s, u) <=> IsChild(tree[s], s, u) \/ u = t)
  <2>1. IsChild(T2, s, t)
    BY <1>6 DEF IsChild
  <2> QED
    BY <1>6, <1>17, <2>1 DEF IsChild
<1>22. Grown(tree'[s], s) /\ Heard(tree'[s], t) = Only(t, s)
  BY <1>1, <1>6, <1>17, <1>18
<1>23. end[<<t, s>>] # "down" => Leads(net'[<<s, t>>], Only(s, t), Side(tree'[s], s, t))
  BY <1>14, <1>15, <1>17
<1>24. Typed(end', net', tree')
  BY <1>15, <1>16, <1>17 DEF Typed
<1> QED
  BY <1>3, <1>8, <1>16, <1>19, <1>20, <1>21, <1>22, <1>23, <1>24, JoinTrue

LEMMA ReadKeeps ==
  ASSUME NEW l \in Link, Trued(end, net, tree), crashed = {}, Read(l[1], l[2])
  PROVE  Trued(end', net', tree') /\ crashed' = {}
<1> DEFINE s == l[1]
           t == l[2]
           m == Head(net[<<t, s>>])
           N == [net EXCEPT ![<<t, s>>] = Tail(net[<<t, s>>])]
<1>1. /\ s \in Server /\ t \in Server /\ s # t /\ <<s, t>> \in Link /\ <<t, s>> \in Link
  BY LinkFacts
<1>2. /\ end[<<s, t>>] = "up" /\ net[<<t, s>>] # <<>>
      /\ \/ m.cmd = "NSERVER" /\ OnNServer(s, t, m, N)
         \/ m.cmd = "NQUIT" /\ OnNQuit(s, t, m, N)
  BY DEF Read
<1>3. /\ net \in [Link -> Seq(TreeMessage)] /\ tree \in [Server -> Trees] /\ Grown(tree[s], s)
      /\ end[<<s, t>>] = "up" <=> IsChild(tree[s], s, t)
  BY <1>1 DEF Trued, Typed
<1>4. N = After(s, t)
  BY DEF After
<1> HIDE DEF m, N, s, t
<1>5. m = Head(net[<<t, s>>])
  BY DEF m
<1>6. m \in TreeMessage /\ \E A2 \in View : Makes(Heard(tree[s], t), m, A2)
  BY <1>1, <1>2, <1>5, HeadMakes
<1>7. /\ N \in [Link -> Seq(TreeMessage)] /\ N[<<t, s>>] = Tail(net[<<t, s>>])
      /\ \A k \in Link : k # <<t, s>> => N[k] = net[k]
  BY <1>1, <1>2, <1>3, <1>4, AfterIs
<1>8. CASE m.cmd = "NSERVER" /\ OnNServer(s, t, m, N)
  <2>1. CASE tree[s][m.name] # Unknown
    <3>1. Exit(s, N, t, t) /\ crashed' = crashed
      BY <1>8, <2>1 DEF OnNServer
    <3>2. tree[s][t].via = t
      BY <1>2, <1>3 DEF IsChild
    <3>3. Trued(end', net', tree')
      BY <1>1, <1>2, <1>7, <3>1, <3>2, ExitTrue
    <3> QED
      BY <3>1, <3>3
  <2>2. CASE tree[s][m.name] = Unknown
    <3>1. /\ tree[s][m.up] # Unknown
          /\ Become(s, Tell(N, s, t, <<m>>),
                    [tree[s] EXCEPT ![m.name] = [up |-> m.up, via |-> t]], {})
               => Trued(end', net', tree')
      BY <1>1, <1>2, <1>4, <1>5, <1>8, <2>2, NServerTrue
    <3> QED
      BY <1>8, <2>2, <3>1 DEF OnNServer
  <2> QED
    BY <2>1, <2>2
<1>9. CASE m.cmd = "NQUIT" /\ OnNQuit(s, t, m, N)
  <2> DEFINE v == m.name
  <2>1. v \in Server /\ Heard(tree[s], t)[v] # Nobody
    BY <1>6, <1>9 DEF TreeMessage, Makes
  <2>2. tree[s][v].via = t /\ tree[s][v].up # Nobody
    BY <1>1, <1>3, <2>1, ViewsTyped
  <2>3. tree[s][v] # Unknown /\ v # s
    BY <1>1, <1>3, <2>2 DEF Unknown, Grown
  <2>4. Exit(s, N, v, t) /\ crashed' = crashed
    BY <1>9, <2>3 DEF OnNQuit
  <2>5. Trued(end', net', tree')
    BY <1>1, <1>2, <1>5, <1>7, <1>9, <2>1, <2>2, <2>4, ExitTrue, ZenonT(60)
  <2> QED
    BY <2>4, <2>5
<1> QED
  BY <1>2, <1>8, <1>9

LEMMA RegisterKeeps ==
  ASSUME NEW l \in Link, Trued(end, net, tree), Register(l[1], l[2])
  PROVE  Trued(end', net', tree')
<1> DEFINE s == l[1]
           t == l[2]
<1>1. <<s, t>> \in Link
  BY LinkFacts
<1>2. Register(s, t)
  OBVIOUS
<1> HIDE DEF s, t
<1>3. CASE tree[s][t] = Unknown
  BY <1>1, <1>2, <1>3, RegisterTrue
<1>4. CASE tree[s][t] # Unknown
  <2>1. /\ end[<<s, t>>] = "open"
        /\ end' = [end EXCEPT ![<<s, t>>] = "down"]
        /\ net' = [net EXCEPT ![<<t, s>>] = <<>>]
        /\ tree' = tree
    BY <1>2, <1>4 DEF Register
  <2>2. Trued([end EXCEPT ![<<s, t>>] = "down"], [net EXCEPT ![<<t, s>>] = <<>>], tree)
    BY <1>1, <2>1, GiveUpTrue
  <2> QED
    BY <2>1, <2>2
<1> QED
  BY <1>3, <1>4

LEMMA CloseKeeps ==
  ASSUME NEW l \in Link, Trued(end, net, tree), Close(l[1], l[2])
  PROVE  Trued(end', net', tree')
<1> DEFINE s == l[1]
           t == l[2]
<1>1. /\ s \in Server /\ t \in Server /\ s # t /\ <<s, t>> \in Link
      /\ <<t, s>> \in Link
      /\ \A k \in Link : k = <<k[1], k[2]>>
  BY LinkFacts
<1>2. Close(s, t)
  OBVIOUS
<1> HIDE DEF s, t
<1>3. /\ end \in [Link -> {"down", "open", "up"}] /\ net \in [Link -> Seq(TreeMessage)]
      /\ tree \in [Server -> Trees]
      /\ end[<<s, t>>] = "up" <=> IsChild(tree[s], s, t)
  BY <1>1 DEF Trued, Typed
<1>4. CASE end[<<s, t>>] = "up"
  <2>1. Exit(s, net, t, t)
    BY <1>2, <1>4 DEF Close
  <2>2. tree[s][t].via = t
    BY <1>3, <1>4 DEF IsChild
  <2> QED
    BY <1>1, <1>3, <1>4, <2>1, <2>2, ExitTrue
<1>5. CASE end[<<s, t>>] # "up"
  <2>1. end[<<s, t>>] = "open" /\ Become(s, net, tree[s], {t})
    BY <1>1, <1>2, <1>3, <1>5 DEF Close
  <2>2. /\ end' = [k \in Link |-> IF k[1] = s /\ k[2] \in {t} THEN "down" ELSE end[k]]
        /\ net' = [k \in Link |-> IF k[2] = s /\ k[1] \in {t} THEN <<>> ELSE net[k]]
        /\ tree' = [tree EXCEPT ![s] = tree[s]]
    BY <2>1 DEF Become
  <2>3. \A k \in Link : /\ k[1] = s /\ k[2] \in {t} <=> k = <<s, t>>
                        /\ k[2] = s /\ k[1] \in {t} <=> k = <<t, s>>
    BY <1>1
  <2>4. end' = [end EXCEPT ![<<s, t>>] = "down"]
    BY <1>1, <1>3, <2>2, <2>3
  <2>5. net' = [net EXCEPT ![<<t, s>>] = <<>>]
    BY <1>1, <1>3, <2>2, <2>3
  <2>6. tree' = tree
    BY <1>3, <2>2
  <2>7. Trued([end EXCEPT ![<<s, t>>] = "down"], [net EXCEPT ![<<t, s>>] = <<>>], tree)
    BY <1>1, <2>1, GiveUpTrue
  <2> QED
    BY <2>4, <2>5, <2>6, <2>7
<1> QED
  BY <1>4, <1>5

LEMMA OpenKeeps ==
  ASSUME NEW l \in Link, Trued(end, net, tree), sessions \in 0 .. MaxSessions,
         OpenLink(l[1], l[2])
  PROVE  Trued(end', net', tree') /\ sessions' \in 0 .. MaxSessions
<1> DEFINE s == l[1]
           t == l[2]
<1>1. <<s, t>> \in Link
  BY LinkFacts
<1>2. OpenLink(s, t)
  OBVIOUS
<1> HIDE DEF s, t
<1>3. Trued([end EXCEPT ![<<s, t>>] = "open", ![<<t, s>>] = "open"],
            [net EXCEPT ![<<s, t>>] = <<>>, ![<<t, s>>] = <<>>], tree)
  BY <1>1, <1>2, OpenTrue DEF OpenLink
<1>4. sessions' \in 0 .. MaxSessions
  BY <1>2, ServerTreeAssumption DEF OpenLink, ServerTreeAssumption
<1> QED
  BY <1>2, <1>3, <1>4 DEF OpenLink

(* At first each server knows itself and the one it is linked to.          *)
LEMMA InitTrue ==
  ASSUME Init
  PROVE  TreeInv
<1>1. /\ IsFiniteSet(Server) /\ Nobody \notin Server /\ MaxSessions \in Nat
      /\ Paired \subseteq Link
      /\ \A k \in Paired : Rev(k) \in Paired /\ \A l \in Paired : k[1] = l[1] => k = l
  BY ServerTreeAssumption DEF ServerTreeAssumption
<1>2. /\ end = [l \in Link |-> IF l \in Paired THEN "up" ELSE "down"]
      /\ net = [l \in Link |-> <<>>]
      /\ tree = [s \in Server |-> [v \in Server |->
                   IF v = s THEN Me(s)
                   ELSE IF <<s, v>> \in Paired THEN [up |-> s, via |-> v] ELSE Unknown]]
      /\ crashed = {} /\ sessions = 0
  BY DEF Init
<1>3. Typed(end, net, tree)
  <2>1. <<>> \in Seq(TreeMessage)
    OBVIOUS
  <2>2. \A s \in Server : tree[s] \in Trees
    BY <1>2 DEF Trees, Entry, Me, Unknown
  <2> QED
    BY <1>2, <2>1, <2>2 DEF Typed
<1>4. \A s, v \in Server :
        /\ v = s => tree[s][v].up = s /\ tree[s][v].via = s
        /\ v # s /\ <<s, v>> \in Paired => tree[s][v].up = s /\ tree[s][v].via = v
        /\ v # s /\ <<s, v>> \notin Paired => tree[s][v].up = Nobody /\ tree[s][v].via = Nobody
  BY <1>2 DEF Me, Unknown
<1>5. \A s, v, w \in Server : <<s, v>> \in Paired /\ <<s, w>> \in Paired => v = w
  BY <1>1
<1>6. ASSUME NEW s \in Server PROVE Grown(tree[s], s)
  <2> DEFINE T == tree[s]
  <2>1. T \in Trees
    BY <1>3 DEF Typed
  <2>2. T[s].up = s /\ T[s].via = s
    BY <1>4
  <2>3. ASSUME NEW v \in Server PROVE T[v].up = Nobody <=> T[v].via = Nobody
    <3>1. s # Nobody /\ v # Nobody
      BY <1>1
    <3>2. CASE v = s
      BY <2>2, <3>1, <3>2
    <3>3. CASE v # s /\ <<s, v>> \in Paired
      BY <1>4, <3>1, <3>3
    <3>4. CASE v # s /\ <<s, v>> \notin Paired
      BY <1>4, <3>4
    <3> QED
      BY <3>2, <3>3, <3>4
  <2>4. ASSUME NEW v \in Server \ {s}, T[v].up # Nobody
        PROVE  /\ T[T[v].up].up # Nobody
               /\ T[v].via = IF T[v].up = s THEN v ELSE T[T[v].up].via
               /\ T[v].via # s /\ T[T[v].via].up = s /\ T[T[v].via].via = T[v].via
    <3>1. T[v].up = s /\ T[v].via = v
      BY <1>4, <2>4, ZenonT(60)
    <3> QED
      BY <1>1, <2>2, <2>4, <3>1
  <2>5. ASSUME NEW X \in SUBSET Server, s \in X, Closed(Ups(T), X),
               NEW v \in Server, T[v].up # Nobody
        PROVE  v \in X
    <3>1. T[v].up = s
      BY <1>4, <2>5
    <3> QED
      BY <2>5, <3>1 DEF Closed, Ups
  <2> HIDE DEF T
  <2>6. Grown(T, s)
    BY <2>1, <2>2, <2>3, <2>4, <2>5 DEF Grown
  <2> QED
    BY <2>6 DEF T
<1>7. ASSUME NEW l \in Link
      PROVE  (end[l] = "up" <=> IsChild(tree[l[1]], l[1], l[2])) /\ LinkOK(l, end, net, tree)
  <2>1. /\ l[1] \in Server /\ l[2] \in Server /\ l[1] # l[2]
        /\ l = <<l[1], l[2]>> /\ Rev(l) = <<l[2], l[1]>> /\ Rev(l) \in Link
        /\ Rev(Rev(l)) = l
    BY LinkFacts
  <2>2. end[l] = (IF l \in Paired THEN "up" ELSE "down") /\ net[l] = <<>>
        /\ end[Rev(l)] = IF Rev(l) \in Paired THEN "up" ELSE "down"
    BY <1>2, <2>1
  <2>3. l \in Paired <=> Rev(l) \in Paired
    BY <1>1, <2>1
  <2> DEFINE t == l[1]
             s == l[2]
  <2>4. end[l] = "up" <=> IsChild(tree[t], t, s)
    <3>1. l = <<t, s>>
      BY <2>1
    <3> HIDE DEF t, s
    <3>2. IsChild(tree[t], t, s) <=> <<t, s>> \in Paired
      BY <1>1, <1>4, <2>1 DEF IsChild, t, s
    <3> QED
      BY <2>2, <3>1, <3>2
  <2>5. ASSUME end[Rev(l)] # "down"
        PROVE  Heard(tree[s], t) = Side(tree[t], t, s)
    <3>1. /\ t \in Server /\ s \in Server /\ s # t
          /\ <<t, s>> \in Paired /\ <<s, t>> \in Paired
      BY <2>1, <2>2, <2>3, <2>5
    <3> HIDE DEF t, s
    <3>2. tree[s] \in Trees /\ tree[t] \in Trees
      BY <1>3, <3>1 DEF Typed
    <3>3. ASSUME NEW w \in Server
          PROVE  Heard(tree[s], t)[w] = Side(tree[t], t, s)[w]
      <4>1. /\ Heard(tree[s], t)[w] = IF tree[s][w].via = t THEN tree[s][w].up ELSE Nobody
            /\ Side(tree[t], t, s)[w] = IF w = t THEN s
                 ELSE IF tree[t][w].via = s THEN Nobody ELSE tree[t][w].up
        BY <3>1, <3>2, ViewsTyped
      <4>2. w # s => (<<s, w>> \in Paired <=> w = t)
        BY <1>5, <3>1
      <4>3. w # t => (<<t, w>> \in Paired <=> w = s)
        BY <1>5, <3>1
      <4>4. CASE w = t
        BY <1>4, <3>1, <4>1, <4>4
      <4>5. CASE w = s
        BY <1>4, <3>1, <4>1, <4>5, ZenonT(60)
      <4>6. CASE w # t /\ w # s
        BY <1>1, <1>4, <3>1, <4>1, <4>2, <4>3, <4>6
      <4> QED
        BY <4>4, <4>5, <4>6
    <3>4. Heard(tree[s], t) \in View /\ Side(tree[t], t, s) \in View
      BY <3>1, <3>2, ViewsTyped
    <3> QED
      BY <3>3, <3>4 DEF View
  <2>6. LinkOK(l, end, net, tree)
    <3> SUFFICES ASSUME end[Rev(l)] # "down"
                 PROVE  \E B \in View : Leads(net[l], Base(l, end, tree), B)
                                        /\ Reaches(l, end, tree, B)
      BY <2>2 DEF LinkOK
    <3> DEFINE B == Side(tree[t], t, s)
    <3>1. end[l] = "up" /\ end[Rev(l)] = "up"
      BY <2>2, <2>3
    <3>2. Base(l, end, tree) = B /\ Reaches(l, end, tree, B)
      BY <2>5, <3>1 DEF Base, Reaches
    <3>3. B \in View
      BY <1>3, <2>1, ViewsTyped DEF Typed
    <3> HIDE DEF B
    <3>4. Leads(<<>>, B, B)
      BY <3>3, LeadsNowhere
    <3> QED
      BY <2>2, <3>2, <3>3, <3>4
  <2> QED
    BY <2>4, <2>6
<1>8. Trued(end, net, tree)
  BY <1>3, <1>6, <1>7 DEF Trued
<1> QED
  BY <1>1, <1>2, <1>8 DEF TreeInv

LEMMA StepTrue ==
  ASSUME TreeInv, [Next]_vars
  PROVE  TreeInv'
<1>1. Trued(end, net, tree) /\ crashed = {} /\ sessions \in 0 .. MaxSessions
  BY DEF TreeInv
<1>2. SUFFICES Trued(end', net', tree') /\ crashed' = {} /\ sessions' \in 0 .. MaxSessions
  BY DEF TreeInv, Trued, Typed, LinkOK, Base, Reaches
<1>3. ASSUME NEW l \in Link, Read(l[1], l[2])
      PROVE  Trued(end', net', tree') /\ crashed' = {} /\ sessions' \in 0 .. MaxSessions
  <2>1. sessions' = sessions
    BY <1>3 DEF Read
  <2> QED
    BY <1>1, <1>3, <2>1, ReadKeeps
<1>4. ASSUME NEW l \in Link, OpenLink(l[1], l[2])
      PROVE  Trued(end', net', tree') /\ crashed' = {} /\ sessions' \in 0 .. MaxSessions
  <2>1. crashed' = crashed
    BY <1>4 DEF OpenLink
  <2> QED
    BY <1>1, <1>4, <2>1, OpenKeeps
<1>5. ASSUME NEW l \in Link, Register(l[1], l[2])
      PROVE  Trued(end', net', tree') /\ crashed' = {} /\ sessions' \in 0 .. MaxSessions
  <2>1. crashed' = crashed /\ sessions' = sessions
    BY <1>5 DEF Register
  <2> QED
    BY <1>1, <1>5, <2>1, RegisterKeeps
<1>6. ASSUME NEW l \in Link, Close(l[1], l[2])
      PROVE  Trued(end', net', tree') /\ crashed' = {} /\ sessions' \in 0 .. MaxSessions
  <2>1. crashed' = crashed /\ sessions' = sessions
    BY <1>6 DEF Close
  <2> QED
    BY <1>1, <1>6, <2>1, CloseKeeps
<1>7. CASE UNCHANGED vars
  BY <1>1, <1>7 DEF vars
<1> QED
  BY <1>3, <1>4, <1>5, <1>6, <1>7 DEF Next

LEMMA TreeInvImplies ==
  ASSUME TreeInv
  PROVE  TreeOK
<1>1. /\ Trued(end, net, tree) /\ crashed = {} /\ sessions \in 0 .. MaxSessions
      /\ Nobody \notin Server
  BY ServerTreeAssumption DEF TreeInv, ServerTreeAssumption
<1>2. /\ end \in [Link -> {"down", "open", "up"}] /\ net \in [Link -> Seq(TreeMessage)]
      /\ tree \in [Server -> Trees] /\ \A s \in Server : Grown(tree[s], s) /\ tree[s] \in Trees
      /\ \A l \in Link : end[l] = "up" <=> IsChild(tree[l[1]], l[1], l[2])
  BY <1>1 DEF Trued, Typed
<1>3. ASSUME NEW l \in Link, NEW i \in DOMAIN net[l]
      PROVE  net[l][i].name \in Server /\ (net[l][i].cmd = "NSERVER" => net[l][i].up \in Server)
  <2>1. net[l][i] \in TreeMessage
    BY <1>2
  <2> QED
    BY <2>1 DEF TreeMessage
<1>4. TypeOK
  BY <1>1, <1>2, <1>3 DEF TypeOK, Trees, Entry
<1>5. ASSUME NEW s \in Server, NEW v \in Known(tree[s]) \ {s}
      PROVE  /\ tree[s][tree[s][v].up] # Unknown
             /\ tree[s][v].via = IF tree[s][v].up = s THEN v ELSE tree[s][tree[s][v].up].via
  <2> DEFINE T == tree[s]
  <2>1. Grown(T, s) /\ v \in Server /\ T[v] # Unknown /\ v # s
    BY <1>2 DEF Known
  <2> HIDE DEF T
  <2>2. Placed(T, s, v)
    BY <2>1, UnknownIs DEF Placed
  <2>3. /\ T[T[v].up].up # Nobody
        /\ T[v].up = s => T[v].via = v
        /\ T[v].up # s => T[v].via = T[T[v].up].via
    BY <2>1, <2>2, PlacedFacts
  <2>4. T[T[v].up] # Unknown
    BY <2>3 DEF Unknown
  <2> QED
    BY <2>3, <2>4 DEF T
<1>6. ASSUME NEW s \in Server PROVE Below(tree[s], s) = Known(tree[s])
  <2> DEFINE T == tree[s]
             D == Below(T, s)
  <2>1. Grown(T, s) /\ T \in Trees /\ Descends(Ups(T), s, D)
    BY <1>2, BelowIs
  <2> HIDE DEF T, D
  <2>2. \A v \in Server : v \in Known(T) <=> T[v].up # Nobody
    BY <2>1, UnknownIs DEF Known
  <2>3. Known(T) \subseteq D
    BY <2>1, <2>2 DEF Grown, Descends, Known
  <2>4. D \subseteq Known(T)
    <3>1. s \in Known(T) /\ Known(T) \in SUBSET Server
      BY <1>1, <2>1, <2>2 DEF Grown, Known
    <3>2. Closed(Ups(T), Known(T))
      BY <1>1, <2>2, <3>1 DEF Closed, Ups
    <3> QED
      BY <2>1, <3>1, <3>2 DEF Descends
  <2> QED
    BY <2>3, <2>4 DEF T, D
<1>7. ASSUME NEW s \in Server, NEW l \in Link, l[1] = s
      PROVE  end[l] = "up" <=> tree[s][l[2]] = [up |-> s, via |-> l[2]]
  <2>1. tree[s][l[2]] \in Entry
    BY <1>2, LinkFacts DEF Trees
  <2> DEFINE e == tree[s][l[2]]
  <2>2. e = [up |-> e.up, via |-> e.via]
    BY <2>1 DEF Entry
  <2>3. end[l] = "up" <=> e.up = s /\ e.via = l[2]
    BY <1>2, <1>7 DEF IsChild
  <2> HIDE DEF e
  <2>4. end[l] = "up" <=> e = [up |-> s, via |-> l[2]]
    BY <2>2, <2>3
  <2> QED
    BY <2>4 DEF e
<1> QED
  BY <1>1, <1>4, <1>5, <1>6, <1>7 DEF TreeOK

(* Each server's tree is below it, by branches that are each known over    *)
(* one link, its links are those that are up, and it is told of no server  *)
(* behind one it does not know: so ms_nserver goes through no null         *)
(* pointer, whatever NSERVER and NQUIT cross on however many links, opened *)
(* and given up in any order.                                              *)
THEOREM TreesAlwaysOK == Spec => []TreeOK
<1>1. Init => TreeInv
  BY InitTrue
<1>2. TreeInv /\ [Next]_vars => TreeInv'
  BY StepTrue
<1>3. TreeInv => TreeOK
  BY TreeInvImplies
<1> QED
  BY <1>1, <1>2, <1>3, PTL DEF Spec

-----------------------------------------------------------------------------
(* When all is read.                                                       *)

\* What a server knows, it knows over a link.
OverLinks(R) ==
  \A s \in Server : \A v \in Server \ {s} :
    R[s][v].via # Nobody => <<s, R[s][v].via>> \in Link

(* One tree changes, by what is known over links.                          *)
LEMMA OverLinksKept ==
  ASSUME NEW R, R \in [Server -> Trees], OverLinks(R), NEW s \in Server, NEW T,
         \A v \in Server \ {s} : \/ T[v].via = R[s][v].via \/ T[v].via = Nobody
                                 \/ <<s, T[v].via>> \in Link
  PROVE  OverLinks([R EXCEPT ![s] = T])
<1> DEFINE R2 == [R EXCEPT ![s] = T]
<1>1. \A x \in Server : R2[x] = IF x = s THEN T ELSE R[x]
  OBVIOUS
<1> HIDE DEF R2
<1>2. OverLinks(R2)
  BY <1>1 DEF OverLinks
<1> QED
  BY <1>2 DEF R2

LEMMA ExitOverLinks ==
  ASSUME tree \in [Server -> Trees], OverLinks(tree), NEW s \in Server, NEW N,
         NEW v, NEW but, Exit(s, N, v, but)
  PROVE  OverLinks(tree')
<1> DEFINE T == Without(tree[s], v)
<1>1. tree' = [tree EXCEPT ![s] = T]
  BY DEF Exit, Become
<1>2. \A w \in Server : T[w] = Unknown \/ T[w] = tree[s][w]
  BY DEF Without
<1> HIDE DEF T
<1>3. \A w \in Server \ {s} : T[w].via = tree[s][w].via \/ T[w].via = Nobody
  BY <1>2 DEF Unknown
<1>4. OverLinks([tree EXCEPT ![s] = T])
  BY <1>3, OverLinksKept
<1> QED
  BY <1>1, <1>4

LEMMA StepOverLinks ==
  ASSUME TreeInv, OverLinks(tree), [Next]_vars
  PROVE  OverLinks(tree')
<1>1. tree \in [Server -> Trees]
  BY DEF TreeInv, Trued, Typed
<1>2. CASE tree' = tree
  BY <1>2 DEF OverLinks
<1>3. ASSUME NEW s \in Server, NEW t \in Server, <<s, t>> \in Link, NEW x, NEW u,
             tree' = [tree EXCEPT ![s] = [tree[s] EXCEPT ![x] = [up |-> u, via |-> t]]]
      PROVE  OverLinks(tree')
  <2> DEFINE e == [up |-> u, via |-> t]
             T == [tree[s] EXCEPT ![x] = e]
  <2>1. tree[s] \in [Server -> Entry]
    BY <1>1 DEF Trees
  <2>2. \A v \in Server : T[v] = IF v = x THEN e ELSE tree[s][v]
    BY <2>1
  <2>3. e.via = t
    OBVIOUS
  <2> HIDE DEF e, T
  <2>4. \A v \in Server \ {s} : T[v].via = tree[s][v].via \/ <<s, T[v].via>> \in Link
    BY <1>3, <2>2, <2>3
  <2>5. OverLinks([tree EXCEPT ![s] = T])
    BY <1>1, <2>4, OverLinksKept
  <2> QED
    BY <1>3, <2>5 DEF T, e
<1>4. ASSUME NEW l \in Link, Read(l[1], l[2]) PROVE OverLinks(tree')
  <2> DEFINE s == l[1]
             t == l[2]
             m == Head(net[<<t, s>>])
             N == [net EXCEPT ![<<t, s>>] = Tail(net[<<t, s>>])]
  <2>1. s \in Server /\ t \in Server /\ <<s, t>> \in Link
    BY LinkFacts
  <2>2. OnNServer(s, t, m, N) \/ OnNQuit(s, t, m, N)
    BY <1>4 DEF Read
  <2> HIDE DEF s, t, m, N
  <2>3. CASE OnNServer(s, t, m, N)
    <3>1. CASE Exit(s, N, t, t)
      BY <1>1, <2>1, <3>1, ExitOverLinks
    <3>2. CASE Become(s, Tell(N, s, t, <<m>>),
                      [tree[s] EXCEPT ![m.name] = [up |-> m.up, via |-> t]], {})
      BY <1>3, <2>1, <3>2 DEF Become
    <3>3. CASE UNCHANGED <<end, tree>>
      BY <1>2, <3>3
    <3> QED
      BY <2>3, <3>1, <3>2, <3>3 DEF OnNServer
  <2>4. CASE OnNQuit(s, t, m, N)
    <3>1. UNCHANGED <<end, tree>> \/ Exit(s, N, m.name, t)
      BY <2>4 DEF OnNQuit
    <3> QED
      BY <1>1, <1>2, <2>1, <3>1, ExitOverLinks
  <2> QED
    BY <2>2, <2>3, <2>4
<1>5. ASSUME NEW l \in Link, Register(l[1], l[2]) PROVE OverLinks(tree')
  <2> DEFINE s == l[1]
             t == l[2]
  <2>1. s \in Server /\ t \in Server /\ <<s, t>> \in Link
    BY LinkFacts
  <2>2. tree' = tree \/ tree' = [tree EXCEPT ![s][t] = [up |-> s, via |-> t]]
    BY <1>5 DEF Register
  <2> HIDE DEF s, t
  <2> QED
    BY <1>2, <1>3, <2>1, <2>2
<1>6. ASSUME NEW l \in Link, Close(l[1], l[2]) PROVE OverLinks(tree')
  <2> DEFINE s == l[1]
             t == l[2]
  <2>1. s \in Server
    BY LinkFacts
  <2>2. Exit(s, net, t, t) \/ Become(s, net, tree[s], {t})
    BY <1>6 DEF Close
  <2> HIDE DEF s, t
  <2>3. CASE Become(s, net, tree[s], {t})
    BY <1>1, <1>2, <2>1, <2>3 DEF Become
  <2> QED
    BY <1>1, <2>1, <2>2, <2>3, ExitOverLinks
<1> QED
  BY <1>2, <1>4, <1>5, <1>6 DEF Next, OpenLink, vars

LEMMA InitOverLinks ==
  ASSUME Init
  PROVE  OverLinks(tree)
<1>1. Paired \subseteq Link
  BY ServerTreeAssumption DEF ServerTreeAssumption
<1>2. ASSUME NEW s \in Server, NEW v \in Server \ {s}
      PROVE  tree[s][v] = IF <<s, v>> \in Paired THEN [up |-> s, via |-> v] ELSE Unknown
  BY DEF Init
<1>3. ASSUME NEW s \in Server, NEW v \in Server \ {s}, tree[s][v].via # Nobody
      PROVE  <<s, tree[s][v].via>> \in Link
  <2> DEFINE e == tree[s][v]
  <2>1. e = IF <<s, v>> \in Paired THEN [up |-> s, via |-> v] ELSE Unknown
    BY <1>2
  <2>2. e.via # Nobody
    BY <1>3
  <2> HIDE DEF e
  <2>3. <<s, v>> \in Paired /\ e.via = v
    BY <2>1, <2>2 DEF Unknown
  <2> QED
    BY <1>1, <2>3 DEF e
<1> QED
  BY <1>3 DEF OverLinks

-----------------------------------------------------------------------------
\* One of a and b is the uplink of the other, in the tree T of s.
Edge(T, s, a, b) == (a # s /\ T[a].up = b) \/ (b # s /\ T[b].up = a)

\* s and t know the same servers, and the same edges between them.
Alike(s, t) ==
  /\ \A w \in Server : tree[s][w].up = Nobody <=> tree[t][w].up = Nobody
  /\ \A a \in Server, b \in Server : Edge(tree[s], s, a, b) <=> Edge(tree[t], t, a, b)

(* What one end of a link heard is what the other told, when nothing is on *)
(* its way.                                                                *)
LEMMA HeardIsTold ==
  ASSUME Trued(end, net, tree), Settled, NEW s, NEW t, <<s, t>> \in Link,
         end[<<s, t>>] = "up"
  PROVE  /\ end[<<t, s>>] = "up"
         /\ Heard(tree[t], s) = Side(tree[s], s, t)
<1> DEFINE l == <<s, t>>
<1>1. /\ l \in Link /\ Rev(l) = <<t, s>> /\ l[1] = s /\ l[2] = t
  BY LinkFacts
<1>2. net[l] = <<>> /\ end[l] = end[Rev(l)] /\ end[l] = "up"
  BY <1>1 DEF Settled
<1>3. LinkOK(l, end, net, tree)
  BY <1>1 DEF Trued
<1> HIDE DEF l
<1>4. PICK B \in View : Leads(<<>>, Base(l, end, tree), B) /\ Reaches(l, end, tree, B)
  BY <1>2, <1>3 DEF LinkOK
<1>5. Base(l, end, tree) = B
  BY <1>4, LeadsNowhere
<1>6. B = Side(tree[s], s, t)
  BY <1>1, <1>2, <1>4 DEF Reaches
<1>7. Base(l, end, tree) = Heard(tree[t], s)
  BY <1>1, <1>2 DEF Base
<1> QED
  BY <1>1, <1>2, <1>5, <1>6, <1>7

(* So the ends of a link know the same.                                    *)
LEMMA EndsAlike ==
  ASSUME Trued(end, net, tree), Settled, NEW s, NEW t, <<s, t>> \in Link,
         end[<<s, t>>] = "up"
  PROVE  Alike(s, t)
<1>1. /\ s \in Server /\ t \in Server /\ s # t /\ <<t, s>> \in Link
      /\ <<s, t>>[1] = s /\ <<s, t>>[2] = t /\ <<t, s>>[1] = t /\ <<t, s>>[2] = s
      /\ Nobody \notin Server
  BY LinkFacts, ServerTreeAssumption DEF ServerTreeAssumption
<1>2. end[<<t, s>>] = "up" /\ Heard(tree[t], s) = Side(tree[s], s, t)
  BY HeardIsTold
<1>3. Heard(tree[s], t) = Side(tree[t], t, s)
  BY <1>1, <1>2, HeardIsTold
<1>4. /\ Grown(tree[s], s) /\ Grown(tree[t], t)
      /\ IsChild(tree[s], s, t) /\ IsChild(tree[t], t, s)
  BY <1>1, <1>2 DEF Trued
<1> DEFINE P == tree[s]
           Q == tree[t]
<1>5. /\ P[s].up = s /\ Q[t].up = t /\ P[t].up = s /\ Q[s].up = t
      /\ \A w \in Server : (P[w].up = Nobody <=> P[w].via = Nobody)
      /\ \A w \in Server : (Q[w].up = Nobody <=> Q[w].via = Nobody)
  BY <1>4 DEF Grown, IsChild
<1>6. ASSUME NEW w \in Server, w # s, w # t
      PROVE  P[w].up = Q[w].up
  <2>1. (IF Q[w].via = s THEN Q[w].up ELSE Nobody)
          = (IF P[w].via = t THEN Nobody ELSE P[w].up)
    <3>1. Heard(tree[t], s)[w] = Side(tree[s], s, t)[w]
      BY <1>2
    <3> QED
      BY <1>6, <3>1 DEF Heard, Side
  <2>2. (IF P[w].via = t THEN P[w].up ELSE Nobody)
          = (IF Q[w].via = s THEN Nobody ELSE Q[w].up)
    <3>1. Heard(tree[s], t)[w] = Side(tree[t], t, s)[w]
      BY <1>3
    <3> QED
      BY <1>6, <3>1 DEF Heard, Side
  <2> HIDE DEF P, Q
  <2> QED
    BY <1>1, <1>5, <2>1, <2>2
<1>7. \A w \in Server : P[w].up = Nobody <=> Q[w].up = Nobody
  BY <1>1, <1>5, <1>6
<1>8. ASSUME NEW a \in Server, NEW b \in Server
      PROVE  Edge(P, s, a, b) <=> Edge(Q, t, a, b)
  <2> HIDE DEF P, Q
  <2>1. CASE a \notin {s, t} /\ b \notin {s, t}
    BY <1>6, <2>1 DEF Edge
  <2>2. CASE a \in {s, t}
    BY <1>1, <1>5, <1>6, <2>2 DEF Edge
  <2>3. CASE b \in {s, t}
    BY <1>1, <1>5, <1>6, <2>3 DEF Edge
  <2> QED
    BY <2>1, <2>2, <2>3
<1> QED
  BY <1>7, <1>8 DEF Alike

(* And so do all that know one another: each is linked to its uplink.      *)
LEMMA AllAlike ==
  ASSUME Trued(end, net, tree), OverLinks(tree), Settled, NEW s \in Server
  PROVE  \A t \in Server : tree[s][t].up # Nobody => Alike(s, t)
<1> DEFINE T == tree[s]
           X == {v \in Server : Alike(s, v)}
<1>1. /\ Grown(T, s) /\ \A u \in Server : Grown(tree[u], u)
      /\ Nobody \notin Server
  BY ServerTreeAssumption DEF Trued, ServerTreeAssumption
<1>2. s \in X
  BY DEF Alike
<1>3. ASSUME NEW w \in Server, Ups(T)[w] \in X
      PROVE  w \in X
  <2> DEFINE u == T[w].up
  <2>1. u \in Server /\ Alike(s, u)
    BY <1>3 DEF Ups
  <2>2. CASE w = s \/ w = u
    BY <1>2, <2>1, <2>2
  <2>3. CASE w # s /\ w # u
    <3>1. Edge(tree[u], u, w, u)
      <4>1. Edge(tree[s], s, w, u)
        BY <2>3 DEF Edge
      <4> QED
        BY <2>1, <4>1 DEF Alike
    <3> HIDE DEF u, T
    <3>2. tree[u][w].up = u
      BY <3>1 DEF Edge
    <3>3. tree[u][w].via = w
      BY <1>1, <2>1, <2>3, <3>2 DEF Grown
    <3>4. <<u, w>> \in Link
      BY <1>1, <2>1, <2>3, <3>3 DEF OverLinks
    <3>5. end[<<u, w>>] = "up"
      <4>1. IsChild(tree[u], u, w) /\ <<u, w>>[1] = u /\ <<u, w>>[2] = w
        BY <3>2, <3>3 DEF IsChild
      <4> QED
        BY <3>4, <4>1 DEF Trued
    <3>6. Alike(u, w)
      BY <3>4, <3>5, EndsAlike
    <3>7. Alike(s, w)
      BY <2>1, <3>6 DEF Alike
    <3> QED
      BY <3>7
  <2> QED
    BY <2>2, <2>3
<1>4. Closed(Ups(T), X) /\ X \in SUBSET Server
  BY <1>3 DEF Closed
<1>5. \A v \in Server : T[v].up # Nobody => v \in X
  <2> HIDE DEF T, X
  <2> QED
    BY <1>1, <1>2, <1>4 DEF Grown
<1> QED
  BY <1>5

(* No server is its own uplink, nor its uplink's, but the root.            *)
LEMMA NoPair ==
  ASSUME NEW T, NEW s \in Server, Grown(T, s), NEW v, Placed(T, s, v)
  PROVE  T[v].up # v /\ (T[v].up # s => T[T[v].up].up # v)
<1> DEFINE u == T[v].up
           X == Server \ {u, v}
<1>1. v \in Server /\ v # s /\ T[v].up # Nobody
  BY DEF Placed
<1>2. SUFFICES ASSUME u = v \/ (u # s /\ T[u].up = v) PROVE FALSE
  OBVIOUS
<1>3. s \in X /\ X \in SUBSET Server
  BY <1>1, <1>2
<1>4. Closed(Ups(T), X)
  <2>1. ASSUME NEW w \in Server, T[w].up \in X PROVE w \in X
    BY <1>2, <2>1
  <2> QED
    BY <2>1 DEF Closed, Ups
<1>5. v \in X
  <2> HIDE DEF X, u
  <2> QED
    BY <1>1, <1>3, <1>4 DEF Grown
<1> QED
  BY <1>5

(* A tree has two directed edges for each server but the root.             *)
LEMMA EdgesCounted ==
  ASSUME NEW T, NEW s \in Server, Grown(T, s), IsFiniteSet(Known(T))
  PROVE  Cardinality({p \in Server \X Server : Edge(T, s, p[1], p[2])})
           = 2 * (Cardinality(Known(T)) - 1)
<1> DEFINE K  == Known(T)
           C  == K \ {s}
           L1 == {p \in Server \X Server : p[1] \in C /\ p[2] = T[p[1]].up}
           L2 == {p \in Server \X Server : p[2] \in C /\ p[1] = T[p[2]].up}
           f1 == [v \in C |-> <<v, T[v].up>>]
           f2 == [v \in C |-> <<T[v].up, v>>]
<1>1. Nobody \notin Server
  BY ServerTreeAssumption DEF ServerTreeAssumption
<1>2. \A v \in Server : v \in K <=> T[v].up # Nobody
  BY UnknownIs DEF Known
<1>3. s \in K /\ K \subseteq Server
  BY <1>1, <1>2 DEF Grown, Known
<1>4. ASSUME NEW v \in C
      PROVE  v \in Server /\ T[v].up \in Server /\ T[v].up # v
             /\ (T[v].up # s => T[T[v].up].up # v)
  <2>1. Placed(T, s, v)
    BY <1>2, <1>3, <1>4 DEF Placed
  <2> QED
    BY <1>3, <2>1, PlacedFacts, NoPair
<1>5. IsFiniteSet(C) /\ Cardinality(C) = Cardinality(K) - 1
  BY <1>3, FS_RemoveElement
<1>6. \A v \in Server : v \in C <=> v # s /\ T[v].up # Nobody
  BY <1>2
<1> HIDE DEF K, C
<1>7. IsFiniteSet(L1) /\ Cardinality(L1) = Cardinality(C)
  <2>1. f1 \in Bijection(C, L1)
    <3>1. f1 \in [C -> L1]
      BY <1>4
    <3>2. \A a \in C, b \in C : f1[a] = f1[b] => a = b
      OBVIOUS
    <3>3. \A p \in L1 : p[1] \in C /\ f1[p[1]] = p
      OBVIOUS
    <3> HIDE DEF f1, L1
    <3> QED
      BY <3>1, <3>2, <3>3, Fun_IsBij
  <2> HIDE DEF f1, L1
  <2>2. ExistsBijection(C, L1)
    BY <2>1 DEF ExistsBijection
  <2> QED
    BY <1>5, <2>2, FS_Bijection
<1>8. IsFiniteSet(L2) /\ Cardinality(L2) = Cardinality(C)
  <2>1. f2 \in Bijection(C, L2)
    <3>1. f2 \in [C -> L2]
      BY <1>4
    <3>2. \A a \in C, b \in C : f2[a] = f2[b] => a = b
      OBVIOUS
    <3>3. \A p \in L2 : p[2] \in C /\ f2[p[2]] = p
      BY SMTT(40)
    <3> HIDE DEF f2, L2
    <3> QED
      BY <3>1, <3>2, <3>3, Fun_IsBij
  <2> HIDE DEF f2, L2
  <2>2. ExistsBijection(C, L2)
    BY <2>1 DEF ExistsBijection
  <2> QED
    BY <1>5, <2>2, FS_Bijection
<1>9. L1 \cap L2 = {}
  <2> SUFFICES ASSUME NEW p \in L1, p \in L2 PROVE FALSE
    OBVIOUS
  <2>1. p[1] \in C /\ p[2] \in C /\ p[2] = T[p[1]].up /\ p[1] = T[p[2]].up
    OBVIOUS
  <2> HIDE DEF L1, L2
  <2> QED
    BY <1>4, <1>6, <2>1
<1>10. {p \in Server \X Server : Edge(T, s, p[1], p[2])} = L1 \cup L2
  <2>1. ASSUME NEW p \in Server \X Server
        PROVE  Edge(T, s, p[1], p[2]) <=> p \in L1 \/ p \in L2
    BY <1>1, <1>6 DEF Edge
  <2> QED
    BY <2>1
<1>11. Cardinality(L1 \cup L2) = Cardinality(C) + Cardinality(C)
  <2> HIDE DEF L1, L2
  <2>1. Cardinality(L1 \cup L2) = Cardinality(L1) + Cardinality(L2) - Cardinality(L1 \cap L2)
    BY <1>7, <1>8, FS_Union
  <2>2. Cardinality(L1 \cap L2) = 0 /\ Cardinality(C) \in Nat
    BY <1>5, <1>9, FS_EmptySet, FS_CardinalityType
  <2> QED
    BY <1>7, <1>8, <2>1, <2>2
<1>12. Cardinality(K) \in Nat
  BY FS_CardinalityType DEF K
<1> HIDE DEF L1, L2
<1>13. Cardinality(L1 \cup L2) = 2 * (Cardinality(K) - 1)
  BY <1>5, <1>11, <1>12
<1> QED
  BY <1>10, <1>13, Zenon DEF K

(* The links that are up, of those that are known to s, are the edges of   *)
(* its tree.                                                               *)
LEMMA LinksAreEdges ==
  ASSUME Trued(end, net, tree), OverLinks(tree), Settled, NEW s \in Server
  PROVE  {l \in Link : l[1] \in Known(tree[s]) /\ end[l] = "up"}
           = {p \in Server \X Server : Edge(tree[s], s, p[1], p[2])}
<1> DEFINE T == tree[s]
           K == Known(T)
<1>1. /\ \A u \in Server : Grown(tree[u], u)
      /\ \A l \in Link : end[l] = "up" <=> IsChild(tree[l[1]], l[1], l[2])
      /\ Nobody \notin Server
  BY ServerTreeAssumption DEF Trued, ServerTreeAssumption
<1>2. \A v \in Server : v \in K <=> T[v].up # Nobody
  BY <1>1, UnknownIs DEF Known
<1>3. \A t \in K : t \in Server /\ Alike(s, t)
  BY <1>2, AllAlike DEF Known
<1> HIDE DEF T, K
<1>4. ASSUME NEW l \in Link, l[1] \in K, end[l] = "up"
      PROVE  l \in Server \X Server /\ Edge(tree[s], s, l[1], l[2])
  <2> DEFINE a == l[1]
             b == l[2]
  <2>1. a \in Server /\ b \in Server /\ a # b /\ l = <<a, b>>
    BY LinkFacts
  <2>2. tree[a][b].up = a
    BY <1>1, <1>4 DEF IsChild
  <2> HIDE DEF a, b
  <2>3. Edge(tree[a], a, a, b)
    BY <2>1, <2>2 DEF Edge
  <2>4. Edge(tree[s], s, a, b)
    BY <1>3, <1>4, <2>1, <2>3 DEF Alike, a
  <2> QED
    BY <2>1, <2>4 DEF a, b
<1>5. ASSUME NEW a \in Server, NEW b \in Server, Edge(tree[s], s, a, b)
      PROVE  <<a, b>> \in Link /\ a \in K /\ end[<<a, b>>] = "up"
  <2>1. Grown(T, s)
    BY <1>1 DEF T
  <2>2. T[a].up # Nobody
    BY <1>1, <1>5, <2>1 DEF Edge, T, Grown
  <2>3. a \in K /\ Edge(tree[a], a, a, b)
    BY <1>2, <1>3, <1>5, <2>2 DEF Alike
  <2>4. b # a /\ tree[a][b].up = a
    BY <2>3 DEF Edge
  <2>5. tree[a][b].via = b
    BY <1>1, <2>4 DEF Grown
  <2>6. <<a, b>> \in Link
    BY <1>1, <2>4, <2>5 DEF OverLinks
  <2>7. IsChild(tree[a], a, b) /\ <<a, b>>[1] = a /\ <<a, b>>[2] = b
    BY <2>4, <2>5 DEF IsChild
  <2> QED
    BY <1>1, <2>3, <2>6, <2>7
<1>6. \A p \in Server \X Server : p[1] \in Server /\ p[2] \in Server /\ p = <<p[1], p[2]>>
  OBVIOUS
<1>7. ASSUME NEW p
      PROVE  p \in {l \in Link : l[1] \in K /\ end[l] = "up"}
               <=> p \in {q \in Server \X Server : Edge(tree[s], s, q[1], q[2])}
  BY <1>4, <1>5, <1>6
<1> QED
  BY <1>7 DEF K, T

LEMMA TreeInvAgrees ==
  ASSUME TreeInv, OverLinks(tree)
  PROVE  Agreed
<1>1. Trued(end, net, tree)
  BY DEF TreeInv
<1> SUFFICES ASSUME Settled, NEW s \in Server
    PROVE  /\ \A t \in Known(tree[s]) : Known(tree[t]) = Known(tree[s])
           /\ \A t \in Known(tree[s]), v \in Server \ Known(tree[s]) : ~Linked(t, v)
           /\ Cardinality({l \in Link : l[1] \in Known(tree[s]) /\ end[l] = "up"})
                = 2 * (Cardinality(Known(tree[s])) - 1)
  BY DEF Agreed
<1> DEFINE K == Known(tree[s])
<1>2. /\ \A u \in Server : Grown(tree[u], u)
      /\ \A l \in Link : end[l] = "up" <=> IsChild(tree[l[1]], l[1], l[2])
      /\ Nobody \notin Server /\ IsFiniteSet(Server)
  BY <1>1, ServerTreeAssumption DEF Trued, ServerTreeAssumption
<1>3. \A u \in Server : \A v \in Server : v \in Known(tree[u]) <=> tree[u][v].up # Nobody
  BY <1>2, UnknownIs DEF Known
<1>4. ASSUME NEW t \in K PROVE Known(tree[t]) = K
  <2>1. t \in Server /\ tree[s][t].up # Nobody
    BY <1>3 DEF Known
  <2>2. Alike(s, t)
    BY <1>1, <2>1, AllAlike
  <2>3. \A v \in Server : v \in Known(tree[t]) <=> v \in K
    BY <1>3, <2>1, <2>2 DEF Alike
  <2> QED
    BY <2>3 DEF Known
<1>5. ASSUME NEW t \in K, NEW v \in Server \ K, Linked(t, v) PROVE FALSE
  <2>1. t \in Server /\ <<t, v>> \in Link /\ end[<<t, v>>] = "up"
        /\ <<t, v>>[1] = t /\ <<t, v>>[2] = v
    BY <1>5 DEF Linked, Known
  <2>2. tree[t][v].up = t
    BY <1>2, <2>1 DEF IsChild
  <2>3. v \in Known(tree[t])
    BY <1>2, <1>3, <2>1, <2>2
  <2> QED
    BY <1>4, <2>3
<1>6. Cardinality({l \in Link : l[1] \in K /\ end[l] = "up"}) = 2 * (Cardinality(K) - 1)
  <2>1. IsFiniteSet(K)
    BY <1>2, FS_Subset DEF Known
  <2> QED
    BY <1>1, <1>2, <2>1, LinksAreEdges, EdgesCounted
<1> QED
  BY <1>4, <1>5, <1>6

(* When everything is read, each server knows exactly those it can reach   *)
(* over links that are up, and these make no circle: whatever circles were *)
(* closed, and wherever NSERVER found them, every duplicate was dropped.   *)
THEOREM ServersAlwaysAgree == Spec => []Agreed
<1> DEFINE Inv == TreeInv /\ OverLinks(tree)
<1>1. Init => Inv
  BY InitTrue, InitOverLinks
<1>2. Inv /\ [Next]_vars => Inv'
  BY StepTrue, StepOverLinks DEF OverLinks
<1>3. Inv => Agreed
  BY TreeInvAgrees
<1> QED
  BY <1>1, <1>2, <1>3, PTL DEF Spec
=============================================================================
