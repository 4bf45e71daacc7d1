-------------------------- MODULE MaskListsProofs --------------------------
(***************************************************************************)
(* The mask lists keep their form and their limit, and members see them as *)
(* they are, on any tree of servers, for any masks and limits: ListsKept;  *)
(* and additions drop a mask only for one that stands in for it.           *)
(*                                                                         *)
(* A line is run change by change.  Sound is what holds between two of its *)
(* changes: besides the form of the list, that who had seen the old list   *)
(* and replays what was told so far sees the list there is now.  Beyond    *)
(* ListsKept the invariant has only the types of the messages.             *)
(***************************************************************************)
EXTENDS MaskLists, SequenceTheorems, WellFoundedInduction, TLAPS

Addition == {c \in Change : c.what = "+"}

\* ms_nmode is only sent additions.
Message ==
  {ModeMsg(u, C) : u \in User, C \in Seq(Change)} \cup {NModeMsg(C) : C \in Seq(Addition)}

NetTyped == net \in [Link -> Seq(Message)]

IInv == ListsKept /\ NetTyped

\* No mask of the list matches another one.
Clear(L) == \A i, j \in DOMAIN L : Matched(L[i].mask, L[j].mask) => i = j

RunState == [list : Seq(Item), told : Seq(Change), lost : SUBSET {"full"}]

\* In the middle of a line, for members that saw V before it.
Sound(V, st) ==
  /\ st \in RunState /\ Len(st.list) <= MaxBans /\ Clear(st.list)
  /\ Seen(V, st.told) = Masks(st.list)

-----------------------------------------------------------------------------
(* Functions defined along a line.                                         *)

(* A set of numbers has a smallest.                                        *)
LEMMA LeastIn ==
  ASSUME NEW S \in SUBSET Nat, S # {}
  PROVE  \E x \in S : \A y \in S : x <= y
<1>1. \E x \in S : \A y \in S : ~ (<<y, x>> \in OpToRel(<, Nat))
  BY NatLessThanWellFounded, WFMin, Zenon
<1>2. \A x \in S, y \in S : <<y, x>> \in OpToRel(<, Nat) <=> y < x
  <2>1. \A x \in Nat, y \in Nat : <<y, x>> \in {p \in Nat \X Nat : p[1] < p[2]} <=> y < x
    OBVIOUS
  <2> QED
    BY <2>1, Zenon DEF OpToRel
<1>3. \E x \in S : \A y \in S : ~(y < x)
  BY <1>1, <1>2, Zenon
<1> QED
  BY <1>3

(* What holds at first and is kept by every change holds at last.          *)
LEMMA AlongLine ==
  ASSUME NEW k \in Nat, NEW S, NEW f, f[0] \in S[0],
         \A n \in 1 .. k : f[n - 1] \in S[n - 1] => f[n] \in S[n]
  PROVE  \A n \in 0 .. k : f[n] \in S[n]
<1> DEFINE Bad == {n \in 0 .. k : f[n] \notin S[n]}
<1>1. SUFFICES ASSUME Bad # {} PROVE FALSE
  OBVIOUS
<1>2. Bad \in SUBSET Nat
  OBVIOUS
<1>3. PICK n \in Bad : \A m \in Bad : n <= m
  BY <1>1, <1>2, LeastIn, Zenon
<1>4. n \in 1 .. k /\ f[n] \notin S[n]
  BY <1>3
<1>5. f[n - 1] \in S[n - 1]
  <2>1. n - 1 \in 0 .. k /\ ~(n <= n - 1)
    BY <1>4
  <2> QED
    BY <1>3, <2>1
<1> QED
  BY <1>4, <1>5

\* What the k changes of a line do to the things of S; x taken through them.
Changes(k, S) == [1 .. k -> [S -> S]]
Through(k, S, x, G) ==
  \E f \in [0 .. k -> S] : f[0] = x /\ \A n \in 1 .. k : f[n] = G[n][f[n - 1]]

(* There is the function that each change takes one step further.          *)
LEMMA LineFunction ==
  ASSUME NEW k \in Nat, NEW S, NEW x \in S, NEW G \in Changes(k, S)
  PROVE  Through(k, S, x, G)
<1> USE DEF Changes
<1> SUFFICES \E f \in [0 .. k -> S] : f[0] = x /\ \A n \in 1 .. k : f[n] = G[n][f[n - 1]]
  BY DEF Through
<1> DEFINE Is(f, m) == f[0] = x /\ \A n \in 1 .. m : f[n] = G[n][f[n - 1]]
           Has == {m \in 0 .. k : \E f \in [0 .. m -> S] : Is(f, m)}
           Bad == (0 .. k) \ Has
<1>1. 0 \in Has
  <2>1. [n \in 0 .. 0 |-> x] \in [0 .. 0 -> S] /\ Is([n \in 0 .. 0 |-> x], 0)
    OBVIOUS
  <2>2. 0 \in 0 .. k
    OBVIOUS
  <2> HIDE DEF Is
  <2> QED
    BY <2>1, <2>2
<1>2. ASSUME NEW m \in 1 .. k, m - 1 \in Has
      PROVE  m \in Has
  <2>1. PICK f \in [0 .. m - 1 -> S] : Is(f, m - 1)
    BY <1>2
  <2> DEFINE g == [n \in 0 .. m |-> IF n = m THEN G[m][f[m - 1]] ELSE f[n]]
  <2>2. f[m - 1] \in S /\ G[m] \in [S -> S]
    BY <2>1
  <2>3. g \in [0 .. m -> S]
    <3>1. G[m][f[m - 1]] \in S
      BY <2>2
    <3>2. ASSUME NEW n \in 0 .. m, n # m PROVE f[n] \in S
      BY <2>1, <3>2
    <3> QED
      BY <3>1, <3>2
  <2>4. g[0] = x
    BY <2>1
  <2>5. ASSUME NEW n \in 1 .. m PROVE g[n] = G[n][g[n - 1]]
    <3>1. CASE n = m
      BY <3>1
    <3>2. CASE n # m
      <4>1. n \in 1 .. m - 1 /\ n - 1 \in 0 .. m /\ n - 1 # m /\ n \in 0 .. m
        BY <3>2
      <4>2. f[n] = G[n][f[n - 1]]
        BY <2>1, <4>1
      <4> QED
        BY <3>2, <4>1, <4>2
    <3> QED
      BY <3>1, <3>2
  <2> HIDE DEF g
  <2>6. Is(g, m)
    BY <2>4, <2>5
  <2> QED
    BY <2>3, <2>6, SMTT(40)
<1> HIDE DEF Has
<1>3. SUFFICES Bad = {}
  <2> SUFFICES k \in Has
    BY DEF Has
  <2> QED
    BY <1>3
<1>4. SUFFICES ASSUME Bad # {} PROVE FALSE
  OBVIOUS
<1>5. Bad \in SUBSET Nat
  OBVIOUS
<1>6. PICK m \in Bad : \A n \in Bad : m <= n
  BY <1>4, <1>5, LeastIn, Zenon
<1>7. m \in 1 .. k /\ m \notin Has
  BY <1>1, <1>6
<1>8. m - 1 \in Has
  <2>1. m - 1 \in 0 .. k /\ ~(m <= m - 1)
    BY <1>7
  <2> QED
    BY <1>6, <2>1
<1> QED
  BY <1>2, <1>7, <1>8

-----------------------------------------------------------------------------
(* Lists of masks.                                                         *)

(* What a place of a list holds.                                           *)
LEMMA ItemFacts ==
  ASSUME NEW L \in Seq(Item)
  PROVE  /\ Len(L) \in Nat /\ DOMAIN L = 1 .. Len(L)
         /\ \A i \in DOMAIN L : L[i] \in Item /\ L[i].mask \in Mask /\ L[i].by \in User
         /\ Masks(L) \subseteq Mask
<1>1. Len(L) \in Nat /\ DOMAIN L = 1 .. Len(L) /\ \A i \in DOMAIN L : L[i] \in Item
  OBVIOUS
<1>2. \A i \in DOMAIN L : L[i].mask \in Mask /\ L[i].by \in User
  BY <1>1 DEF Item
<1>3. Masks(L) \subseteq Mask
  BY <1>2 DEF Masks
<1> QED
  BY <1>1, <1>2, <1>3

\* R is L without the entries whose masks are not in M.
IsOnly(R, L, M) ==
  /\ R \in Seq(Item) /\ Len(R) <= Len(L) /\ Masks(R) = Masks(L) \cap M
  /\ (\E i \in DOMAIN L : L[i].mask \notin M) => Len(R) < Len(L)
  /\ Clear(L) => Clear(R)

(* What is left keeps the order, so what was clear stays clear.            *)
LEMMA OnlyFacts ==
  ASSUME NEW L \in Seq(Item), NEW M
  PROVE  IsOnly(Only(L, M), L, M)
<1> DEFINE k == Len(L)
           D == 0 .. k
           only[n \in D] == IF n = 0 THEN <<>>
                            ELSE IF L[n].mask \in M THEN Append(only[n - 1], L[n]) ELSE only[n - 1]
           body(f) == [n \in D |-> IF n = 0 THEN <<>>
                            ELSE IF L[n].mask \in M THEN Append(f[n - 1], L[n]) ELSE f[n - 1]]
           G == [n \in 1 .. k |-> [R \in Seq(Item) |-> IF L[n].mask \in M THEN Append(R, L[n]) ELSE R]]
           Part(n) == {R \in Seq(Item) :
                         /\ Len(R) <= n
                         /\ (\E i \in 1 .. n : L[i].mask \notin M) => Len(R) < n
                         /\ \A j \in DOMAIN R : \E i \in 1 .. n : R[j] = L[i] /\ L[i].mask \in M
                         /\ \A i \in 1 .. n : L[i].mask \in M => \E j \in DOMAIN R : R[j] = L[i]
                         /\ Clear(L) => Clear(R)}
           S == [n \in D |-> Part(n)]
<1>0. k \in Nat /\ DOMAIN L = 1 .. k /\ \A i \in 1 .. k : L[i] \in Item
  OBVIOUS
<1>1. only = body(only)
  <2>1. G \in Changes(k, Seq(Item))
    BY <1>0 DEF Changes
  <2>2. <<>> \in Seq(Item)
    OBVIOUS
  <2> HIDE DEF G, k
  <2>3. PICK f \in [D -> Seq(Item)] : f[0] = <<>> /\ \A n \in 1 .. k : f[n] = G[n][f[n - 1]]
    <3>1. Through(k, Seq(Item), <<>>, G)
      BY <1>0, <2>1, <2>2, LineFunction, Zenon
    <3> QED
      BY <3>1 DEF Through
  <2>4. f = body(f)
    <3>1. ASSUME NEW n \in D
          PROVE  f[n] = IF n = 0 THEN <<>>
                        ELSE IF L[n].mask \in M THEN Append(f[n - 1], L[n]) ELSE f[n - 1]
      <4>1. CASE n = 0
        BY <2>3, <4>1
      <4>2. CASE n # 0
        <5>1. n \in 1 .. k /\ n - 1 \in D
          BY <1>0, <4>2
        <5>2. f[n - 1] \in Seq(Item) /\ f[n] = G[n][f[n - 1]]
          BY <2>3, <5>1
        <5> QED
          BY <4>2, <5>1, <5>2 DEF G
      <4> QED
        BY <4>1, <4>2
    <3> QED
      BY <3>1
  <2>5. only = CHOOSE h : h = body(h)
    OBVIOUS
  <2> HIDE DEF only, body
  <2> QED
    BY <2>4, <2>5
<1>2. \A n \in D : only[n] = IF n = 0 THEN <<>>
                             ELSE IF L[n].mask \in M THEN Append(only[n - 1], L[n]) ELSE only[n - 1]
  <2> HIDE DEF only
  <2> QED
    BY <1>1, Zenon
<1> HIDE DEF only, k
<1>3. only[0] \in S[0]
  <2>1. only[0] = <<>>
    BY <1>0, <1>2
  <2>2. <<>> \in Part(0)
    BY DEF Clear
  <2> QED
    BY <1>0, <2>1, <2>2
<1>4. ASSUME NEW n \in 1 .. k, only[n - 1] \in S[n - 1]
      PROVE  only[n] \in S[n]
  <2> DEFINE R == only[n - 1]
             Q == Append(R, L[n])
             m == Len(R)
  <2>1. n \in D /\ n - 1 \in D /\ n # 0 /\ n \in Nat /\ L[n] \in Item
    BY <1>0
  <2>2. R \in Part(n - 1)
    BY <1>4, <2>1
  <2>3. only[n] = IF L[n].mask \in M THEN Q ELSE R
    BY <1>2, <2>1, Zenon
  <2> HIDE DEF S
  <2>4. CASE L[n].mask \notin M
    <3>1. \A i \in 1 .. n : i = n \/ i \in 1 .. n - 1
      BY <2>1
    <3>2. \A i \in 1 .. n - 1 : i \in 1 .. n
      BY <2>1
    <3> HIDE DEF R
    <3>3. R \in Seq(Item) /\ Len(R) \in Nat /\ Len(R) <= n - 1
      BY <2>2
    <3>4. Len(R) <= n /\ Len(R) < n
      BY <2>1, <3>3
    <3>5. R \in Part(n)
      BY <2>1, <2>2, <2>4, <3>1, <3>2, <3>3, <3>4
    <3> HIDE DEF Part
    <3> QED
      BY <2>1, <2>3, <2>4, <3>5 DEF S
  <2>5. CASE L[n].mask \in M
    <3> HIDE DEF R, Q, m
    <3>1. R \in Seq(Item)
      BY <2>2
    <3>2. /\ Q \in Seq(Item) /\ Len(Q) = m + 1 /\ m \in Nat /\ DOMAIN R = 1 .. m
          /\ DOMAIN Q = 1 .. m + 1 /\ Q[m + 1] = L[n] /\ \A j \in 1 .. m : Q[j] = R[j]
      BY <2>1, <3>1 DEF Q, m
    <3>3. m <= n - 1
      BY <2>2 DEF m
    <3>4. ASSUME NEW j \in DOMAIN Q PROVE \E i \in 1 .. n : Q[j] = L[i] /\ L[i].mask \in M
      <4>1. CASE j = m + 1
        BY <2>1, <2>5, <3>2, <4>1
      <4>2. CASE j # m + 1
        <5>1. j \in DOMAIN R /\ Q[j] = R[j]
          BY <3>2, <4>2
        <5>2. PICK i \in 1 .. n - 1 : R[j] = L[i] /\ L[i].mask \in M
          BY <2>2, <5>1
        <5> QED
          BY <2>1, <5>1, <5>2
      <4> QED
        BY <4>1, <4>2
    <3>5. ASSUME NEW i \in 1 .. n, L[i].mask \in M PROVE \E j \in DOMAIN Q : Q[j] = L[i]
      <4>1. CASE i = n
        BY <3>2, <4>1
      <4>2. CASE i # n
        <5>1. i \in 1 .. n - 1
          BY <2>1, <4>2
        <5>2. PICK j \in DOMAIN R : R[j] = L[i]
          BY <2>2, <3>5, <5>1
        <5> QED
          BY <3>2, <5>2
      <4> QED
        BY <4>1, <4>2
    <3>6. ASSUME Clear(L) PROVE Clear(Q)
      <4>1. Clear(R)
        BY <2>2, <3>6
      <4>2. \A j \in DOMAIN R : \E i \in 1 .. n - 1 : R[j] = L[i]
        BY <2>2
      <4>3. ASSUME NEW j \in DOMAIN R
            PROVE  ~Matched(L[n].mask, R[j].mask) /\ ~Matched(R[j].mask, L[n].mask)
        <5>1. PICK i \in 1 .. n - 1 : R[j] = L[i]
          BY <4>2
        <5>2. i \in DOMAIN L /\ n \in DOMAIN L /\ i # n
          BY <1>0, <2>1
        <5> QED
          BY <3>6, <5>1, <5>2 DEF Clear
      <4>4. ASSUME NEW i \in DOMAIN Q, NEW j \in DOMAIN Q, Matched(Q[i].mask, Q[j].mask)
            PROVE  i = j
        <5>1. (i = m + 1 \/ i \in DOMAIN R) /\ (j = m + 1 \/ j \in DOMAIN R)
          BY <3>2
        <5>2. CASE i \in DOMAIN R /\ j \in DOMAIN R
          BY <3>2, <4>1, <4>4, <5>2 DEF Clear
        <5>3. CASE i = m + 1 /\ j \in DOMAIN R
          BY <3>2, <4>3, <4>4, <5>3
        <5>4. CASE i \in DOMAIN R /\ j = m + 1
          BY <3>2, <4>3, <4>4, <5>4
        <5> QED
          BY <5>1, <5>2, <5>3, <5>4
      <4> QED
        BY <4>4 DEF Clear
    <3>7. Len(Q) <= n
      BY <2>1, <3>2, <3>3
    <3>8. ASSUME NEW i \in 1 .. n, L[i].mask \notin M PROVE Len(Q) < n
      <4>1. i \in 1 .. n - 1
        BY <2>1, <2>5, <3>8
      <4>2. m < n - 1
        BY <2>2, <3>8, <4>1 DEF m
      <4> QED
        BY <2>1, <3>2, <4>2
    <3>9. Q \in Part(n)
      BY <3>2, <3>4, <3>5, <3>6, <3>7, <3>8
    <3> HIDE DEF Part
    <3> QED
      BY <2>1, <2>3, <2>5, <3>9 DEF S
  <2> QED
    BY <2>4, <2>5
<1> HIDE DEF S
<1>5. only[k] \in S[k]
  <2>1. \A n \in 0 .. k : only[n] \in S[n]
    BY <1>0, <1>3, <1>4, AlongLine
  <2> QED
    BY <1>0, <2>1
<1> DEFINE R == only[k]
<1>6. R \in Part(k)
  BY <1>0, <1>5 DEF S
<1>7. Only(L, M) = R
  BY DEF Only, only, k
<1> HIDE DEF R
<1>8. Masks(R) = Masks(L) \cap M
  <2>1. /\ \A j \in DOMAIN R : \E i \in DOMAIN L : R[j] = L[i] /\ L[i].mask \in M
        /\ \A i \in DOMAIN L : L[i].mask \in M => \E j \in DOMAIN R : R[j] = L[i]
    BY <1>0, <1>6
  <2> QED
    BY <2>1 DEF Masks
<1>9. R \in Seq(Item) /\ Len(R) <= k /\ (Clear(L) => Clear(R))
  BY <1>6
<1>10. (\E i \in DOMAIN L : L[i].mask \notin M) => Len(R) < k
  BY <1>0, <1>6
<1> QED
  BY <1>7, <1>8, <1>9, <1>10 DEF IsOnly, k

(* The entry comes to its place, and everything behind it moves on.        *)
LEMMA InsertFacts ==
  ASSUME NEW L \in Seq(Item), NEW x \in Item, NEW p \in 1 .. Len(L) + 1
  PROVE  LET R == InsertAt(L, p, x)
         IN  /\ R \in Seq(Item) /\ Len(R) = Len(L) + 1
             /\ \A j \in 1 .. Len(L) + 1 :
                  R[j] = IF j < p THEN L[j] ELSE IF j = p THEN x ELSE L[j - 1]
<1> DEFINE k == Len(L)
           a == SubSeq(L, 1, p - 1)
           b == SubSeq(L, p, k)
           R == InsertAt(L, p, x)
<1>0. k \in Nat /\ p \in Int /\ 1 <= p /\ p <= k + 1 /\ \A i \in 1 .. k : L[i] \in Item
  OBVIOUS
<1> HIDE DEF k
<1>1. /\ a \in Seq(Item) /\ Len(a) = p - 1 /\ \A i \in 1 .. p - 1 : a[i] = L[i]
  <2>1. /\ a \in Seq(Item) /\ Len(a) = IF 1 <= p - 1 THEN (p - 1) - 1 + 1 ELSE 0
        /\ \A i \in 1 .. (p - 1) - 1 + 1 : a[i] = L[1 + i - 1]
    <3>1. p - 1 \in Int /\ \A i \in 1 .. p - 1 : L[i] \in Item
      BY <1>0
    <3> QED
      BY <3>1, SubSeqProperties
  <2> QED
    BY <1>0, <2>1
<1>2. /\ b \in Seq(Item) /\ Len(b) = k - p + 1 /\ \A i \in 1 .. k - p + 1 : b[i] = L[p + i - 1]
  <2>1. /\ b \in Seq(Item) /\ Len(b) = IF p <= k THEN k - p + 1 ELSE 0
        /\ \A i \in 1 .. k - p + 1 : b[i] = L[p + i - 1]
    <3>1. \A i \in p .. k : L[i] \in Item
      BY <1>0
    <3> QED
      BY <1>0, <3>1, SubSeqProperties
  <2> QED
    BY <1>0, <2>1
<1>3. R = a \o <<x>> \o b
  BY DEF InsertAt, k
<1> HIDE DEF a, b, R
<1>4. /\ a \o <<x>> \in Seq(Item) /\ Len(a \o <<x>>) = p
      /\ \A j \in 1 .. p : (a \o <<x>>)[j] = IF j < p THEN L[j] ELSE x
  <2>1. <<x>> \in Seq(Item) /\ Len(<<x>>) = 1 /\ <<x>>[1] = x
    OBVIOUS
  <2>2. /\ a \o <<x>> \in Seq(Item) /\ Len(a \o <<x>>) = Len(a) + Len(<<x>>)
        /\ \A i \in 1 .. Len(a) + Len(<<x>>) :
             (a \o <<x>>)[i] = IF i <= Len(a) THEN a[i] ELSE <<x>>[i - Len(a)]
    BY <1>1, <2>1, ConcatProperties, Zenon
  <2>3. \A j \in 1 .. p : j < p \/ (j = p /\ j - Len(a) = 1)
    BY <1>0, <1>1
  <2> QED
    BY <1>0, <1>1, <2>1, <2>2, <2>3
<1> DEFINE c == a \o <<x>>
<1> HIDE DEF c
<1>5. /\ c \o b \in Seq(Item) /\ Len(c \o b) = Len(c) + Len(b)
      /\ \A i \in 1 .. Len(c) + Len(b) :
           (c \o b)[i] = IF i <= Len(c) THEN c[i] ELSE b[i - Len(c)]
  <2>1. c \in Seq(Item) /\ b \in Seq(Item)
    BY <1>2, <1>4 DEF c
  <2> QED
    BY <2>1, ConcatProperties, Zenon
<1>6. /\ R = c \o b /\ Len(c) = p /\ Len(b) = k - p + 1
      /\ \A j \in 1 .. p : c[j] = IF j < p THEN L[j] ELSE x
  BY <1>2, <1>3, <1>4 DEF c
<1>7. R \in Seq(Item) /\ Len(R) = k + 1
  BY <1>0, <1>5, <1>6
<1>8. ASSUME NEW j \in 1 .. k + 1
      PROVE  R[j] = IF j < p THEN L[j] ELSE IF j = p THEN x ELSE L[j - 1]
  <2>1. R[j] = IF j <= p THEN c[j] ELSE b[j - p]
    BY <1>0, <1>5, <1>6
  <2>2. CASE j <= p
    BY <1>0, <1>6, <2>1, <2>2
  <2>3. CASE j > p
    <3>1. j - p \in 1 .. k - p + 1 /\ p + (j - p) - 1 = j - 1
      BY <1>0, <2>3
    <3>2. b[j - p] = L[j - 1]
      BY <1>2, <3>1
    <3> QED
      BY <1>0, <2>1, <2>3, <3>2
  <2> QED
    BY <1>0, <2>2, <2>3
<1> QED
  BY <1>7, <1>8 DEF R, k

\* R is L with item x somewhere in it.
IsWith(R, L, x) ==
  /\ R \in Seq(Item) /\ Len(R) = Len(L) + 1 /\ Masks(R) = Masks(L) \cup {x.mask}
  /\ Clear(L) /\ (\A m \in Masks(L) : ~Matched(m, x.mask) /\ ~Matched(x.mask, m)) => Clear(R)

(* An entry whose mask matches none and is matched by none may come in     *)
(* anywhere (chanmode_mask_add).                                           *)
LEMMA InsertItemFacts ==
  ASSUME NEW L \in Seq(Item), NEW x \in Item
  PROVE  IsWith(InsertItem(L, x), L, x)
<1> DEFINE k == Len(L)
           ends == {i \in DOMAIN L : L[i].by = x.by /\ (i < Len(L) => L[i + 1].by # x.by)}
           p == IF ends = {} THEN Len(L) + 1 ELSE Min(ends) + 1
           R == InsertItem(L, x)
           old(j) == IF j < p THEN j ELSE j - 1
<1>0. k \in Nat /\ DOMAIN L = 1 .. k /\ \A i \in 1 .. k : L[i] \in Item
  OBVIOUS
<1>1. p \in 1 .. k + 1
  <2>1. CASE ends = {}
    BY <1>0, <2>1
  <2>2. CASE ends # {}
    <3>1. ends \in SUBSET Nat /\ \A i \in ends : i \in 1 .. k
      BY <1>0
    <3> HIDE DEF ends
    <3>2. Min(ends) \in ends
      BY <2>2, <3>1, LeastIn DEF Min
    <3>3. Min(ends) \in 1 .. k
      BY <3>1, <3>2
    <3>4. p = Min(ends) + 1
      BY <2>2
    <3> HIDE DEF p
    <3> QED
      BY <1>0, <3>3, <3>4
  <2> QED
    BY <2>1, <2>2
<1>2. R = InsertAt(L, p, x)
  BY DEF InsertItem
<1> HIDE DEF p, R
<1>3. /\ R \in Seq(Item) /\ Len(R) = k + 1
      /\ \A j \in 1 .. k + 1 :
           R[j] = IF j < p THEN L[j] ELSE IF j = p THEN x ELSE L[j - 1]
  BY <1>1, <1>2, InsertFacts, SMTT(40)
<1> HIDE DEF k
<1>4. DOMAIN R = 1 .. k + 1 /\ p \in DOMAIN R /\ R[p] = x
  BY <1>0, <1>1, <1>3
<1>5. \A j \in DOMAIN R : j # p => old(j) \in DOMAIN L /\ R[j] = L[old(j)]
  BY <1>0, <1>1, <1>3, <1>4
<1>6. \A i \in DOMAIN R, j \in DOMAIN R : i # p /\ j # p /\ old(i) = old(j) => i = j
  BY <1>0, <1>1, <1>4
<1>7. \A i \in DOMAIN L : \E j \in DOMAIN R : R[j] = L[i]
  <2> SUFFICES ASSUME NEW i \in DOMAIN L PROVE \E j \in DOMAIN R : R[j] = L[i]
    OBVIOUS
  <2>1. CASE i < p
    <3>1. i \in DOMAIN R /\ R[i] = L[i]
      BY <1>0, <1>1, <1>3, <1>4, <2>1
    <3> QED
      BY <3>1
  <2>2. CASE ~(i < p)
    <3>1. i + 1 \in DOMAIN R /\ (i + 1) - 1 = i /\ ~(i + 1 < p) /\ i + 1 # p
      BY <1>0, <1>1, <1>4, <2>2
    <3>2. R[i + 1] = L[i]
      BY <1>3, <1>4, <3>1
    <3> QED
      BY <3>1, <3>2
  <2> QED
    BY <2>1, <2>2
<1> HIDE DEF old
<1>8. Masks(R) = Masks(L) \cup {x.mask}
  BY <1>4, <1>5, <1>7 DEF Masks
<1>9. ASSUME Clear(L), \A m \in Masks(L) : ~Matched(m, x.mask) /\ ~Matched(x.mask, m)
      PROVE  Clear(R)
  <2> SUFFICES ASSUME NEW i \in DOMAIN R, NEW j \in DOMAIN R, Matched(R[i].mask, R[j].mask)
               PROVE  i = j
    BY DEF Clear
  <2>1. \A n \in DOMAIN R : n # p => R[n].mask \in Masks(L)
    BY <1>5 DEF Masks
  <2>2. CASE i # p /\ j # p
    <3>1. old(i) \in DOMAIN L /\ old(j) \in DOMAIN L /\ Matched(L[old(i)].mask, L[old(j)].mask)
      BY <1>5, <2>2
    <3>2. old(i) = old(j)
      BY <1>9, <3>1 DEF Clear
    <3> QED
      BY <1>6, <2>2, <3>2
  <2>3. CASE i = p /\ j # p
    BY <1>4, <1>9, <2>1, <2>3
  <2>4. CASE i # p /\ j = p
    BY <1>4, <1>9, <2>1, <2>4
  <2> QED
    BY <2>2, <2>3, <2>4
<1> QED
  BY <1>3, <1>8, <1>9 DEF IsWith, k, R

-----------------------------------------------------------------------------
(* What members make of what they are told.                                *)

After1(V, c) == IF c.what = "+" THEN V \cup {c.mask} ELSE V \ {c.mask}

(* They go through the changes one by one.                                 *)
LEMMA SeenFacts ==
  ASSUME NEW V \in SUBSET Mask, NEW C \in Seq(Change)
  PROVE  \E f \in [0 .. Len(C) -> SUBSET Mask] :
           /\ f[0] = V /\ \A n \in 1 .. Len(C) : f[n] = After1(f[n - 1], C[n])
           /\ Seen(V, C) = f[Len(C)]
<1> DEFINE k == Len(C)
           D == 0 .. k
           seen[n \in D] == IF n = 0 THEN V
                            ELSE IF C[n].what = "+" THEN seen[n - 1] \cup {C[n].mask}
                            ELSE seen[n - 1] \ {C[n].mask}
           body(f) == [n \in D |-> IF n = 0 THEN V
                            ELSE IF C[n].what = "+" THEN f[n - 1] \cup {C[n].mask}
                            ELSE f[n - 1] \ {C[n].mask}]
           G == [n \in 1 .. k |-> [W \in SUBSET Mask |-> After1(W, C[n])]]
<1>0. k \in Nat /\ \A i \in 1 .. k : C[i] \in Change
  OBVIOUS
<1>1. G \in Changes(k, SUBSET Mask)
  <2>1. \A n \in 1 .. k, W \in SUBSET Mask : After1(W, C[n]) \in SUBSET Mask
    BY <1>0 DEF After1, Change
  <2> QED
    BY <2>1 DEF Changes
<1>2. Seen(V, C) = seen[k]
  BY DEF Seen
<1>3. seen = CHOOSE h : h = body(h)
  OBVIOUS
<1> HIDE DEF G, k, seen
<1>4. PICK f \in [D -> SUBSET Mask] : f[0] = V /\ \A n \in 1 .. k : f[n] = G[n][f[n - 1]]
  <2>1. k \in Nat
    BY <1>0
  <2>2. Through(k, SUBSET Mask, V, G)
    BY <1>1, <2>1, LineFunction, Zenon
  <2> QED
    BY <2>2 DEF Through
<1>5. \A n \in 1 .. k : f[n] = After1(f[n - 1], C[n])
  <2> SUFFICES ASSUME NEW n \in 1 .. k PROVE f[n] = After1(f[n - 1], C[n])
    OBVIOUS
  <2>1. n - 1 \in D
    BY <1>0
  <2> QED
    BY <1>4, <2>1 DEF G
<1>6. f = body(f)
  <2>1. ASSUME NEW n \in D
        PROVE  f[n] = IF n = 0 THEN V
                      ELSE IF C[n].what = "+" THEN f[n - 1] \cup {C[n].mask}
                      ELSE f[n - 1] \ {C[n].mask}
    <3>1. n = 0 \/ n \in 1 .. k
      BY <1>0
    <3> QED
      BY <1>4, <1>5, <3>1 DEF After1
  <2> QED
    BY <2>1
<1>7. seen = body(seen)
  <2> HIDE DEF body
  <2> QED
    BY <1>3, <1>6
<1>8. seen \in [D -> SUBSET Mask] /\ seen[0] = V /\ \A n \in 1 .. k : seen[n] = After1(seen[n - 1], C[n])
  <2>1. \A n \in D : seen[n] = IF n = 0 THEN V
                               ELSE IF C[n].what = "+" THEN seen[n - 1] \cup {C[n].mask}
                               ELSE seen[n - 1] \ {C[n].mask}
    BY <1>7, Zenon
  <2>2. seen[0] = V
    <3>1. 0 \in D
      BY <1>0
    <3> QED
      BY <2>1, <3>1
  <2>3. \A n \in 1 .. k : n \in D /\ n # 0
    BY <1>0
  <2>4. \A n \in 1 .. k : seen[n] = After1(seen[n - 1], C[n])
    BY <2>1, <2>3 DEF After1
  <2> DEFINE S == [n \in D |-> SUBSET Mask]
  <2>5. \A n \in 1 .. k : seen[n - 1] \in S[n - 1] => seen[n] \in S[n]
    <3> SUFFICES ASSUME NEW n \in 1 .. k, seen[n - 1] \in S[n - 1] PROVE seen[n] \in S[n]
      OBVIOUS
    <3>1. n - 1 \in D /\ n \in D /\ C[n] \in Change
      BY <1>0
    <3>2. seen[n - 1] \in SUBSET Mask
      BY <3>1
    <3>3. After1(seen[n - 1], C[n]) \in SUBSET Mask
      BY <3>1, <3>2 DEF After1, Change
    <3> QED
      BY <2>4, <3>1, <3>3
  <2>6. seen[0] \in S[0]
    BY <1>0, <2>2
  <2> HIDE DEF S
  <2>7. \A n \in D : seen[n] \in S[n]
    BY <1>0, <2>5, <2>6, AlongLine
  <2>8. seen = [n \in D |-> seen[n]]
    BY <1>7
  <2>9. \A n \in D : seen[n] \in SUBSET Mask
    BY <2>7 DEF S
  <2> QED
    BY <2>2, <2>4, <2>8, <2>9
<1> QED
  BY <1>2, <1>8 DEF k

(* A change more is seen last.                                             *)
LEMMA SeenAppend ==
  ASSUME NEW V \in SUBSET Mask, NEW C \in Seq(Change), NEW c \in Change
  PROVE  Seen(V, Append(C, c)) = After1(Seen(V, C), c)
<1> DEFINE k == Len(C)
           E == Append(C, c)
<1>0. /\ k \in Nat /\ E \in Seq(Change) /\ Len(E) = k + 1 /\ E[k + 1] = c
      /\ \A n \in 1 .. k : E[n] = C[n]
  OBVIOUS
<1>1. PICK f \in [0 .. k -> SUBSET Mask] :
        /\ f[0] = V /\ \A n \in 1 .. k : f[n] = After1(f[n - 1], C[n])
        /\ Seen(V, C) = f[k]
  BY SeenFacts
<1> HIDE DEF k, E
<1>2. PICK h \in [0 .. Len(E) -> SUBSET Mask] :
        /\ h[0] = V /\ \A n \in 1 .. Len(E) : h[n] = After1(h[n - 1], E[n])
        /\ Seen(V, E) = h[Len(E)]
  BY <1>0, SeenFacts
<1> DEFINE S == [n \in 0 .. k |-> {f[n]}]
<1>3. h[0] \in S[0]
  BY <1>0, <1>1, <1>2
<1>4. \A n \in 1 .. k : h[n - 1] \in S[n - 1] => h[n] \in S[n]
  <2> SUFFICES ASSUME NEW n \in 1 .. k, h[n - 1] \in S[n - 1] PROVE h[n] \in S[n]
    OBVIOUS
  <2>1. n - 1 \in 0 .. k /\ n \in 0 .. k /\ n \in 1 .. Len(E)
    BY <1>0
  <2>2. h[n - 1] = f[n - 1]
    BY <2>1
  <2>3. h[n] = f[n]
    BY <1>0, <1>1, <1>2, <2>1, <2>2
  <2> QED
    BY <2>1, <2>3
<1> HIDE DEF S
<1>5. h[k] = f[k]
  <2>1. k \in Nat /\ k \in 0 .. k
    BY <1>0
  <2>2. \A n \in 0 .. k : h[n] \in S[n]
    BY <1>3, <1>4, <2>1, AlongLine, Zenon
  <2> QED
    BY <2>1, <2>2 DEF S
<1>6. k + 1 \in 1 .. Len(E) /\ (k + 1) - 1 = k
  BY <1>0
<1>7. h[k + 1] = After1(h[k], c)
  BY <1>0, <1>2, <1>6
<1> QED
  BY <1>0, <1>1, <1>2, <1>5, <1>7 DEF E

(* Nothing but removals: what was named goes.                              *)
LEMMA SeenMinus ==
  ASSUME NEW V \in SUBSET Mask, NEW C \in Seq(Change), NEW D \in Seq(Change),
         \A i \in DOMAIN D : D[i].what = "-"
  PROVE  /\ C \o D \in Seq(Change)
         /\ Seen(V, C \o D) = Seen(V, C) \ {D[i].mask : i \in DOMAIN D}
<1> DEFINE k == Len(C)
           d == Len(D)
           E == C \o D
<1>0. /\ k \in Nat /\ d \in Nat /\ E \in Seq(Change) /\ Len(E) = k + d /\ DOMAIN D = 1 .. d
      /\ \A n \in 1 .. k + d : E[n] = IF n <= k THEN C[n] ELSE D[n - k]
  <2>1. /\ E \in Seq(Change) /\ Len(E) = k + d
        /\ \A n \in 1 .. k + d : E[n] = IF n <= k THEN C[n] ELSE D[n - k]
    BY ConcatProperties, Zenon
  <2> QED
    BY <2>1
<1>1. PICK f \in [0 .. k -> SUBSET Mask] :
        /\ f[0] = V /\ \A n \in 1 .. k : f[n] = After1(f[n - 1], C[n])
        /\ Seen(V, C) = f[k]
  BY SeenFacts
<1> HIDE DEF k, d, E
<1>2. PICK h \in [0 .. k + d -> SUBSET Mask] :
        /\ h[0] = V /\ \A n \in 1 .. k + d : h[n] = After1(h[n - 1], E[n])
        /\ Seen(V, E) = h[k + d]
  <2>1. \E h \in [0 .. Len(E) -> SUBSET Mask] :
          /\ h[0] = V /\ \A n \in 1 .. Len(E) : h[n] = After1(h[n - 1], E[n])
          /\ Seen(V, E) = h[Len(E)]
    BY <1>0, SeenFacts
  <2> QED
    BY <1>0, <2>1
<1> DEFINE S == [n \in 0 .. k |-> {f[n]}]
<1>3. h[0] \in S[0]
  BY <1>0, <1>1, <1>2
<1>4. \A n \in 1 .. k : h[n - 1] \in S[n - 1] => h[n] \in S[n]
  <2> SUFFICES ASSUME NEW n \in 1 .. k, h[n - 1] \in S[n - 1] PROVE h[n] \in S[n]
    OBVIOUS
  <2>1. n - 1 \in 0 .. k /\ n \in 0 .. k /\ n \in 1 .. k + d /\ n <= k
    BY <1>0
  <2>2. h[n - 1] = f[n - 1]
    BY <2>1
  <2>3. h[n] = f[n]
    BY <1>0, <1>1, <1>2, <2>1, <2>2
  <2> QED
    BY <2>1, <2>3
<1> HIDE DEF S
<1>5. h[k] = f[k]
  <2>1. k \in Nat /\ k \in 0 .. k
    BY <1>0
  <2>2. \A n \in 0 .. k : h[n] \in S[n]
    BY <1>3, <1>4, <2>1, AlongLine, Zenon
  <2> QED
    BY <2>1, <2>2 DEF S
<1> DEFINE g == [n \in 0 .. d |-> h[k + n]]
           T == [n \in 0 .. d |-> {f[k] \ {D[i].mask : i \in 1 .. n}}]
<1>6. g[0] \in T[0]
  <2>1. g[0] = f[k]
    BY <1>0, <1>5
  <2>2. T[0] = {f[k]}
    <3>1. {D[i].mask : i \in 1 .. 0} = {}
      OBVIOUS
    <3>2. 0 \in 0 .. d
      BY <1>0
    <3> QED
      BY <3>1, <3>2
  <2> QED
    BY <2>1, <2>2
<1>7. \A n \in 1 .. d : g[n - 1] \in T[n - 1] => g[n] \in T[n]
  <2> SUFFICES ASSUME NEW n \in 1 .. d, g[n - 1] \in T[n - 1] PROVE g[n] \in T[n]
    OBVIOUS
  <2>1. /\ n - 1 \in 0 .. d /\ n \in 0 .. d /\ k + n \in 1 .. k + d /\ ~(k + n <= k)
        /\ (k + n) - k = n /\ (k + n) - 1 = k + (n - 1)
    BY <1>0
  <2>2. g[n - 1] = f[k] \ {D[i].mask : i \in 1 .. n - 1}
    BY <2>1
  <2>3. g[n - 1] = h[k + (n - 1)] /\ g[n] = h[k + n]
    BY <2>1
  <2>4. h[k + n] = After1(h[k + (n - 1)], D[n]) /\ D[n].what = "-"
    BY <1>0, <1>2, <2>1
  <2>5. g[n] = g[n - 1] \ {D[n].mask}
    BY <2>3, <2>4 DEF After1
  <2>6. \A i : i \in 1 .. n <=> i = n \/ i \in 1 .. n - 1
    BY <2>1
  <2> HIDE DEF g
  <2>7. g[n] = f[k] \ {D[i].mask : i \in 1 .. n}
    BY <2>2, <2>5, <2>6
  <2> QED
    BY <2>1, <2>7
<1> HIDE DEF g, T
<1>8. g[d] \in T[d] /\ d \in 0 .. d
  <2>1. \A n \in 0 .. d : g[n] \in T[n]
    BY <1>0, <1>6, <1>7, AlongLine
  <2> QED
    BY <1>0, <2>1
<1>9. h[k + d] = f[k] \ {D[i].mask : i \in DOMAIN D}
  BY <1>0, <1>8 DEF g, T
<1> QED
  BY <1>0, <1>1, <1>2, <1>9 DEF E

-----------------------------------------------------------------------------
(* One change of a line.                                                   *)

(* A state of a run has three fields.                                      *)
LEMMA StateFacts ==
  ASSUME NEW st \in RunState
  PROVE  /\ st.list \in Seq(Item) /\ st.told \in Seq(Change) /\ st.lost \subseteq {"full"}
         /\ st = [list |-> st.list, told |-> st.told, lost |-> st.lost]
         /\ \A L, T : [st EXCEPT !.list = L, !.told = T] = [list |-> L, told |-> T, lost |-> st.lost]
         /\ \A X : [st EXCEPT !.lost = X] = [list |-> st.list, told |-> st.told, lost |-> X]
<1>1. st = [list |-> st.list, told |-> st.told, lost |-> st.lost]
  BY DEF RunState
<1>2. st.list \in Seq(Item) /\ st.told \in Seq(Change) /\ st.lost \subseteq {"full"}
  BY DEF RunState
<1>3. \A L, T : [st EXCEPT !.list = L, !.told = T] = [list |-> L, told |-> T, lost |-> st.lost]
  <2> TAKE L, T
  <2>1. [st EXCEPT !.list = L] = [list |-> L, told |-> st.told, lost |-> st.lost]
    BY DEF RunState
  <2> DEFINE w == [st EXCEPT !.list = L]
  <2>2. w = [list |-> L, told |-> st.told, lost |-> st.lost]
    BY <2>1
  <2> HIDE DEF w
  <2>3. [w EXCEPT !.told = T] = [list |-> L, told |-> T, lost |-> st.lost]
    BY <2>2
  <2> QED
    BY <2>3 DEF w
<1>4. \A X : [st EXCEPT !.lost = X] = [list |-> st.list, told |-> st.told, lost |-> X]
  BY DEF RunState
<1> QED
  BY <1>1, <1>2, <1>3, <1>4

\* Masks gone are dropped, by w.
Dropped(V, st, w, gone) ==
  /\ Sound(V, w) /\ Masks(w.list) = Masks(st.list) \ gone
  /\ Masks(st.list) \cap gone # {} => Len(w.list) < Len(st.list)

(* Masks go from the list, and members are told of each.                   *)
LEMMA DropSound ==
  ASSUME NEW V \in SUBSET Mask, NEW st, Sound(V, st), NEW gone, NEW u \in User
  PROVE  Dropped(V, st, Drop(st, gone, u), gone)
<1> DEFINE L == Only(st.list, Masks(st.list) \ gone)
           drops == Only(st.list, gone)
           D == [i \in DOMAIN drops |-> Minus(drops[i].mask, u)]
           z == Drop(st, gone, u)
<1>0. /\ st \in RunState /\ Len(st.list) <= MaxBans /\ Clear(st.list)
      /\ Seen(V, st.told) = Masks(st.list) /\ st.list \in Seq(Item) /\ st.told \in Seq(Change)
      /\ st.lost \subseteq {"full"}
  BY StateFacts DEF Sound
<1>1. z = [list |-> L, told |-> st.told \o D, lost |-> st.lost]
  <2>1. z = [st EXCEPT !.list = L, !.told = st.told \o D]
    BY DEF Drop
  <2> HIDE DEF L, D, z
  <2> QED
    BY <1>0, <2>1, StateFacts
<1>2. IsOnly(L, st.list, Masks(st.list) \ gone) /\ IsOnly(drops, st.list, gone)
  BY <1>0, OnlyFacts
<1> HIDE DEF L, drops, z
<1>3. /\ L \in Seq(Item) /\ Len(L) <= Len(st.list) /\ Masks(L) = Masks(st.list) \ gone
      /\ Clear(L) /\ drops \in Seq(Item) /\ Masks(drops) = Masks(st.list) \cap gone
      /\ Len(L) \in Nat /\ Len(st.list) \in Nat
  BY <1>0, <1>2 DEF IsOnly
<1>4. D \in Seq(Change) /\ DOMAIN D = DOMAIN drops
  <2>1. Len(drops) \in Nat /\ DOMAIN drops = 1 .. Len(drops)
    BY <1>3
  <2>2. \A i \in DOMAIN drops : Minus(drops[i].mask, u) \in Change
    BY <1>3, ItemFacts DEF Minus, Change
  <2>3. D \in [1 .. Len(drops) -> Change]
    BY <2>1, <2>2
  <2> QED
    BY <2>1, <2>3, SeqDef
<1>5. \A i \in DOMAIN D : D[i].what = "-" /\ D[i].mask = drops[i].mask
  BY DEF Minus
<1>6. {D[i].mask : i \in DOMAIN D} = Masks(drops)
  BY <1>4, <1>5 DEF Masks
<1> HIDE DEF D
<1>7. /\ st.told \o D \in Seq(Change)
      /\ Seen(V, st.told \o D) = Masks(L)
  <2>1. /\ st.told \o D \in Seq(Change)
        /\ Seen(V, st.told \o D) = Seen(V, st.told) \ {D[i].mask : i \in DOMAIN D}
    BY <1>0, <1>4, <1>5, SeenMinus
  <2> QED
    BY <1>0, <1>3, <1>6, <2>1
<1>8. MaxBans \in Nat
  BY MaskAssumption DEF MaskAssumption
<1> DEFINE T == st.told \o D
<1> HIDE DEF T
<1>9. z \in RunState /\ z.list = L /\ z.told = T
  <2>1. T \in Seq(Change) /\ z = [list |-> L, told |-> T, lost |-> st.lost]
    BY <1>1, <1>7 DEF T
  <2> QED
    BY <1>0, <1>3, <2>1 DEF RunState
<1>11. Seen(V, T) = Masks(L)
  BY <1>7 DEF T
<1>12. ASSUME Masks(st.list) \cap gone # {}
       PROVE  Len(z.list) < Len(st.list)
  <2>1. \E i \in DOMAIN st.list : st.list[i].mask \notin Masks(st.list) \ gone
    BY <1>12 DEF Masks
  <2> QED
    BY <1>2, <1>9, <2>1 DEF IsOnly
<1>10. Sound(V, z) /\ Masks(z.list) = Masks(st.list) \ gone
  <2>1. Len(L) <= MaxBans
    BY <1>0, <1>3, <1>8
  <2>2. Masks(z.list) = Masks(st.list) \ gone
    BY <1>3, <1>9
  <2>3. Sound(V, z)
    BY <1>3, <1>9, <1>11, <2>1 DEF Sound
  <2> QED
    BY <2>2, <2>3
<1> QED
  BY <1>10, <1>12 DEF z, Dropped

(* A mask comes in that matches none and that none matches.                *)
LEMMA PutSound ==
  ASSUME NEW V \in SUBSET Mask, NEW st, Sound(V, st), NEW c \in Change, c.what = "+",
         Len(st.list) # MaxBans,
         \A m \in Masks(st.list) : ~Matched(m, c.mask) /\ ~Matched(c.mask, m)
  PROVE  Sound(V, Put(st, c))
<1> DEFINE x == [mask |-> c.mask, by |-> c.by]
           L == InsertItem(st.list, x)
           T == Append(st.told, c)
           z == Put(st, c)
<1>0. /\ st \in RunState /\ Len(st.list) <= MaxBans /\ Clear(st.list)
      /\ Seen(V, st.told) = Masks(st.list) /\ st.list \in Seq(Item) /\ st.told \in Seq(Change)
      /\ st.lost \subseteq {"full"} /\ Len(st.list) \in Nat /\ MaxBans \in Nat
  <2>1. MaxBans \in Nat
    BY MaskAssumption DEF MaskAssumption
  <2>2. st \in RunState
    BY DEF Sound
  <2>3. st.list \in Seq(Item) /\ st.told \in Seq(Change) /\ st.lost \subseteq {"full"}
    BY <2>2, StateFacts, Zenon
  <2> QED
    BY <2>1, <2>2, <2>3 DEF Sound
<1>1. z = [list |-> L, told |-> T, lost |-> st.lost]
  <2>1. z = [st EXCEPT !.list = L, !.told = T]
    BY DEF Put
  <2> HIDE DEF L, T, z
  <2> QED
    BY <1>0, <2>1, StateFacts
<1>2. x \in Item /\ x.mask = c.mask
  BY DEF Item, Change
<1> HIDE DEF x
<1>3. IsWith(L, st.list, x)
  BY <1>0, <1>2, InsertItemFacts
<1> HIDE DEF L
<1>4. /\ L \in Seq(Item) /\ Len(L) <= MaxBans /\ Masks(L) = Masks(st.list) \cup {c.mask} /\ Clear(L)
  BY <1>0, <1>2, <1>3 DEF IsWith
<1>5. T \in Seq(Change) /\ Seen(V, T) = Masks(st.list) \cup {c.mask}
  BY <1>0, SeenAppend DEF After1
<1> HIDE DEF T, z
<1>6. z \in RunState /\ z.list = L /\ z.told = T
  BY <1>0, <1>1, <1>4, <1>5 DEF RunState
<1>7. Sound(V, z)
  BY <1>4, <1>5, <1>6 DEF Sound
<1> QED
  BY <1>7 DEF z

(* chanmode_bounce_mask: whether the mask is refused, finds no room, or    *)
(* comes in where masks it matches went.                                   *)
LEMMA AddSound ==
  ASSUME NEW V \in SUBSET Mask, NEW st, Sound(V, st), NEW c \in Change, c.what = "+"
  PROVE  Sound(V, AddMask(st, c))
<1> DEFINE over == {i \in DOMAIN st.list : Matched(c.mask, st.list[i].mask)}
           gone == Covered(st.list, c.mask)
           w == Drop(st, gone, c.by)
<1>0. st.list \in Seq(Item) /\ c.by \in User
  BY StateFacts DEF Sound, Change
<1>1. Sound(V, w) /\ Masks(w.list) = Masks(st.list) \ gone
  <2>1. \A M : Dropped(V, st, Drop(st, M, c.by), M)
    BY <1>0, DropSound, Zenon
  <2> QED
    BY <2>1 DEF Dropped
<1>2. AddMask(st, c) = IF \E n \in Masks(st.list) : Matched(c.mask, n) THEN w
                       ELSE IF Len(w.list) = MaxBans THEN [w EXCEPT !.lost = st.lost \cup {"full"}]
                       ELSE Put(w, c)
  BY DEF AddMask
<1>3. ASSUME ~ \E n \in Masks(st.list) : Matched(c.mask, n)
      PROVE  \A m \in Masks(st.list) \ gone : ~Matched(m, c.mask) /\ ~Matched(c.mask, m)
  <2>1. over = {}
    BY <1>3 DEF Masks
  <2>2. gone = {st.list[i].mask : i \in {j \in 1 .. Len(st.list) + 1 - 1 : Matched(st.list[j].mask, c.mask)}}
    BY <2>1 DEF Covered
  <2>3. \A i \in DOMAIN st.list : i \in 1 .. Len(st.list) + 1 - 1
    BY <1>0
  <2>4. \A i \in DOMAIN st.list : Matched(st.list[i].mask, c.mask) => st.list[i].mask \in gone
    BY <2>2, <2>3
  <2> HIDE DEF gone
  <2> QED
    BY <1>3, <2>4 DEF Masks
<1> HIDE DEF w, gone
<1>4. CASE \E n \in Masks(st.list) : Matched(c.mask, n)
  BY <1>1, <1>2, <1>4
<1>5. CASE (~ \E n \in Masks(st.list) : Matched(c.mask, n)) /\ Len(w.list) = MaxBans
  <2> DEFINE z == [w EXCEPT !.lost = st.lost \cup {"full"}]
  <2>1. w \in RunState /\ st \in RunState
    BY <1>1 DEF Sound
  <2>2. z = [list |-> w.list, told |-> w.told, lost |-> st.lost \cup {"full"}]
    BY <2>1, StateFacts
  <2>3. z \in RunState /\ z.list = w.list /\ z.told = w.told
    BY <2>1, <2>2, StateFacts DEF RunState
  <2> HIDE DEF z
  <2>4. Sound(V, z)
    BY <1>1, <2>3 DEF Sound
  <2> QED
    BY <1>2, <1>5, <2>4 DEF z
<1>6. CASE (~ \E n \in Masks(st.list) : Matched(c.mask, n)) /\ Len(w.list) # MaxBans
  <2>1. \A m \in Masks(w.list) : ~Matched(m, c.mask) /\ ~Matched(c.mask, m)
    BY <1>1, <1>3, <1>6
  <2>2. Sound(V, Put(w, c))
    BY <1>1, <1>6, <2>1, PutSound
  <2> QED
    BY <1>2, <1>6, <2>2
<1> QED
  BY <1>4, <1>5, <1>6

Begun(L)        == [list |-> L, told |-> <<>>, lost |-> {}]
Changed1(st, c) == IF c.what = "+" THEN AddMask(st, c) ELSE DelMask(st, c)

(* chanmode_apply: what every change of a line keeps, the line keeps.      *)
LEMMA ApplyWithin ==
  ASSUME NEW L, NEW C, Len(C) \in Nat, NEW S, Begun(L) \in S,
         \A n \in 1 .. Len(C), st \in S : Changed1(st, C[n]) \in S
  PROVE  Apply(L, C) \in S
<1> DEFINE k == Len(C)
           D == 0 .. k
           st0 == [list |-> L, told |-> <<>>, lost |-> {}]
           run[n \in D] == IF n = 0 THEN st0
                           ELSE IF C[n].what = "+" THEN AddMask(run[n - 1], C[n])
                           ELSE DelMask(run[n - 1], C[n])
           body(f) == [n \in D |-> IF n = 0 THEN st0
                           ELSE IF C[n].what = "+" THEN AddMask(f[n - 1], C[n])
                           ELSE DelMask(f[n - 1], C[n])]
           G == [n \in 1 .. k |-> [st \in S |-> Changed1(st, C[n])]]
<1>0. k \in Nat
  OBVIOUS
<1>1. Apply(L, C) = run[k]
  BY DEF Apply
<1>2. run = CHOOSE h : h = body(h)
  OBVIOUS
<1>3. st0 \in S
  BY DEF Begun
<1>4. \A n \in 1 .. k, st \in S : Changed1(st, C[n]) \in S
  OBVIOUS
<1> HIDE DEF k, st0, run
<1>5. G \in Changes(k, S)
  BY <1>4 DEF Changes
<1> HIDE DEF G
<1>6. PICK f \in [D -> S] : f[0] = st0 /\ \A n \in 1 .. k : f[n] = G[n][f[n - 1]]
  <2>1. Through(k, S, st0, G)
    BY <1>0, <1>3, <1>5, LineFunction, Zenon
  <2> QED
    BY <2>1 DEF Through
<1>7. f = body(f)
  <2>1. ASSUME NEW n \in D
        PROVE  f[n] = IF n = 0 THEN st0
                      ELSE IF C[n].what = "+" THEN AddMask(f[n - 1], C[n])
                      ELSE DelMask(f[n - 1], C[n])
    <3>1. CASE n = 0
      BY <1>6, <3>1
    <3>2. CASE n # 0
      <4>1. n \in 1 .. k /\ n - 1 \in D
        BY <1>0, <3>2
      <4>2. f[n - 1] \in S /\ f[n] = G[n][f[n - 1]]
        BY <1>6, <4>1
      <4> QED
        BY <3>2, <4>1, <4>2 DEF G, Changed1
    <3> QED
      BY <3>1, <3>2
  <2> QED
    BY <2>1
<1>8. run = body(run)
  <2> HIDE DEF body
  <2> QED
    BY <1>2, <1>7
<1>9. \A n \in D : run[n] = IF n = 0 THEN st0
                            ELSE IF C[n].what = "+" THEN AddMask(run[n - 1], C[n])
                            ELSE DelMask(run[n - 1], C[n])
  BY <1>8, Zenon
<1> DEFINE R == [n \in D |-> S]
<1>10. run[0] \in R[0]
  <2>1. 0 \in D
    BY <1>0
  <2>2. run[0] = st0
    BY <1>9, <2>1
  <2>3. R[0] = S
    BY <2>1
  <2> QED
    BY <1>3, <2>2, <2>3
<1>11. \A n \in 1 .. k : run[n - 1] \in R[n - 1] => run[n] \in R[n]
  <2> SUFFICES ASSUME NEW n \in 1 .. k, run[n - 1] \in R[n - 1] PROVE run[n] \in R[n]
    OBVIOUS
  <2>1. n - 1 \in D /\ n \in D /\ n # 0
    BY <1>0
  <2>2. run[n - 1] \in S
    BY <2>1
  <2>3. run[n] = IF C[n].what = "+" THEN AddMask(run[n - 1], C[n]) ELSE DelMask(run[n - 1], C[n])
    BY <1>9, <2>1, Zenon
  <2>4. run[n] \in S
    BY <1>4, <2>2, <2>3 DEF Changed1
  <2> QED
    BY <2>1, <2>4
<1> HIDE DEF R
<1>12. run[k] \in R[k]
  <2>1. \A n \in 0 .. k : run[n] \in R[n]
    BY <1>0, <1>10, <1>11, AlongLine
  <2> QED
    BY <1>0, <2>1
<1>13. run[k] \in S
  BY <1>0, <1>12 DEF R
<1> QED
  BY <1>1, <1>13

(* The list before the first change.                                       *)
LEMMA BegunSound ==
  ASSUME NEW L \in Seq(Item), Len(L) <= MaxBans, Clear(L)
  PROVE  Sound(Masks(L), Begun(L)) /\ Begun(L).list = L
<1> DEFINE V == Masks(L)
           C0 == <<>>
           st0 == Begun(L)
<1>1. V \in SUBSET Mask
  BY ItemFacts
<1>2. C0 \in Seq(Change) /\ Len(C0) = 0
  OBVIOUS
<1> HIDE DEF V, C0
<1>3. PICK f \in [0 .. Len(C0) -> SUBSET Mask] :
        /\ f[0] = V /\ \A n \in 1 .. Len(C0) : f[n] = After1(f[n - 1], C0[n])
        /\ Seen(V, C0) = f[Len(C0)]
  BY <1>1, <1>2, SeenFacts, Zenon
<1>4. Seen(V, C0) = V
  BY <1>2, <1>3
<1>5. st0 \in RunState /\ st0.list = L /\ st0.told = C0
  BY <1>2 DEF Begun, RunState, C0
<1> HIDE DEF st0
<1>6. Sound(V, st0)
  BY <1>4, <1>5 DEF Sound, V
<1> QED
  BY <1>5, <1>6 DEF st0, V

(* chanmode_apply: a line leaves a list that members see as it is.         *)
LEMMA ApplySound ==
  ASSUME NEW L \in Seq(Item), Len(L) <= MaxBans, Clear(L), NEW C \in Seq(Change)
  PROVE  Sound(Masks(L), Apply(L, C))
<1> DEFINE V == Masks(L)
           S == {st \in RunState : Sound(V, st)}
<1>1. V \in SUBSET Mask
  BY ItemFacts
<1>2. Sound(V, Begun(L))
  BY BegunSound
<1> HIDE DEF V
<1>3. Begun(L) \in S
  BY <1>2 DEF Sound
<1>4. Len(C) \in Nat /\ \A n \in 1 .. Len(C) : C[n] \in Change
  OBVIOUS
<1>5. ASSUME NEW n \in 1 .. Len(C), NEW st \in S
      PROVE  Changed1(st, C[n]) \in S
  <2>1. Sound(V, st) /\ C[n] \in Change
    BY <1>4, <1>5
  <2>2. CASE C[n].what = "+"
    <3>1. Sound(V, AddMask(st, C[n]))
      BY <1>1, <2>1, <2>2, AddSound
    <3> QED
      BY <2>2, <3>1 DEF Sound, Changed1
  <2>3. CASE C[n].what # "+"
    <3>1. C[n].by \in User
      BY <2>1 DEF Change
    <3>2. Sound(V, DelMask(st, C[n]))
      BY <1>1, <2>1, <3>1, DropSound DEF DelMask, Dropped
    <3> QED
      BY <2>3, <3>2 DEF Sound, Changed1
  <2> QED
    BY <2>2, <2>3
<1> HIDE DEF S
<1>6. Apply(L, C) \in S
  BY <1>3, <1>4, <1>5, ApplyWithin
<1> QED
  BY <1>6 DEF S, V

-----------------------------------------------------------------------------
(* Messages.                                                               *)

(* The smaller of two numbers is one of them.                              *)
LEMMA MinOfTwo ==
  ASSUME NEW a \in Nat, NEW b \in Nat
  PROVE  Min({a, b}) \in {a, b} /\ Min({a, b}) <= b
<1>1. {a, b} \in SUBSET Nat /\ {a, b} # {}
  OBVIOUS
<1>2. \E x \in {a, b} : \A y \in {a, b} : x <= y
  BY <1>1, LeastIn, Zenon
<1> QED
  BY <1>2 DEF Min

(* A part of the changes that begins and ends among them.                  *)
LEMMA PartOf ==
  ASSUME NEW S, NEW C \in Seq(S), NEW m \in Nat, NEW n \in Nat, n <= Len(C)
  PROVE  SubSeq(C, m + 1, n) \in Seq(S)
<1>1. m + 1 \in Int /\ n \in Int /\ \A i \in m + 1 .. n : C[i] \in S
  OBVIOUS
<1> QED
  BY <1>1, SubSeqProperties

(* chanmode_parse: what it takes of the changes are changes.               *)
LEMMA ParsedType ==
  ASSUME NEW C \in Seq(Change)
  PROVE  Parsed(C) \in Seq(Change)
<1>1. ModesPerLine \in Nat /\ Len(C) \in Nat
  BY MaskAssumption DEF MaskAssumption
<1> DEFINE n == Min({ModesPerLine, Len(C)})
<1>2. n \in Nat /\ n <= Len(C)
  BY <1>1, MinOfTwo
<1> HIDE DEF n
<1>3. SubSeq(C, 0 + 1, n) \in Seq(Change)
  BY <1>2, PartOf
<1>4. Parsed(C) = SubSeq(C, 1, n)
  BY DEF Parsed, n
<1> QED
  BY <1>3, <1>4

(* chanmode_assemble: what fills a message are changes.                    *)
LEMMA LinesType ==
  ASSUME NEW S, NEW C \in Seq(S)
  PROVE  Lines(C) \in Seq(Seq(S))
<1> DEFINE n == (Len(C) + PerLine - 1) \div PerLine
           last(i) == Min({i * PerLine, Len(C)})
<1>1. PerLine \in Nat /\ PerLine >= 1 /\ Len(C) \in Nat
  BY MaskAssumption DEF MaskAssumption
<1>2. n \in Nat
  <2>1. \A a \in Nat, b \in Nat : b >= 1 => (a + b - 1) \div b \in Nat
    OBVIOUS
  <2> QED
    BY <1>1, <2>1
<1>3. ASSUME NEW i \in 1 .. n
      PROVE  SubSeq(C, (i - 1) * PerLine + 1, last(i)) \in Seq(S)
  <2>1. i \in Nat /\ i - 1 \in Nat
    BY <1>2
  <2>2. \A a \in Nat, b \in Nat : a * b \in Nat
    OBVIOUS
  <2>3. i * PerLine \in Nat /\ (i - 1) * PerLine \in Nat
    BY <1>1, <2>1, <2>2
  <2>4. last(i) \in Nat /\ last(i) <= Len(C)
    BY <1>1, <2>3, MinOfTwo
  <2> HIDE DEF last
  <2> QED
    BY <2>3, <2>4, PartOf
<1>4. Lines(C) = [i \in 1 .. n |-> SubSeq(C, (i - 1) * PerLine + 1, last(i))]
  BY DEF Lines
<1> HIDE DEF n, last
<1>5. Lines(C) \in [1 .. n -> Seq(S)]
  BY <1>3, <1>4
<1> QED
  BY <1>2, <1>5, SeqDef

(* What servers and members are told are messages.                         *)
LEMMA MessagesType ==
  /\ \A C \in Seq(Change), u \in User : ModeLines(u, C) \in Seq(Message)
  /\ \A C \in Seq(Addition) : NModeLines(C) \in Seq(Message)
<1>1. ASSUME NEW C \in Seq(Change), NEW u \in User PROVE ModeLines(u, C) \in Seq(Message)
  <2> DEFINE n == Len(Lines(C))
  <2>1. Lines(C) \in Seq(Seq(Change))
    BY LinesType
  <2>2. n \in Nat /\ DOMAIN Lines(C) = 1 .. n /\ \A i \in 1 .. n : Lines(C)[i] \in Seq(Change)
    BY <2>1
  <2> HIDE DEF n
  <2>3. ModeLines(u, C) \in [1 .. n -> Message]
    BY <2>2 DEF ModeLines, Message
  <2> QED
    BY <2>2, <2>3, SeqDef
<1>2. ASSUME NEW C \in Seq(Addition) PROVE NModeLines(C) \in Seq(Message)
  <2> DEFINE n == Len(Lines(C))
  <2>1. Lines(C) \in Seq(Seq(Addition))
    BY LinesType
  <2>2. n \in Nat /\ DOMAIN Lines(C) = 1 .. n /\ \A i \in 1 .. n : Lines(C)[i] \in Seq(Addition)
    BY <2>1
  <2> HIDE DEF n
  <2>3. NModeLines(C) \in [1 .. n -> Message]
    BY <2>2 DEF NModeLines, Message
  <2> QED
    BY <2>2, <2>3, SeqDef
<1> QED
  BY <1>1, <1>2

(* chanmode_burst                                                          *)
LEMMA BurstType ==
  ASSUME NEW L \in Seq(Item)
  PROVE  Burst(L) \in Seq(Message)
<1> DEFINE D == [i \in DOMAIN L |-> Plus(L[i].mask, L[i].by)]
<1>1. Len(L) \in Nat /\ DOMAIN L = 1 .. Len(L) /\ \A i \in DOMAIN L : L[i].mask \in Mask /\ L[i].by \in User
  BY ItemFacts
<1>2. D \in [1 .. Len(L) -> Addition]
  BY <1>1 DEF Plus, Change, Addition
<1>3. D \in Seq(Addition)
  BY <1>1, <1>2, SeqDef
<1> HIDE DEF D
<1>4. NModeLines(D) \in Seq(Message)
  BY <1>3, MessagesType
<1> QED
  BY <1>4 DEF Burst, D

(* What messages carry.                                                    *)
LEMMA MessageFacts ==
  ASSUME NEW m \in Message
  PROVE  /\ m.changes \in Seq(Change)
         /\ m.cmd = "MODE" => m.by \in User
         /\ m.cmd = "NMODE" => m.changes \in Seq(Addition)
<1>1. \A C \in Seq(Addition) : C \in Seq(Change)
  BY DEF Addition
<1>2. CASE \E u \in User, C \in Seq(Change) : m = ModeMsg(u, C)
  BY <1>2 DEF ModeMsg
<1>3. CASE \E C \in Seq(Addition) : m = NModeMsg(C)
  BY <1>1, <1>3 DEF NModeMsg
<1> QED
  BY <1>2, <1>3 DEF Message

(* What is sent, and what is left when a message is read, are messages     *)
(* (server_send).                                                          *)
LEMMA SendType ==
  ASSUME NetTyped, NEW s, NEW t, NEW out \in Seq(Message)
  PROVE  /\ SendAll(s, t, out) => NetTyped'
         /\ CanRead(s, t) /\ <<t, s>> \in Link /\ ReadAndSend(s, t, out, <<>>) => NetTyped'
<1>0. /\ net \in [Link -> Seq(Message)]
      /\ \A l \in Link : net[l] \o out \in Seq(Message)
  BY DEF NetTyped
<1>1. SendAll(s, t, out) => NetTyped'
  BY <1>0 DEF SendAll, NetTyped
<1>2. ASSUME CanRead(s, t), <<t, s>> \in Link, ReadAndSend(s, t, out, <<>>)
      PROVE  NetTyped'
  <2>1. Tail(net[<<t, s>>]) \in Seq(Message)
    BY <1>0, <1>2 DEF CanRead
  <2>2. \A l \in Link : ~Sent(s, s, <<>>, l)
    BY DEF Sent
  <2> QED
    BY <1>0, <1>2, <2>1, <2>2 DEF ReadAndSend, NetTyped
<1> QED
  BY <1>1, <1>2

-----------------------------------------------------------------------------
(* Every step.                                                             *)

(* A server runs a line: its list keeps its form, and its members see it   *)
(* (chanmode_apply, chanmode_send_local).                                  *)
LEMMA RunKeeps ==
  ASSUME ListsKept, NEW s \in Server, NEW C \in Seq(Change),
         NEW why \in SUBSET {"cut", "crossed", "vague"}, Run(s, Apply(list[s], C), why)
  PROVE  ListsKept' /\ Apply(list[s], C).told \in Seq(Change)
<1> DEFINE r == Apply(list[s], C)
<1>0. /\ list \in [Server -> Seq(Item)] /\ view \in [Server -> SUBSET Mask]
      /\ lost \subseteq {"cut", "full", "crossed", "vague"}
      /\ \A q \in Server : /\ list[q] \in Seq(Item) /\ Len(list[q]) <= MaxBans
                           /\ Clear(list[q]) /\ view[q] = Masks(list[q])
  BY DEF ListsKept, TypeOK, NoneCovered, MembersTold, Clear
<1>1. Sound(Masks(list[s]), r)
  <2>1. list[s] \in Seq(Item) /\ Len(list[s]) <= MaxBans /\ Clear(list[s])
    BY <1>0
  <2> QED
    BY <2>1, ApplySound, Zenon
<1>2. /\ list' = [list EXCEPT ![s] = r.list]
      /\ view' = [view EXCEPT ![s] = Seen(view[s], r.told)]
      /\ lost' = lost \cup r.lost \cup why
  BY DEF Run
<1> HIDE DEF r
<1>3. /\ r.list \in Seq(Item) /\ r.told \in Seq(Change) /\ r.lost \subseteq {"full"}
      /\ Len(r.list) <= MaxBans /\ Clear(r.list) /\ Seen(view[s], r.told) = Masks(r.list)
  BY <1>0, <1>1, StateFacts DEF Sound
<1>4. Masks(r.list) \subseteq Mask
  BY <1>3, ItemFacts
<1>5. ASSUME NEW q \in Server
      PROVE  /\ list'[q] \in Seq(Item) /\ Len(list'[q]) <= MaxBans
             /\ Clear(list'[q]) /\ view'[q] = Masks(list'[q]) /\ view'[q] \subseteq Mask
  <2>1. CASE q = s
    <3>1. list'[q] = r.list /\ view'[q] = Masks(r.list)
      BY <1>0, <1>2, <1>3, <2>1
    <3> QED
      BY <1>3, <1>4, <3>1
  <2>2. CASE q # s
    <3>1. list'[q] = list[q] /\ view'[q] = view[q]
      BY <1>0, <1>2, <2>2
    <3> QED
      BY <1>0, <3>1
  <2> QED
    BY <2>1, <2>2
<1>6. list' \in [Server -> Seq(Item)] /\ view' \in [Server -> SUBSET Mask]
  <2>1. list' = [q \in Server |-> list'[q]] /\ view' = [q \in Server |-> view'[q]]
    BY <1>0, <1>2
  <2> QED
    BY <1>5, <2>1
<1>7. lost' \subseteq {"cut", "full", "crossed", "vague"}
  BY <1>0, <1>2, <1>3
<1>8. TypeOK' /\ MembersTold'
  BY <1>5, <1>6, <1>7 DEF TypeOK, MembersTold, Masks
<1>9. NoneCovered'
  BY <1>5 DEF NoneCovered, Clear
<1> QED
  BY <1>3, <1>8, <1>9 DEF ListsKept, r

(* m_mode: a line of a client.                                             *)
LEMMA ModeKeeps ==
  ASSUME IInv, NEW u \in User, NEW C \in Typed(u), Mode(u, C)
  PROVE  IInv'
<1> DEFINE s == Home[u]
           why == Vague(C) \cup IF Quiet THEN {} ELSE {"crossed"}
<1>1. s \in Server
  BY MaskAssumption DEF MaskAssumption
<1>2. C \in Seq(Change)
  <2>1. PICK n \in 1 .. MaxLine : C \in [1 .. n -> {c \in Change : c.by = u}]
    BY DEF Typed
  <2>2. n \in Nat /\ C \in [1 .. n -> Change]
    BY <2>1, MaskAssumption DEF MaskAssumption
  <2> QED
    BY <2>2, SeqDef
<1>3. Run(s, Apply(list[s], C), why) /\ SendAll(s, s, ModeLines(u, Apply(list[s], C).told))
  BY DEF Mode
<1>4. why \in SUBSET {"cut", "crossed", "vague"}
  BY DEF Vague
<1> HIDE DEF s, why
<1>5. ListsKept' /\ Apply(list[s], C).told \in Seq(Change)
  BY <1>1, <1>2, <1>3, <1>4, RunKeeps DEF IInv
<1>6. ModeLines(u, Apply(list[s], C).told) \in Seq(Message)
  BY <1>5, MessagesType
<1>7. NetTyped'
  BY <1>3, <1>6, SendType DEF IInv
<1> QED
  BY <1>5, <1>7 DEF IInv

(* ms_mode, ms_nmode: a line of another server.                            *)
LEMMA ReceiveKeeps ==
  ASSUME IInv, NEW s, NEW t, <<s, t>> \in Link, Receive(s, t)
  PROVE  IInv'
<1> DEFINE m == Head(net[<<t, s>>])
<1>1. s \in Server /\ <<t, s>> \in Link
  <2>1. Link \subseteq Server \X Server /\ Rev(<<s, t>>) \in Link
    BY LinkAssumption DEF LinkAssumption
  <2> QED
    BY <2>1 DEF Rev
<1>2. CanRead(s, t) /\ m \in Message
  <2>1. CanRead(s, t) /\ net[<<t, s>>] \in Seq(Message) /\ net[<<t, s>>] # <<>>
    BY <1>1 DEF Receive, CanRead, IInv, NetTyped
  <2> QED
    BY <2>1
<1>3. \/ /\ m.cmd = "MODE" /\ Run(s, OnMode(s, m), CutOff(m.changes))
         /\ ReadAndSend(s, t, ModeLines(m.by, OnMode(s, m).told), <<>>)
      \/ /\ m.cmd = "NMODE" /\ Run(s, OnNMode(s, m), {})
         /\ ReadAndSend(s, t, NModeLines(m.changes), <<>>)
  BY DEF Receive
<1> HIDE DEF m
<1>4. /\ m.changes \in Seq(Change)
      /\ m.cmd = "MODE" => m.by \in User
      /\ m.cmd = "NMODE" => m.changes \in Seq(Addition)
  BY <1>2, MessageFacts
<1>5. CASE /\ m.cmd = "MODE" /\ Run(s, OnMode(s, m), CutOff(m.changes))
           /\ ReadAndSend(s, t, ModeLines(m.by, OnMode(s, m).told), <<>>)
  <2> DEFINE P == Parsed(m.changes)
  <2>1. P \in Seq(Change)
    BY <1>4, ParsedType
  <2>2. CutOff(m.changes) \in SUBSET {"cut", "crossed", "vague"}
    BY DEF CutOff
  <2>3. OnMode(s, m) = Apply(list[s], P)
    BY DEF OnMode
  <2> HIDE DEF P
  <2>4. ListsKept' /\ Apply(list[s], P).told \in Seq(Change)
    BY <1>1, <1>5, <2>1, <2>2, <2>3, RunKeeps DEF IInv
  <2>5. ModeLines(m.by, OnMode(s, m).told) \in Seq(Message)
    BY <1>4, <1>5, <2>3, <2>4, MessagesType
  <2>6. NetTyped'
    BY <1>1, <1>2, <1>5, <2>5, SendType DEF IInv
  <2> QED
    BY <2>4, <2>6 DEF IInv
<1>6. CASE /\ m.cmd = "NMODE" /\ Run(s, OnNMode(s, m), {})
           /\ ReadAndSend(s, t, NModeLines(m.changes), <<>>)
  <2>1. OnNMode(s, m) = Apply(list[s], m.changes)
    BY DEF OnNMode
  <2>2. ListsKept'
    <3>1. {} \in SUBSET {"cut", "crossed", "vague"} /\ Run(s, Apply(list[s], m.changes), {})
      BY <1>6, <2>1
    <3>2. ListsKept
      BY DEF IInv
    <3> QED
      BY <1>1, <1>4, <3>1, <3>2, RunKeeps, Zenon
  <2>3. NModeLines(m.changes) \in Seq(Message)
    BY <1>4, <1>6, MessagesType
  <2>4. NetTyped'
    BY <1>1, <1>2, <1>6, <2>3, SendType DEF IInv
  <2> QED
    BY <2>2, <2>4 DEF IInv
<1> QED
  BY <1>3, <1>5, <1>6

(* Nothing of the lists changes with the links; what a burst sends are     *)
(* messages (server_register, chanmode_burst).                             *)
LEMMA LinkKeeps ==
  ASSUME IInv, NEW s, NEW t, <<s, t>> \in Link, Open(s, t) \/ Register(s, t)
  PROVE  IInv'
<1>0. /\ net \in [Link -> Seq(Message)] /\ <<>> \in Seq(Message)
      /\ \A out \in Seq(Message), l \in Link : net[l] \o out \in Seq(Message)
  BY DEF IInv, NetTyped
<1>1. UNCHANGED <<list, view, lost>>
  BY DEF Open, Register
<1>2. ListsKept'
  BY <1>1 DEF IInv, ListsKept, TypeOK, NoneCovered, MembersTold, Masks
<1>3. CASE Open(s, t)
  <2>1. NetTyped'
    BY <1>0, <1>3 DEF Open, OpenLink, NetTyped
  <2> QED
    BY <1>2, <2>1 DEF IInv
<1>4. CASE Register(s, t)
  <2>1. s \in Server
    BY LinkAssumption DEF LinkAssumption
  <2>2. list[s] \in Seq(Item)
    BY <2>1 DEF IInv, ListsKept, TypeOK
  <2>3. Burst(list[s]) \in Seq(Message)
    BY <2>2, BurstType
  <2>4. NetTyped'
    BY <1>0, <1>4, <2>3 DEF Register, RegisterLink, NetTyped
  <2> QED
    BY <1>2, <2>4 DEF IInv
<1> QED
  BY <1>3, <1>4

(* Empty lists, nothing under way.                                         *)
LEMMA InitKeeps ==
  ASSUME Init
  PROVE  IInv
<1>1. /\ list = [s \in Server |-> <<>>] /\ view = [s \in Server |-> {}] /\ lost = {}
      /\ net = [l \in Link |-> <<>>]
  BY DEF Init, LinkInit
<1>2. <<>> \in Seq(Item) /\ <<>> \in Seq(Message) /\ Len(<<>>) = 0 /\ DOMAIN <<>> = {}
  OBVIOUS
<1>3. MaxBans \in Nat
  BY MaskAssumption DEF MaskAssumption
<1>4. TypeOK
  BY <1>1, <1>2, <1>3 DEF TypeOK
<1>5. NoneCovered /\ MembersTold
  BY <1>1, <1>2 DEF NoneCovered, MembersTold, Masks
<1>6. NetTyped
  BY <1>1, <1>2 DEF NetTyped
<1> QED
  BY <1>4, <1>5, <1>6 DEF IInv, ListsKept

(* Every step, of clients, servers and links (Next).                       *)
LEMMA StepKeeps == IInv /\ [Next]_vars => IInv'
<1> SUFFICES ASSUME IInv, [Next]_vars PROVE IInv'
  OBVIOUS
<1>1. ASSUME NEW u \in User, NEW C \in Typed(u), Mode(u, C)
      PROVE  IInv'
  BY <1>1, ModeKeeps
<1>2. ASSUME NEW l \in Link, Receive(l[1], l[2]) \/ Open(l[1], l[2]) \/ Register(l[1], l[2])
      PROVE  IInv'
  <2>1. <<l[1], l[2]>> \in Link
    BY LinkAssumption DEF LinkAssumption
  <2> QED
    BY <1>2, <2>1, ReceiveKeeps, LinkKeeps
<1>3. CASE UNCHANGED vars
  BY <1>3 DEF vars, links, IInv, ListsKept, TypeOK, NoneCovered, MembersTold, Masks, NetTyped
<1> QED
  BY <1>1, <1>2, <1>3 DEF Next

(* IInv holds in every state.                                              *)
LEMMA Inductive == Spec => []IInv
  BY InitKeeps, StepKeeps, PTL DEF Spec

(* On every server, after whatever lines of clients and of servers, in     *)
(* whatever order they are read: the list keeps its form and its limit, no *)
(* mask in it matches another one, and a member who replays the MODE lines *)
(* its server sent has the list as it is (chanmode_apply,                  *)
(* chanmode_bounce_mask, chanmode_change_insert).                          *)
THEOREM ListsAlwaysKept == Spec => []ListsKept
<1>1. IInv => ListsKept
  BY DEF IInv
<1> QED
  BY <1>1, Inductive, PTL

-----------------------------------------------------------------------------
(* Additions.                                                              *)

\* Every mask of M has one in the list of st that stands in for it.
Covers(M, st) == \A m \in M : \E n \in Masks(st.list) : StandsFor(n, m)

(* To stand in for a mask is an order, though matching is none: what plain *)
(* masks tell of two masks is, and it is all that matching and standing in *)
(* have in common (str_match).                                             *)
LEMMA StandsForOrder ==
  ASSUME NEW m \in Mask, NEW n \in Mask, NEW q \in Mask
  PROVE  /\ StandsFor(m, m) /\ (Matched(m, n) => StandsFor(n, m))
         /\ StandsFor(n, m) /\ StandsFor(q, n) => StandsFor(q, m)
<1> DEFINE Within(k, l) == \A z \in Plain : Matched(l, z) => Matched(k, z)
<1>1. \A k, l \in Mask : Matched(k, l) => Within(k, l)
  BY MaskOrder DEF MaskOrder, Matched
<1>2. \A k \in Mask : Matched(k, k)
  BY MaskOrder DEF MaskOrder, Matched
<1>3. \A k, l \in Mask : StandsFor(l, k) <=> (Matched(k, l) \/ (l \notin Plain /\ Within(k, l)))
  BY DEF StandsFor
<1>4. Within(m, n) /\ Within(n, q) => Within(m, q)
  OBVIOUS
<1>5. q \in Plain /\ Within(m, q) => Matched(m, q)
  BY <1>2
<1> HIDE DEF Within
<1> QED
  BY <1>1, <1>2, <1>3, <1>4, <1>5

(* chanmode_bounce_mask: masks that go make room, and the one that takes   *)
(* their place stands in for them, or the one of the list that refused it. *)
LEMMA AddCovers ==
  ASSUME NEW V \in SUBSET Mask, NEW st, Sound(V, st), NEW c \in Change, c.what = "+"
  PROVE  Covers(Masks(st.list), AddMask(st, c))
<1> DEFINE L == st.list
           over == {i \in DOMAIN L : Matched(c.mask, L[i].mask)}
           stop == IF over = {} THEN Len(L) + 1 ELSE Min(over)
           gone == Covered(L, c.mask)
           w == Drop(st, gone, c.by)
           z == AddMask(st, c)
<1>0. st \in RunState /\ L \in Seq(Item) /\ Len(L) <= MaxBans /\ Len(L) \in Nat /\ MaxBans \in Nat
  <2>1. st \in RunState /\ Len(L) <= MaxBans
    BY DEF Sound
  <2>2. L \in Seq(Item)
    BY <2>1, StateFacts
  <2> QED
    BY <2>1, <2>2, MaskAssumption DEF MaskAssumption
<1>1. Masks(L) \subseteq Mask /\ c.mask \in Mask /\ c.by \in User /\ DOMAIN L = 1 .. Len(L)
  BY <1>0, ItemFacts DEF Change
<1>2. /\ Masks(w.list) = Masks(L) \ gone
      /\ Masks(L) \cap gone # {} => Len(w.list) < Len(L)
      /\ w.list \in Seq(Item) /\ Len(w.list) \in Nat /\ w \in RunState
  <2>1. \A M : Dropped(V, st, Drop(st, M, c.by), M)
    BY <1>1, DropSound, Zenon
  <2>2. Dropped(V, st, w, gone)
    BY <2>1
  <2> HIDE DEF w, gone
  <2>3. w \in RunState
    BY <2>2 DEF Dropped, Sound
  <2>4. w.list \in Seq(Item)
    BY <2>3, StateFacts
  <2> QED
    BY <2>2, <2>3, <2>4 DEF Dropped
<1>3. gone = {L[i].mask : i \in {j \in 1 .. stop - 1 : Matched(L[j].mask, c.mask)}}
  BY DEF Covered
<1>4. z = IF \E n \in Masks(L) : Matched(c.mask, n) THEN w
          ELSE IF Len(w.list) = MaxBans THEN [w EXCEPT !.lost = st.lost \cup {"full"}]
          ELSE Put(w, c)
  BY DEF AddMask
<1> HIDE DEF w, z, gone
<1>5. \A m \in gone : Matched(m, c.mask)
  BY <1>3
<1>6. CASE over # {}
  <2>1. over \in SUBSET Nat
    BY <1>1
  <2>2. Min(over) \in over /\ \A i \in over : Min(over) <= i
    <3> HIDE DEF over
    <3> QED
      BY <1>6, <2>1, LeastIn DEF Min
  <2> DEFINE n == L[Min(over)].mask
  <2>3. stop = Min(over) /\ stop \in Nat
    BY <1>6, <2>1, <2>2
  <2>4. n \in Masks(L) /\ Matched(c.mask, n)
    BY <2>2 DEF Masks
  <2>5. n \notin gone
    <3> SUFFICES ASSUME n \in gone PROVE FALSE
      OBVIOUS
    <3>1. PICK j \in 1 .. stop - 1 : L[j].mask = n
      BY <1>3
    <3>2. j \in DOMAIN L /\ ~(stop <= j)
      BY <1>1, <2>2, <2>3
    <3>3. j \in over
      BY <2>4, <3>1, <3>2
    <3> QED
      BY <2>2, <2>3, <3>2, <3>3
  <2>6. z = w
    BY <1>4, <2>4
  <2> HIDE DEF n, stop, over
  <2>7. ASSUME NEW m \in Masks(L) PROVE \E q \in Masks(w.list) : StandsFor(q, m)
    <3>1. CASE m \in gone
      <4>1. Matched(m, c.mask) /\ m \in Mask /\ n \in Mask
        BY <1>1, <1>5, <2>4, <3>1
      <4>2. StandsFor(n, m)
        BY <1>1, <2>4, <4>1, StandsForOrder
      <4> QED
        BY <1>2, <2>4, <2>5, <4>2
    <3>2. CASE m \notin gone
      <4>1. m \in Masks(w.list) /\ StandsFor(m, m)
        BY <1>1, <1>2, <3>2, StandsForOrder
      <4> QED
        BY <4>1
    <3> QED
      BY <3>1, <3>2
  <2> QED
    BY <2>6, <2>7 DEF Covers, z
<1>7. CASE over = {}
  <2>1. ~ \E n \in Masks(L) : Matched(c.mask, n)
    BY <1>7 DEF Masks
  <2> HIDE DEF over, stop, L
  <2>2. CASE Len(w.list) = MaxBans
    <3>1. Masks(L) \cap gone = {}
      BY <1>0, <1>2, <2>2 DEF L
    <3>2. z.list = w.list
      <4>1. w \in RunState
        BY <1>2
      <4>2. \A X : [w EXCEPT !.lost = X] = [list |-> w.list, told |-> w.told, lost |-> X]
        BY <4>1, StateFacts, Zenon
      <4>3. z = [w EXCEPT !.lost = st.lost \cup {"full"}]
        BY <1>4, <2>1, <2>2, Zenon
      <4>4. z = [list |-> w.list, told |-> w.told, lost |-> st.lost \cup {"full"}]
        BY <4>2, <4>3, Zenon
      <4> QED
        BY <4>4
    <3>3. \A m \in Masks(L) : m \in Masks(z.list) /\ StandsFor(m, m)
      BY <1>1, <1>2, <3>1, <3>2, StandsForOrder
    <3> QED
      BY <3>3 DEF Covers, z, L
  <2>3. CASE Len(w.list) # MaxBans
    <3> DEFINE x == [mask |-> c.mask, by |-> c.by]
    <3>1. z = [w EXCEPT !.list = InsertItem(w.list, x), !.told = Append(w.told, c)]
      BY <1>4, <2>1, <2>3 DEF Put
    <3>2. x \in Item /\ x.mask = c.mask
      BY <1>1 DEF Item
    <3> HIDE DEF x
    <3>3. z.list = InsertItem(w.list, x)
      <4>1. w \in RunState
        BY <1>2
      <4>2. \A A, T : [w EXCEPT !.list = A, !.told = T] = [list |-> A, told |-> T, lost |-> w.lost]
        BY <4>1, StateFacts, Zenon
      <4>3. z = [list |-> InsertItem(w.list, x), told |-> Append(w.told, c), lost |-> w.lost]
        BY <3>1, <4>2, Zenon
      <4> QED
        BY <4>3
    <3>4. Masks(z.list) = Masks(w.list) \cup {c.mask}
      BY <1>2, <3>2, <3>3, InsertItemFacts, ZenonT(60) DEF IsWith
    <3>5. ASSUME NEW m \in Masks(L) PROVE \E q \in Masks(z.list) : StandsFor(q, m)
      <4>1. CASE m \in gone
        <5>1. Matched(m, c.mask) /\ c.mask \in Masks(z.list)
          BY <1>5, <3>4, <4>1
        <5> QED
          BY <1>1, <5>1, StandsForOrder
      <4>2. CASE m \notin gone
        <5>1. m \in Masks(z.list) /\ StandsFor(m, m)
          BY <1>1, <1>2, <3>4, <4>2, StandsForOrder
        <5> QED
          BY <5>1
      <4> QED
        BY <4>1, <4>2
    <3> QED
      BY <3>5 DEF Covers, z, L
  <2> QED
    BY <2>2, <2>3
<1> QED
  BY <1>6, <1>7

(* chanmode_apply: the same of a line of additions.                        *)
LEMMA ApplyCovers ==
  ASSUME NEW L \in Seq(Item), Len(L) <= MaxBans, Clear(L), NEW C \in Seq(Addition)
  PROVE  Covers(Masks(L), Apply(L, C))
<1> DEFINE V == Masks(L)
           S == {st \in RunState : Sound(V, st) /\ Covers(V, st)}
<1>1. V \in SUBSET Mask
  BY ItemFacts
<1>2. Sound(V, Begun(L)) /\ Begun(L).list = L
  BY BegunSound
<1>3. Begun(L) \in S
  <2>1. \A m \in V : StandsFor(m, m)
    BY <1>1, StandsForOrder
  <2>2. Covers(V, Begun(L))
    BY <1>2, <2>1 DEF Covers
  <2> HIDE DEF V
  <2> QED
    BY <1>2, <2>2 DEF Sound
<1> HIDE DEF V
<1>4. Len(C) \in Nat /\ \A n \in 1 .. Len(C) : C[n] \in Change /\ C[n].what = "+"
  BY DEF Addition
<1>5. ASSUME NEW n \in 1 .. Len(C), NEW st \in S
      PROVE  Changed1(st, C[n]) \in S
  <2> DEFINE z == AddMask(st, C[n])
  <2>1. Sound(V, st) /\ Covers(V, st) /\ C[n] \in Change /\ C[n].what = "+"
    BY <1>4, <1>5
  <2>2. Sound(V, z) /\ Covers(Masks(st.list), z)
    BY <1>1, <2>1, AddSound, AddCovers
  <2>3. Changed1(st, C[n]) = z
    BY <2>1 DEF Changed1
  <2> HIDE DEF z
  <2>4. /\ st.list \in Seq(Item) /\ Masks(st.list) \subseteq Mask
        /\ z \in RunState /\ z.list \in Seq(Item) /\ Masks(z.list) \subseteq Mask
    BY <2>1, <2>2, StateFacts, ItemFacts DEF Sound
  <2>5. ASSUME NEW m \in V PROVE \E q \in Masks(z.list) : StandsFor(q, m)
    <3>1. PICK n1 \in Masks(st.list) : StandsFor(n1, m)
      BY <2>1 DEF Covers
    <3>2. PICK q \in Masks(z.list) : StandsFor(q, n1)
      BY <2>2 DEF Covers
    <3>3. m \in Mask /\ n1 \in Mask /\ q \in Mask
      BY <1>1, <2>4
    <3>4. StandsFor(q, m)
      BY <3>1, <3>2, <3>3, StandsForOrder
    <3> QED
      BY <3>4
  <2>6. Covers(V, z)
    BY <2>5 DEF Covers
  <2> QED
    BY <2>2, <2>3, <2>4, <2>6
<1> HIDE DEF S
<1>6. Apply(L, C) \in S
  BY <1>3, <1>4, <1>5, ApplyWithin
<1> QED
  BY <1>6 DEF S, V

(* When a line of additions is run, the new list covers the old one.       *)
LEMMA RunCovers ==
  ASSUME IInv, NEW s \in Server, NEW C \in Seq(Addition), NEW why, Run(s, Apply(list[s], C), why)
  PROVE  \A m \in Masks(list[s]) : \E n \in Masks(list'[s]) : StandsFor(n, m)
<1> DEFINE r == Apply(list[s], C)
<1>1. /\ list \in [Server -> Seq(Item)] /\ list[s] \in Seq(Item) /\ Len(list[s]) <= MaxBans
      /\ Clear(list[s])
  BY DEF IInv, ListsKept, TypeOK, NoneCovered, Clear
<1>2. Covers(Masks(list[s]), r)
  BY <1>1, ApplyCovers
<1>3. list'[s] = r.list
  BY <1>1 DEF Run
<1> HIDE DEF r
<1> QED
  BY <1>2, <1>3 DEF Covers

(* A line of additions, typed or sent in a burst or by a server that       *)
(* bounced some of it, drops no mask but for one that stands in for it:    *)
(* one that matches it or, with a "?" in it, one that every plain mask     *)
(* matches only together with it (chanmode_bounce_mask, chanmode_burst,    *)
(* ms_nmode).                                                              *)
THEOREM AdditionsReplace == Spec => DropsReplaced
<1> DEFINE Replaces(s) == list[s] # list'[s] /\ Adds(s) =>
                         \A m \in Masks(list[s]) : \E n \in Masks(list'[s]) : StandsFor(n, m)
<1>1. ASSUME IInv, NEW s \in Server PROVE Replaces(s)
  <2> SUFFICES ASSUME Adds(s)
               PROVE  \A m \in Masks(list[s]) : \E n \in Masks(list'[s]) : StandsFor(n, m)
    OBVIOUS
  <2>1. CASE \E u \in User : /\ Home[u] = s
                             /\ \E C \in Typed(u) : (\A i \in DOMAIN C : C[i].what = "+") /\ Mode(u, C)
    <3>1. PICK u \in User : Home[u] = s
                            /\ \E C \in Typed(u) : (\A i \in DOMAIN C : C[i].what = "+") /\ Mode(u, C)
      BY <2>1
    <3>2. PICK C \in Typed(u) : (\A i \in DOMAIN C : C[i].what = "+") /\ Mode(u, C)
      BY <3>1
    <3>3. C \in Seq(Addition)
      <4>1. PICK n \in 1 .. MaxLine : C \in [1 .. n -> {c \in Change : c.by = u}]
        BY DEF Typed
      <4>2. n \in Nat /\ DOMAIN C = 1 .. n /\ C \in [1 .. n -> Change]
        BY <4>1, MaskAssumption DEF MaskAssumption
      <4>3. C \in [1 .. n -> Addition]
        BY <3>2, <4>2 DEF Addition
      <4> QED
        BY <4>2, <4>3, SeqDef
    <3>4. Run(s, Apply(list[s], C), Vague(C) \cup IF Quiet THEN {} ELSE {"crossed"})
      BY <3>1, <3>2 DEF Mode
    <3> QED
      BY <1>1, <3>3, <3>4, RunCovers
  <2>2. CASE \E l \in Link : /\ l[2] = s /\ net[l] # <<>> /\ Head(net[l]).cmd = "NMODE"
                             /\ Receive(s, l[1])
    <3>1. PICK l \in Link : /\ l[2] = s /\ net[l] # <<>> /\ Head(net[l]).cmd = "NMODE"
                            /\ Receive(s, l[1])
      BY <2>2
    <3> DEFINE m == Head(net[l])
    <3>2. l = <<l[1], s>>
      BY <3>1, LinkAssumption DEF LinkAssumption
    <3>3. m \in Message /\ m.cmd = "NMODE"
      BY <1>1, <3>1 DEF IInv, NetTyped
    <3>4. Run(s, OnNMode(s, m), {})
      BY <3>1, <3>2 DEF Receive
    <3> HIDE DEF m
    <3>5. m.changes \in Seq(Addition)
      BY <3>3, MessageFacts
    <3>6. Run(s, Apply(list[s], m.changes), {})
      BY <3>4 DEF OnNMode
    <3> QED
      BY <1>1, <3>5, <3>6, RunCovers
  <2> QED
    BY <2>1, <2>2 DEF Adds
<1>2. IInv => [\A s \in Server : Replaces(s)]_vars
  BY <1>1
<1> QED
  BY <1>2, Inductive, PTL DEF DropsReplaced
=============================================================================
