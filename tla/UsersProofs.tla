---------------------------- MODULE UsersProofs ----------------------------
(***************************************************************************)
(* Users as the servers of a network know them, on any tree of servers:    *)
(* IntroducedOnce of NickSync; OperatorsAgree, UsersListed and ModesAgree  *)
(* of UserModes.                                                           *)
(*                                                                         *)
(* What is common to both comes first: who knows whom (K), and what the    *)
(* messages on their way will make of it.  The invariant, Introduced, says *)
(* that each queue is of users on the sender's side, that between two      *)
(* introductions of a user it has his end, and that one who is no longer   *)
(* known to the sender has his end behind all of his introductions, so     *)
(* that the sender may introduce him again.  A server that speaks, reads,  *)
(* registers or gives up a link keeps it (Said, Heard, RegisterLinkIs,     *)
(* OpenLinkIs, CloseLinkIs), whatever else its messages carry.             *)
(*                                                                         *)
(* Then NickSync: each handler is one of these steps.  Then UserModes: a   *)
(* user's modes, places in lists and privileges on a server are in order   *)
(* (Fits) before and after each change of a line, as a line that was       *)
(* parsed has no two changes alike and none without effect; that a server  *)
(* is not told twice of a user it knows is what keeps NUSER in order.      *)
(*                                                                         *)
(* Last, that copies of modes agree: what is on its way makes of the       *)
(* reader's modes the sender's (Turns), since a server says of a user all  *)
(* that it did, and parses what it hears to the same changes (ParsedSame). *)
(***************************************************************************)
EXTENDS NickSync, UserModes, SequenceTheorems, FiniteSetTheorems,
        WellFoundedInduction, TLAPS

-----------------------------------------------------------------------------
(* Who knows whom, and what is on its way.                                 *)

\* What a message says of a user: that it is there, or that it is no longer.
Begins(m, u)  == m.cmd = "NUSER" /\ m.of = u
Ends(m, u, H) == \/ m.cmd = "QUIT" /\ m.of = u
                 \/ m.cmd = "NQUIT" /\ H[u] \in Behind[m.link]

\* What s sends to t over l is of users on the side of s.
Outward(m, l, H) ==
  /\ m.cmd \in {"NUSER", "UMODE", "QUIT"} => H[m.of] \in Behind[Rev(l)]
  /\ m.cmd = "NQUIT" => Behind[m.link] \subseteq Behind[Rev(l)]

\* The queue q of a receiver that knows A: u is introduced only to who does
\* not know it, each time, and (Ended) is not known when all is read.
Once(q, u, A, H) ==
  /\ \A i, j \in 1 .. Len(q) :
       i < j /\ Begins(q[i], u) /\ Begins(q[j], u)
       => \E k \in 1 .. Len(q) : i < k /\ k < j /\ Ends(q[k], u, H)
  /\ u \in A => \A j \in 1 .. Len(q) : Begins(q[j], u)
                  => \E k \in 1 .. Len(q) : k < j /\ Ends(q[k], u, H)

Ended(q, u, A, H) ==
  /\ \A i \in 1 .. Len(q) : Begins(q[i], u)
       => \E k \in 1 .. Len(q) : i < k /\ Ends(q[k], u, H)
  /\ u \in A => \E k \in 1 .. Len(q) : Ends(q[k], u, H)

Live(l, E) == E[l] = "up" /\ E[Rev(l)] # "down"

\* One direction of a link: E the ends, N the queues, K who knows whom.
LinkTells(l, E, N, K, H) ==
  /\ \A i \in 1 .. Len(N[l]) : Outward(N[l][i], l, H)
  /\ E[Rev(l)] = "down" \/ E[l] = "open" => N[l] = <<>>
  /\ E[Rev(l)] # "up" \/ E[l] = "open"
       => \A u \in K[l[2]] : H[u] \notin Behind[Rev(l)]
  /\ \A u \in DOMAIN H : H[u] \in Behind[Rev(l)]
       => /\ Once(N[l], u, K[l[2]], H)
          /\ Live(l, E) /\ u \notin K[l[1]] => Ended(N[l], u, K[l[2]], H)

\* Who is known is local or behind a link that is up.
Reached(E, K, H) ==
  \A s \in Server : \A u \in K[s] :
    \/ H[u] = s
    \/ \E l \in Link : l[1] = s /\ E[l] = "up" /\ H[u] \in Behind[l]

Introduced(E, N, K, H) == (\A l \in Link : LinkTells(l, E, N, K, H)) /\ Reached(E, K, H)

-----------------------------------------------------------------------------
(* One queue.                                                              *)

(* Reading the first message.                                              *)
LEMMA ReadOnce ==
  ASSUME NEW M, NEW q \in Seq(M), q # <<>>, NEW u, NEW H, NEW A, NEW B,
         Once(q, u, A, H),
         u \in B => u \in A \/ Begins(Head(q), u),
         Ends(Head(q), u, H) => u \notin B
  PROVE  Once(Tail(q), u, B, H) /\ (Ended(q, u, A, H) => Ended(Tail(q), u, B, H))
<1> DEFINE r == Tail(q)
           Beg(i) == Begins(q[i], u)
           End(i) == Ends(q[i], u, H)
<1>1. /\ Len(q) \in Nat \ {0} /\ r \in Seq(M) /\ Len(r) = Len(q) - 1
      /\ \A i \in 1 .. Len(r) : r[i] = q[i + 1]
      /\ Head(q) = q[1]
  OBVIOUS
<1>2. /\ \A i, j \in 1 .. Len(q) : i < j /\ Beg(i) /\ Beg(j)
           => \E k \in 1 .. Len(q) : i < k /\ k < j /\ End(k)
      /\ u \in A => \A j \in 1 .. Len(q) : Beg(j) => \E k \in 1 .. Len(q) : k < j /\ End(k)
  BY DEF Once
<1>3. (u \in B => u \in A \/ Beg(1)) /\ (End(1) => u \notin B)
  BY <1>1
<1>4. \A i \in 1 .. Len(r) : i + 1 \in 1 .. Len(q) /\ (Begins(r[i], u) <=> Beg(i + 1))
                             /\ (Ends(r[i], u, H) <=> End(i + 1))
  BY <1>1
<1>5. \A k \in 1 .. Len(q) : k > 1 => k - 1 \in 1 .. Len(r) /\ (Ends(r[k - 1], u, H) <=> End(k))
  BY <1>1
<1>6. Ended(q, u, A, H) =>
        /\ \A i \in 1 .. Len(q) : Beg(i) => \E k \in 1 .. Len(q) : i < k /\ End(k)
        /\ u \in A => \E k \in 1 .. Len(q) : End(k)
  BY DEF Ended
<1> HIDE DEF Beg, End, r
<1>7. ASSUME NEW i \in 1 .. Len(r), NEW j \in 1 .. Len(r), i < j,
             Begins(r[i], u), Begins(r[j], u)
      PROVE  \E k \in 1 .. Len(r) : i < k /\ k < j /\ Ends(r[k], u, H)
  <2>1. PICK k \in 1 .. Len(q) : i + 1 < k /\ k < j + 1 /\ End(k)
    BY <1>1, <1>2, <1>4, <1>7
  <2>2. k - 1 \in 1 .. Len(r) /\ Ends(r[k - 1], u, H)
    BY <1>1, <1>5, <2>1
  <2> QED
    BY <1>1, <2>1, <2>2
<1>8. ASSUME u \in B, NEW j \in 1 .. Len(r), Begins(r[j], u)
      PROVE  \E k \in 1 .. Len(r) : k < j /\ Ends(r[k], u, H)
  <2>1. PICK k \in 1 .. Len(q) : 1 < k /\ k < j + 1 /\ End(k)
    <3>1. CASE Beg(1)
      BY <1>1, <1>2, <1>4, <1>8, <3>1
    <3>2. CASE u \in A
      BY <1>1, <1>2, <1>3, <1>4, <1>8, <3>2
    <3> QED
      BY <1>3, <1>8, <3>1, <3>2
  <2>2. k - 1 \in 1 .. Len(r) /\ Ends(r[k - 1], u, H)
    BY <1>1, <1>5, <2>1
  <2> QED
    BY <1>1, <2>1, <2>2
<1>9. ASSUME Ended(q, u, A, H), NEW i \in 1 .. Len(r), Begins(r[i], u)
      PROVE  \E k \in 1 .. Len(r) : i < k /\ Ends(r[k], u, H)
  <2>1. PICK k \in 1 .. Len(q) : i + 1 < k /\ End(k)
    BY <1>1, <1>4, <1>6, <1>9
  <2>2. k - 1 \in 1 .. Len(r) /\ Ends(r[k - 1], u, H)
    BY <1>1, <1>5, <2>1
  <2> QED
    BY <1>1, <2>1, <2>2
<1>10. ASSUME Ended(q, u, A, H), u \in B
       PROVE  \E k \in 1 .. Len(r) : Ends(r[k], u, H)
  <2>1. PICK k \in 1 .. Len(q) : 1 < k /\ End(k)
    <3>1. CASE Beg(1)
      BY <1>1, <1>6, <1>10, <3>1
    <3>2. CASE u \in A
      BY <1>1, <1>3, <1>6, <1>10, <3>2
    <3> QED
      BY <1>3, <1>10, <3>1, <3>2
  <2>2. k - 1 \in 1 .. Len(r) /\ Ends(r[k - 1], u, H)
    BY <1>1, <1>5, <2>1
  <2> QED
    BY <2>2
<1>11. Once(r, u, B, H) /\ (Ended(q, u, A, H) => Ended(r, u, B, H))
  BY <1>7, <1>8, <1>9, <1>10 DEF Once, Ended
<1> QED
  BY <1>11 DEF r

(* Adding a message: an introduction only after all others have ended.     *)
LEMMA SendOnce ==
  ASSUME NEW M, NEW q \in Seq(M), NEW u, NEW H, NEW m \in M, NEW A,
         Once(q, u, A, H), Begins(m, u) => Ended(q, u, A, H)
  PROVE  /\ Once(q \o <<m>>, u, A, H)
         /\ Ended(q, u, A, H) /\ ~Begins(m, u) => Ended(q \o <<m>>, u, A, H)
         /\ Ends(m, u, H) => Ended(q \o <<m>>, u, A, H)
<1> DEFINE r == q \o <<m>>
           n == Len(q)
           Beg(i) == Begins(q[i], u)
           End(i) == Ends(q[i], u, H)
<1>1. /\ n \in Nat /\ r \in Seq(M) /\ Len(r) = n + 1
      /\ \A i \in 1 .. n : r[i] = q[i]
      /\ r[n + 1] = m
  OBVIOUS
<1>2. /\ \A i, j \in 1 .. n : i < j /\ Beg(i) /\ Beg(j)
           => \E k \in 1 .. n : i < k /\ k < j /\ End(k)
      /\ u \in A => \A j \in 1 .. n : Beg(j) => \E k \in 1 .. n : k < j /\ End(k)
  BY DEF Once
<1>3. Ended(q, u, A, H) =>
        /\ \A i \in 1 .. n : Beg(i) => \E k \in 1 .. n : i < k /\ End(k)
        /\ u \in A => \E k \in 1 .. n : End(k)
  BY DEF Ended
<1>4. \A i \in 1 .. n : /\ i \in 1 .. Len(r) /\ (Begins(r[i], u) <=> Beg(i))
                        /\ (Ends(r[i], u, H) <=> End(i))
  BY <1>1
<1>5. n + 1 \in 1 .. Len(r) /\ \A i \in 1 .. Len(r) : i \in 1 .. n \/ i = n + 1
  BY <1>1
<1>6. (Begins(m, u) => ~Ends(m, u, H))
  BY DEF Begins, Ends
<1> HIDE DEF Beg, End, r, n
<1>7. ASSUME NEW i \in 1 .. Len(r), NEW j \in 1 .. Len(r), i < j,
             Begins(r[i], u), Begins(r[j], u)
      PROVE  \E k \in 1 .. Len(r) : i < k /\ k < j /\ Ends(r[k], u, H)
  <2>1. i \in 1 .. n /\ Beg(i)
    BY <1>1, <1>4, <1>5, <1>7
  <2>2. PICK k \in 1 .. n : i < k /\ k < j /\ End(k)
    <3>1. CASE j \in 1 .. n
      BY <1>2, <1>4, <1>7, <2>1, <3>1
    <3>2. CASE j = n + 1
      BY <1>1, <1>3, <1>7, <2>1, <3>2
    <3> QED
      BY <1>5, <3>1, <3>2
  <2> QED
    BY <1>4, <2>2
<1>8. ASSUME u \in A, NEW j \in 1 .. Len(r), Begins(r[j], u)
      PROVE  \E k \in 1 .. Len(r) : k < j /\ Ends(r[k], u, H)
  <2>1. PICK k \in 1 .. n : k < j /\ End(k)
    <3>1. CASE j \in 1 .. n
      BY <1>2, <1>4, <1>8, <3>1
    <3>2. CASE j = n + 1
      BY <1>1, <1>3, <1>8, <3>2
    <3> QED
      BY <1>5, <3>1, <3>2
  <2> QED
    BY <1>4, <2>1
<1>9. ASSUME Ended(q, u, A, H), ~Begins(m, u)
      PROVE  Ended(r, u, A, H)
  <2>1. \A i \in 1 .. Len(r) : Begins(r[i], u) => i \in 1 .. n /\ Beg(i)
    BY <1>1, <1>4, <1>5, <1>9
  <2> QED
    BY <1>3, <1>4, <1>9, <2>1 DEF Ended
<1>10. ASSUME Ends(m, u, H)
       PROVE  Ended(r, u, A, H)
  <2>1. \A i \in 1 .. Len(r) : Begins(r[i], u) => i < n + 1
    BY <1>1, <1>5, <1>6, <1>10
  <2> QED
    BY <1>1, <1>5, <1>10, <2>1 DEF Ended
<1>11. Once(r, u, A, H)
  BY <1>7, <1>8 DEF Once
<1> QED
  BY <1>9, <1>10, <1>11 DEF r

(* Whom the receiver forgets.                                              *)
LEMMA ForgetOnce ==
  ASSUME NEW q, NEW u, NEW H, NEW A, NEW B, u \in B => u \in A, Once(q, u, A, H)
  PROVE  Once(q, u, B, H) /\ (Ended(q, u, A, H) => Ended(q, u, B, H))
  BY DEF Once, Ended

(* An empty queue, or a burst, to a server that does not know u.           *)
LEMMA BurstOnce ==
  ASSUME NEW q, NEW u, NEW H, NEW A, u \notin A,
         \A i, j \in 1 .. Len(q) : Begins(q[i], u) /\ Begins(q[j], u) => ~ (i < j)
  PROVE  /\ Once(q, u, A, H)
         /\ (\A i \in 1 .. Len(q) : ~Begins(q[i], u)) => Ended(q, u, A, H)
  BY DEF Once, Ended

-----------------------------------------------------------------------------
(* One server acts: on its own (f = s) or on what came over <<f, s>>.      *)

\* Whom it may be about.
Side(s, f, h) == IF f = s THEN h = s ELSE h \in Behind[<<s, f>>]

\* It goes from knowing A to knowing B and sends out: nothing, or a message
\* which tells of the difference.
Acts(s, f, A, B, out, H) ==
  /\ \A u \in DOMAIN H : (u \in A) # (u \in B) => Side(s, f, H[u])
  /\ \A u \in A \ B : out # <<>> /\ Ends(out[1], u, H)
  /\ out # <<>> =>
       /\ out = <<out[1]>>
       /\ out[1].cmd \in {"NUSER", "UMODE", "QUIT"}
            => out[1].of \in DOMAIN H /\ Side(s, f, H[out[1].of])
       /\ out[1].cmd = "NQUIT" => f # s /\ Behind[out[1].link] \subseteq Behind[<<s, f>>]
       /\ \A u \in DOMAIN H : Begins(out[1], u) => u \notin A /\ u \in B

(* Links are pairs, there and back.                                        *)
LEMMA LinkFacts ==
  ASSUME NEW l \in Link
  PROVE  /\ l = <<l[1], l[2]>> /\ l[1] \in Server /\ l[2] \in Server /\ l[1] # l[2]
         /\ Rev(l) \in Link /\ Rev(Rev(l)) = l /\ Rev(l)[1] = l[2] /\ Rev(l)[2] = l[1]
         /\ l[1] \notin Behind[l] /\ l[2] \in Behind[l]
         /\ Behind[l] \cap Behind[Rev(l)] = {} /\ Behind[l] \subseteq Server
         /\ \A k \in Link : k[1] = l[2] /\ k[2] # l[1] => Behind[k] \subseteq Behind[l]
<1>1. l \in Server \X Server
  BY LinkAssumption DEF LinkAssumption
<1>2. l = <<l[1], l[2]>> /\ l[1] \in Server /\ l[2] \in Server
  BY <1>1
<1>3. Rev(Rev(l)) = l /\ Rev(l)[1] = l[2] /\ Rev(l)[2] = l[1]
  BY <1>2 DEF Rev
<1>4. /\ l[1] # l[2] /\ Rev(l) \in Link
      /\ l[1] \notin Behind[l] /\ l[2] \in Behind[l]
      /\ Behind[l] \cap Behind[Rev(l)] = {}
      /\ \A k \in Link : k[1] = l[2] /\ k[2] # l[1] => Behind[k] \subseteq Behind[l]
  BY LinkAssumption, Zenon DEF LinkAssumption
<1>5. Behind[l] \subseteq Server
  BY LinkAssumption DEF LinkAssumption
<1> QED
  BY <1>2, <1>3, <1>4, <1>5

(* On the other links of s the message is of somebody on the side of s.    *)
LEMMA SideFacts ==
  ASSUME NEW s \in Server, NEW f \in Server, f = s \/ <<s, f>> \in Link,
         NEW h, Side(s, f, h), NEW l \in Link
  PROVE  /\ l[1] = s /\ l[2] # f => h \in Behind[Rev(l)]
         /\ l[2] = s /\ l[1] # f => h \notin Behind[Rev(l)]
         /\ f # s /\ l = <<s, f>> => h \notin Behind[Rev(l)]
<1>1. /\ Rev(l) \in Link /\ Rev(l)[1] = l[2] /\ Rev(l)[2] = l[1]
      /\ l[2] \notin Behind[Rev(l)] /\ l[1] \in Behind[Rev(l)]
      /\ Behind[l] \cap Behind[Rev(l)] = {}
      /\ \A k \in Link : k[1] = l[1] /\ k[2] # l[2] => Behind[k] \subseteq Behind[Rev(l)]
      /\ \A k \in Link : k[1] = l[2] /\ k[2] # l[1] => Behind[k] \subseteq Behind[l]
  BY LinkFacts, ZenonT(60)
<1>2. CASE f = s
  BY <1>1, <1>2 DEF Side
<1>3. CASE f # s
  <2>1. /\ h \in Behind[<<s, f>>] /\ <<s, f>> \in Link
        /\ <<s, f>>[1] = s /\ <<s, f>>[2] = f
    BY <1>3 DEF Side
  <2>2. l[1] = s /\ l[2] # f => Behind[<<s, f>>] \subseteq Behind[Rev(l)]
    BY <1>1, <2>1
  <2>3. l[2] = s /\ l[1] # f => Behind[<<s, f>>] \subseteq Behind[l]
    BY <1>1, <2>1
  <2> QED
    BY <1>1, <2>1, <2>2, <2>3
<1> QED
  BY <1>2, <1>3

\* H the servers of the users P, E the ends, N the queues before the step and
\* N2 after it, K and K2 who knows whom; messages are in M.
Step(M, P, H, E, N, N2, K, K2, s, f, out) ==
  /\ H \in [P -> Server] /\ N \in [Link -> Seq(M)]
  /\ K \in [Server -> SUBSET P] /\ K2 \in [Server -> SUBSET P]
  /\ s \in Server /\ f \in Server /\ (f = s \/ <<s, f>> \in Link)
  /\ \A x \in Server : x # s => K2[x] = K[x]
  /\ out \in Seq(M) /\ Acts(s, f, K[s], K2[s], out, H)

\* out goes to all links of s but the one to f; other links stay as they are.
Relays(E, N, N2, s, f, out) ==
  \A l \in Link : l # <<s, f>> /\ l # <<f, s>> =>
    N2[l] = IF out # <<>> /\ l[1] = s /\ Live(l, E) THEN N[l] \o out ELSE N[l]

OthersTell(E, N, K, H, s, f) ==
  \A l \in Link : l # <<s, f>> /\ l # <<f, s>> => LinkTells(l, E, N, K, H)

\* s has read the first message from f: it knows what that says.
Reads(H, E, N, N2, K, K2, s, f) ==
  /\ <<s, f>> \in Link /\ <<f, s>> \in Link /\ E[<<s, f>>] = "up"
  /\ N[<<f, s>>] # <<>> /\ N2[<<f, s>>] = Tail(N[<<f, s>>])
  /\ \A u \in K2[s] \ K[s] : Begins(Head(N[<<f, s>>]), u)
  /\ \A u \in K2[s] : ~Ends(Head(N[<<f, s>>]), u, H)

\* It may answer NBOUNCE.
Answers(M, E, N, N2, s, f) ==
  \/ N2[<<s, f>>] = N[<<s, f>>]
  \/ \E m \in M : /\ m.cmd = "NBOUNCE" /\ Live(<<s, f>>, E)
                  /\ N2[<<s, f>>] = N[<<s, f>>] \o <<m>>

(* What s sends on a link keeps it well.                                   *)
LEMMA OutLink ==
  ASSUME NEW M, NEW P, NEW H, NEW E, NEW N, NEW N2, NEW K, NEW K2, NEW s, NEW f, NEW out,
         Step(M, P, H, E, N, N2, K, K2, s, f, out),
         NEW l \in Link, l[1] = s, l[2] # f,
         N2[l] = IF out # <<>> /\ Live(l, E) THEN N[l] \o out ELSE N[l],
         LinkTells(l, E, N, K, H)
  PROVE  LinkTells(l, E, N2, K2, H)
<1>1. /\ H \in [P -> Server] /\ N \in [Link -> Seq(M)]
      /\ K \in [Server -> SUBSET P] /\ K2 \in [Server -> SUBSET P]
      /\ s \in Server /\ f \in Server /\ (f = s \/ <<s, f>> \in Link)
      /\ \A x \in Server : x # s => K2[x] = K[x]
      /\ out \in Seq(M) /\ Acts(s, f, K[s], K2[s], out, H)
  BY DEF Step
<1> USE <1>1
<1> DEFINE q == N[l]
           t == l[2]
<1>2. /\ q \in Seq(M) /\ t \in Server /\ t # s /\ K2[t] = K[t] /\ K2[s] = K2[s]
      /\ K[s] \in SUBSET P /\ DOMAIN H = P
  BY LinkFacts
<1>3. /\ \A i \in 1 .. Len(q) : Outward(q[i], l, H)
      /\ E[Rev(l)] = "down" \/ E[l] = "open" => q = <<>>
      /\ E[Rev(l)] # "up" \/ E[l] = "open"
           => \A u \in K[t] : H[u] \notin Behind[Rev(l)]
      /\ \A u \in DOMAIN H : H[u] \in Behind[Rev(l)]
           => /\ Once(q, u, K[t], H)
              /\ Live(l, E) /\ u \notin K[s] => Ended(q, u, K[t], H)
  BY DEF LinkTells
<1>4. \A h : Side(s, f, h) => h \in Behind[Rev(l)]
  BY SideFacts, ZenonT(60)
<1>5. CASE out # <<>> /\ Live(l, E)
  <2> DEFINE m == out[1]
  <2>1. m \in M /\ out = <<m>>
    <3>1. out = <<out[1]>>
      BY <1>5, Zenon DEF Acts
    <3> QED
      BY <1>5, <3>1
  <2>2. N2[l] = q \o <<m>>
    BY <1>5, <2>1, Zenon
  <2>3. E[l] = "up" /\ E[Rev(l)] # "down"
    BY <1>5 DEF Live
  <2>4. /\ m.cmd \in {"NUSER", "UMODE", "QUIT"} => Side(s, f, H[m.of])
        /\ m.cmd = "NQUIT" => f # s /\ Behind[m.link] \subseteq Behind[<<s, f>>]
        /\ \A u \in DOMAIN H : Begins(m, u) => u \notin K[s] /\ u \in K2[s]
        /\ \A u \in K[s] \ K2[s] : Ends(m, u, H)
    BY <1>5 DEF Acts
  <2> HIDE DEF m, q, t
  <2>5. Outward(m, l, H)
    <3>1. ASSUME m.cmd = "NQUIT"
          PROVE  Behind[m.link] \subseteq Behind[Rev(l)]
      <4>1. \A h \in Behind[<<s, f>>] : Side(s, f, h)
        BY <2>4, <3>1 DEF Side
      <4> QED
        BY <1>4, <2>4, <3>1, <4>1
    <3> QED
      BY <1>4, <2>4, <3>1 DEF Outward
  <2>6. \A i \in 1 .. Len(q \o <<m>>) : Outward((q \o <<m>>)[i], l, H)
    <3> SUFFICES ASSUME NEW i \in 1 .. Len(q \o <<m>>)
                 PROVE  Outward((q \o <<m>>)[i], l, H)
      OBVIOUS
    <3>1. (i \in 1 .. Len(q) /\ (q \o <<m>>)[i] = q[i]) \/ (q \o <<m>>)[i] = m
      BY <1>2, <2>1
    <3> QED
      BY <1>3, <2>5, <3>1
  <2>7. ASSUME NEW u \in DOMAIN H, H[u] \in Behind[Rev(l)]
        PROVE  /\ Once(q \o <<m>>, u, K[t], H)
               /\ u \notin K2[s] => Ended(q \o <<m>>, u, K[t], H)
    <3>1. Once(q, u, K[t], H) /\ (u \notin K[s] => Ended(q, u, K[t], H))
      BY <1>3, <1>5, <2>7
    <3>2. Begins(m, u) => Ended(q, u, K[t], H)
      BY <2>4, <3>1
    <3>3. /\ Once(q \o <<m>>, u, K[t], H)
          /\ Ended(q, u, K[t], H) /\ ~Begins(m, u) => Ended(q \o <<m>>, u, K[t], H)
          /\ Ends(m, u, H) => Ended(q \o <<m>>, u, K[t], H)
      BY <1>2, <2>1, <3>1, <3>2, SendOnce, Zenon
    <3> QED
      BY <2>4, <3>1, <3>3
  <2>8. K2[l[2]] = K[t] /\ K2[l[1]] = K2[s]
    BY <1>2 DEF t
  <2>9. LinkTells(l, E, N2, K2, H)
    BY <1>3, <2>2, <2>3, <2>6, <2>7, <2>8 DEF LinkTells, t
  <2> QED
    BY <2>9
<1>6. CASE ~(out # <<>> /\ Live(l, E))
  <2>1. N2[l] = q
    BY <1>6
  <2>2. Live(l, E) => \A u \in K[s] : u \in K2[s]
    BY <1>6 DEF Acts
  <2> HIDE DEF q, t
  <2>3. K2[l[2]] = K[t] /\ K2[l[1]] = K2[s]
    BY <1>2 DEF t
  <2>4. LinkTells(l, E, N2, K2, H)
    BY <1>3, <2>1, <2>2, <2>3 DEF LinkTells, t
  <2> QED
    BY <2>4
<1> QED
  BY <1>5, <1>6

(* On the links to s it knows fewer, but for the one it was told over.     *)
LEMMA InLink ==
  ASSUME NEW M, NEW P, NEW H, NEW E, NEW N, NEW N2, NEW K, NEW K2, NEW s, NEW f, NEW out,
         Step(M, P, H, E, N, N2, K, K2, s, f, out),
         NEW l \in Link, l[2] = s, l[1] # f, N2[l] = N[l],
         LinkTells(l, E, N, K, H)
  PROVE  LinkTells(l, E, N2, K2, H)
<1>1. /\ H \in [P -> Server] /\ N \in [Link -> Seq(M)]
      /\ K \in [Server -> SUBSET P] /\ K2 \in [Server -> SUBSET P]
      /\ s \in Server /\ f \in Server /\ (f = s \/ <<s, f>> \in Link)
      /\ \A x \in Server : x # s => K2[x] = K[x]
      /\ out \in Seq(M) /\ Acts(s, f, K[s], K2[s], out, H)
  BY DEF Step
<1> USE <1>1
<1>2. l[1] \in Server /\ l[1] # s /\ K2[l[1]] = K[l[1]] /\ K2[l[2]] = K2[s]
      /\ K[s] \in SUBSET P /\ DOMAIN H = P
  BY LinkFacts
<1>3. \A u \in K2[s] : H[u] \in Behind[Rev(l)] => u \in K[l[2]]
  <2>1. ASSUME NEW h, Side(s, f, h)
        PROVE  h \notin Behind[Rev(l)]
    BY <2>1, SideFacts
  <2> QED
    BY <1>2, <2>1 DEF Acts
<1>4. ASSUME NEW u \in DOMAIN H, H[u] \in Behind[Rev(l)]
      PROVE  /\ Once(N2[l], u, K2[s], H)
             /\ Live(l, E) /\ u \notin K2[l[1]] => Ended(N2[l], u, K2[s], H)
  <2>1. /\ Once(N[l], u, K[l[2]], H)
        /\ Live(l, E) /\ u \notin K[l[1]] => Ended(N[l], u, K[l[2]], H)
    BY <1>4 DEF LinkTells
  <2>2. u \in K2[s] => u \in K[l[2]]
    BY <1>3, <1>4
  <2>3. /\ Once(N[l], u, K2[s], H)
        /\ Ended(N[l], u, K[l[2]], H) => Ended(N[l], u, K2[s], H)
    BY <2>1, <2>2, ForgetOnce, Zenon
  <2> QED
    BY <1>2, <2>1, <2>3
<1>5. LinkTells(l, E, N2, K2, H)
  BY <1>2, <1>3, <1>4 DEF LinkTells
<1> QED
  BY <1>5

(* The link it was told over: the message is gone, and what it said done.  *)
LEMMA ReadLink ==
  ASSUME NEW M, NEW P, NEW H, NEW E, NEW N, NEW N2, NEW K, NEW K2, NEW s, NEW f, NEW out,
         Step(M, P, H, E, N, N2, K, K2, s, f, out),
         Reads(H, E, N, N2, K, K2, s, f), Introduced(E, N, K, H)
  PROVE  LinkTells(<<f, s>>, E, N2, K2, H)
<1>1. /\ H \in [P -> Server] /\ N \in [Link -> Seq(M)]
      /\ K \in [Server -> SUBSET P] /\ K2 \in [Server -> SUBSET P]
      /\ s \in Server /\ f \in Server /\ (f = s \/ <<s, f>> \in Link)
      /\ \A x \in Server : x # s => K2[x] = K[x]
      /\ out \in Seq(M) /\ Acts(s, f, K[s], K2[s], out, H)
  BY DEF Step
<1> USE <1>1
<1> DEFINE l == <<f, s>>
<1>2. /\ l \in Link /\ l[2] = s /\ N[l] # <<>> /\ N2[l] = Tail(N[l])
      /\ E[Rev(l)] = "up" /\ LinkTells(l, E, N, K, H)
      /\ \A u \in K2[s] \ K[s] : Begins(Head(N[l]), u)
      /\ \A u \in K2[s] : ~Ends(Head(N[l]), u, H)
  BY DEF Reads, Introduced, Rev
<1> HIDE DEF l
<1> USE <1>2
<1> DEFINE q == N[l]
<1>3. l[1] \in Server /\ l[1] # s /\ K2[l[1]] = K[l[1]] /\ K2[l[2]] = K2[s]
      /\ K[s] \in SUBSET P /\ DOMAIN H = P
  BY LinkFacts
<1>4. q \in Seq(M) /\ q # <<>>
  OBVIOUS
<1>5. \A i \in 1 .. Len(Tail(q)) : Outward(Tail(q)[i], l, H)
  <2> SUFFICES ASSUME NEW i \in 1 .. Len(Tail(q))
               PROVE  Outward(Tail(q)[i], l, H)
    OBVIOUS
  <2>1. i + 1 \in 1 .. Len(q) /\ Tail(q)[i] = q[i + 1]
    BY <1>4
  <2> QED
    BY <2>1 DEF LinkTells
<1>6. E[Rev(l)] # "down" /\ E[l] # "open"
  BY DEF LinkTells
<1> HIDE DEF q
<1>7. ASSUME NEW u \in DOMAIN H, H[u] \in Behind[Rev(l)]
      PROVE  /\ Once(Tail(q), u, K2[s], H)
             /\ Live(l, E) /\ u \notin K2[l[1]] => Ended(Tail(q), u, K2[s], H)
  <2>1. /\ Once(q, u, K[s], H)
        /\ Live(l, E) /\ u \notin K[l[1]] => Ended(q, u, K[s], H)
    BY <1>7 DEF LinkTells, q
  <2>2. /\ u \in K2[s] => u \in K[s] \/ Begins(Head(q), u)
        /\ Ends(Head(q), u, H) => u \notin K2[s]
    BY DEF q
  <2>3. /\ Once(Tail(q), u, K2[s], H)
        /\ Ended(q, u, K[s], H) => Ended(Tail(q), u, K2[s], H)
    BY <1>4, <2>1, <2>2, ReadOnce, Zenon
  <2> QED
    BY <1>3, <2>1, <2>3
<1>8. LinkTells(l, E, N2, K2, H)
  <2>1. N2[l] = Tail(q)
    BY DEF q
  <2> QED
    BY <1>3, <1>5, <1>6, <1>7, <2>1, ZenonT(60) DEF LinkTells
<1> QED
  BY <1>8 DEF l

(* What goes back over it tells nothing of who is there.                   *)
LEMMA BackLink ==
  ASSUME NEW M, NEW P, NEW H, NEW E, NEW N, NEW N2, NEW K, NEW K2, NEW s, NEW f, NEW out,
         Step(M, P, H, E, N, N2, K, K2, s, f, out),
         Reads(H, E, N, N2, K, K2, s, f), Answers(M, E, N, N2, s, f),
         Introduced(E, N, K, H)
  PROVE  LinkTells(<<s, f>>, E, N2, K2, H)
<1>1. /\ H \in [P -> Server] /\ N \in [Link -> Seq(M)]
      /\ K \in [Server -> SUBSET P] /\ K2 \in [Server -> SUBSET P]
      /\ s \in Server /\ f \in Server /\ (f = s \/ <<s, f>> \in Link)
      /\ \A x \in Server : x # s => K2[x] = K[x]
      /\ out \in Seq(M) /\ Acts(s, f, K[s], K2[s], out, H)
  BY DEF Step
<1> USE <1>1
<1> DEFINE l == <<s, f>>
<1>2. /\ l \in Link /\ f # s /\ LinkTells(l, E, N, K, H)
      /\ \/ N2[l] = N[l]
         \/ \E m \in M : m.cmd = "NBOUNCE" /\ Live(l, E) /\ N2[l] = N[l] \o <<m>>
  BY LinkFacts DEF Reads, Introduced, Answers
<1>3. l = <<s, f>>
  OBVIOUS
<1> HIDE DEF l
<1> USE <1>2, <1>3
<1> DEFINE q == N[l]
<1>4. l[1] = s /\ l[2] = f /\ K2[l[1]] = K2[s] /\ K2[l[2]] = K[l[2]]
      /\ K[s] \in SUBSET P /\ DOMAIN H = P /\ q \in Seq(M)
  BY LinkFacts
<1>5. \A u \in DOMAIN H : H[u] \in Behind[Rev(l)] => (u \in K2[s] <=> u \in K[s])
  <2>1. <<s, f>> \in Link
    OBVIOUS
  <2>2. \A h : Side(s, f, h) => h \notin Behind[Rev(l)]
    BY <2>1, SideFacts, Zenon
  <2> QED
    BY <2>2 DEF Acts
<1>6. /\ \A i \in 1 .. Len(q) : Outward(q[i], l, H)
      /\ E[Rev(l)] = "down" \/ E[l] = "open" => q = <<>>
      /\ E[Rev(l)] # "up" \/ E[l] = "open"
           => \A u \in K[l[2]] : H[u] \notin Behind[Rev(l)]
      /\ \A u \in DOMAIN H : H[u] \in Behind[Rev(l)]
           => /\ Once(q, u, K[l[2]], H)
              /\ Live(l, E) /\ u \notin K[s] => Ended(q, u, K[l[2]], H)
  BY <1>4 DEF LinkTells
<1> HIDE DEF q
<1>7. N2[l] = q => LinkTells(l, E, N2, K2, H)
  BY <1>4, <1>5, <1>6, ZenonT(60) DEF LinkTells
<1>8. ASSUME NEW m \in M, m.cmd = "NBOUNCE", Live(l, E), N2[l] = q \o <<m>>
      PROVE  LinkTells(l, E, N2, K2, H)
  <2>1. Outward(m, l, H) /\ \A u : ~Begins(m, u)
    BY <1>8 DEF Outward, Begins
  <2>2. \A i \in 1 .. Len(q \o <<m>>) : Outward((q \o <<m>>)[i], l, H)
    <3> SUFFICES ASSUME NEW i \in 1 .. Len(q \o <<m>>)
                 PROVE  Outward((q \o <<m>>)[i], l, H)
      OBVIOUS
    <3>1. (i \in 1 .. Len(q) /\ (q \o <<m>>)[i] = q[i]) \/ (q \o <<m>>)[i] = m
      BY <1>4
    <3> QED
      BY <1>6, <2>1, <3>1
  <2>3. E[Rev(l)] # "down" /\ E[l] # "open"
    BY <1>8 DEF Live
  <2>4. ASSUME NEW u \in DOMAIN H, H[u] \in Behind[Rev(l)]
        PROVE  /\ Once(q \o <<m>>, u, K[l[2]], H)
               /\ u \notin K2[s] => Ended(q \o <<m>>, u, K[l[2]], H)
    <3>1. Once(q, u, K[l[2]], H) /\ (u \notin K2[s] => Ended(q, u, K[l[2]], H))
      BY <1>5, <1>6, <1>8, <2>4
    <3>2. /\ Once(q \o <<m>>, u, K[l[2]], H)
          /\ Ended(q, u, K[l[2]], H) /\ ~Begins(m, u)
             => Ended(q \o <<m>>, u, K[l[2]], H)
      BY <1>4, <2>1, <3>1, SendOnce, Zenon
    <3> QED
      BY <2>1, <3>1, <3>2
  <2> QED
    BY <1>4, <1>6, <1>8, <2>2, <2>3, <2>4, ZenonT(60) DEF LinkTells
<1>9. LinkTells(l, E, N2, K2, H)
  <2>1. N2[l] = q \/ \E m \in M : m.cmd = "NBOUNCE" /\ Live(l, E) /\ N2[l] = q \o <<m>>
    BY DEF q
  <2> QED
    BY <1>7, <1>8, <2>1
<1> QED
  BY <1>9 DEF l

(* All links but the two between s and f.                                  *)
LEMMA OtherLinks ==
  ASSUME NEW M, NEW P, NEW H, NEW E, NEW N, NEW N2, NEW K, NEW K2, NEW s, NEW f, NEW out,
         Step(M, P, H, E, N, N2, K, K2, s, f, out),
         Relays(E, N, N2, s, f, out),
         Introduced(E, N, K, H)
  PROVE  OthersTell(E, N2, K2, H, s, f)
<1>1. /\ H \in [P -> Server] /\ N \in [Link -> Seq(M)]
      /\ K \in [Server -> SUBSET P] /\ K2 \in [Server -> SUBSET P]
      /\ s \in Server /\ f \in Server /\ (f = s \/ <<s, f>> \in Link)
      /\ \A x \in Server : x # s => K2[x] = K[x]
      /\ out \in Seq(M) /\ Acts(s, f, K[s], K2[s], out, H)
  BY DEF Step
<1> USE <1>1
<1> SUFFICES ASSUME NEW l \in Link, l # <<s, f>>, l # <<f, s>>
             PROVE  LinkTells(l, E, N2, K2, H)
  BY DEF OthersTell
<1>2. /\ N2[l] = IF out # <<>> /\ l[1] = s /\ Live(l, E) THEN N[l] \o out ELSE N[l]
      /\ LinkTells(l, E, N, K, H)
  BY DEF Introduced, Relays
<1>3. l = <<l[1], l[2]>> /\ l[1] \in Server /\ l[2] \in Server /\ l[1] # l[2]
  BY LinkFacts
<1>4. CASE l[1] = s
  <2>1. l[2] # f
    BY <1>3, <1>4
  <2>2. N2[l] = IF out # <<>> /\ Live(l, E) THEN N[l] \o out ELSE N[l]
    BY <1>2, <1>4
  <2> QED
    BY <1>2, <1>4, <2>1, <2>2, OutLink
<1>5. CASE l[2] = s
  <2>1. l[1] # f /\ l[1] # s
    BY <1>3, <1>5
  <2>2. N2[l] = N[l]
    BY <1>2, <2>1
  <2> QED
    BY <1>2, <1>5, <2>1, <2>2, InLink
<1>6. CASE l[1] # s /\ l[2] # s
  <2>1. K2[l[1]] = K[l[1]] /\ K2[l[2]] = K[l[2]] /\ N2[l] = N[l]
    BY <1>2, <1>3, <1>6
  <2>2. LinkTells(l, E, N2, K2, H)
    BY <1>2, <2>1 DEF LinkTells
  <2> QED
    BY <2>2
<1> QED
  BY <1>4, <1>5, <1>6

(* A server acts on its own.                                               *)
LEMMA ActsAlone ==
  ASSUME NEW M, NEW P, NEW H, NEW E, NEW N, NEW N2, NEW K, NEW K2, NEW s, NEW out,
         Step(M, P, H, E, N, N2, K, K2, s, s, out),
         Relays(E, N, N2, s, s, out), Introduced(E, N, K, H)
  PROVE  Introduced(E, N2, K2, H)
<1>1. /\ H \in [P -> Server] /\ N \in [Link -> Seq(M)]
      /\ K \in [Server -> SUBSET P] /\ K2 \in [Server -> SUBSET P]
      /\ s \in Server
      /\ \A x \in Server : x # s => K2[x] = K[x]
      /\ out \in Seq(M) /\ Acts(s, s, K[s], K2[s], out, H)
  BY DEF Step
<1> USE <1>1
<1>2. \A l \in Link : l # <<s, s>> => LinkTells(l, E, N2, K2, H)
  <2>1. OthersTell(E, N2, K2, H, s, s)
    BY OtherLinks, Zenon
  <2> QED
    BY <2>1 DEF OthersTell
<1>3. ASSUME NEW l \in Link
      PROVE  LinkTells(l, E, N2, K2, H)
  <2>1. l # <<s, s>>
    BY LinkFacts
  <2> QED
    BY <1>2, <2>1
<1>4. Reached(E, K2, H)
  <2>1. \A x \in Server : K2[x] = IF x = s THEN K2[s] ELSE K[x]
    OBVIOUS
  <2>2. \A u \in K2[s] \ K[s] : H[u] = s
    BY DEF Acts, Side
  <2> QED
    BY <2>1, <2>2, SMTT(40) DEF Reached, Introduced
<1> QED
  BY <1>3, <1>4 DEF Introduced

(* It acts on the first message from f.                                    *)
LEMMA ActsOnRead ==
  ASSUME NEW M, NEW P, NEW H, NEW E, NEW N, NEW N2, NEW K, NEW K2, NEW s, NEW f, NEW out,
         Step(M, P, H, E, N, N2, K, K2, s, f, out), Relays(E, N, N2, s, f, out),
         Reads(H, E, N, N2, K, K2, s, f), Answers(M, E, N, N2, s, f),
         Introduced(E, N, K, H)
  PROVE  Introduced(E, N2, K2, H)
<1>1. OthersTell(E, N2, K2, H, s, f)
  BY OtherLinks, Zenon
<1>2. LinkTells(<<f, s>>, E, N2, K2, H)
  BY ReadLink, Zenon
<1>3. LinkTells(<<s, f>>, E, N2, K2, H)
  BY BackLink, Zenon
<1>4. Reached(E, K2, H)
  <2>1. /\ \A x \in Server : x # s => K2[x] = K[x]
        /\ Acts(s, f, K[s], K2[s], out, H) /\ H \in [P -> Server]
        /\ K2 \in [Server -> SUBSET P] /\ s \in Server
    BY DEF Step
  <2>2. \A u \in K2[s] \ K[s] : H[u] \in Behind[<<s, f>>] /\ <<s, f>>[1] = s
    BY <2>1, LinkFacts DEF Acts, Side, Reads
  <2>3. \A x \in Server : \A u \in K[x] :
          H[u] = x \/ \E l \in Link : l[1] = x /\ E[l] = "up" /\ H[u] \in Behind[l]
    BY DEF Introduced, Reached
  <2> QED
    BY <2>1, <2>2, <2>3 DEF Reached, Reads
<1> QED
  BY <1>1, <1>2, <1>3, <1>4 DEF Introduced, OthersTell

\* Its end of the link to f is down, and who was behind it forgotten.
Closes(E, N, E2, N2, K, K2, H, s, f) ==
  /\ <<s, f>> \in Link /\ <<f, s>> \in Link
  /\ \A l \in Link : E2[l] = IF l = <<s, f>> THEN "down" ELSE E[l]
  /\ N2[<<f, s>>] = <<>> /\ N2[<<s, f>>] = N[<<s, f>>]
  /\ K2[s] = {u \in K[s] : H[u] \notin Behind[<<s, f>>]}

(* It gives up its end of the link to f.                                   *)
LEMMA ActsOnClose ==
  ASSUME NEW M, NEW P, NEW H, NEW E, NEW N, NEW E2, NEW N2, NEW K, NEW K2, NEW s, NEW f,
         NEW out, Step(M, P, H, E, N, N2, K, K2, s, f, out), Relays(E, N, N2, s, f, out),
         Closes(E, N, E2, N2, K, K2, H, s, f), Introduced(E, N, K, H)
  PROVE  Introduced(E2, N2, K2, H)
<1>1. /\ H \in [P -> Server] /\ N \in [Link -> Seq(M)]
      /\ K \in [Server -> SUBSET P] /\ K2 \in [Server -> SUBSET P]
      /\ s \in Server /\ f \in Server /\ (f = s \/ <<s, f>> \in Link)
      /\ \A x \in Server : x # s => K2[x] = K[x]
      /\ out \in Seq(M) /\ Acts(s, f, K[s], K2[s], out, H)
  BY DEF Step
<1> USE <1>1 DEF Closes
<1>2. /\ f # s /\ Rev(<<f, s>>) = <<s, f>> /\ Rev(<<s, f>>) = <<f, s>>
      /\ <<f, s>>[2] = s /\ <<f, s>>[1] = f /\ <<s, f>>[1] = s /\ <<s, f>>[2] = f
      /\ <<s, f>> # <<f, s>>
  BY LinkFacts DEF Rev
<1>3. \A x \in Server : K2[x] = IF x = s THEN K2[s] ELSE K[x]
  OBVIOUS
<1>4. OthersTell(E, N2, K2, H, s, f)
  BY OtherLinks, Zenon
<1>5. ASSUME NEW l \in Link
      PROVE  LinkTells(l, E2, N2, K2, H)
  <2>1. LinkTells(l, E, N, K, H) /\ DOMAIN H = P
    BY DEF Introduced
  <2>2. CASE l = <<f, s>>
    <3>1. N2[l] = <<>> /\ K2[l[2]] = K2[s] /\ E2[Rev(l)] = "down" /\ Behind[Rev(l)] = Behind[<<s, f>>]
      BY <1>2, <1>3, <2>2
    <3>2. ASSUME NEW u \in DOMAIN H, H[u] \in Behind[Rev(l)]
          PROVE  Once(N2[l], u, K2[s], H)
      BY <3>1, <3>2 DEF Once
    <3>3. ~Live(l, E2) /\ \A i \in 1 .. Len(N2[l]) : FALSE
      BY <3>1 DEF Live
    <3>4. \A u \in K2[l[2]] : H[u] \notin Behind[Rev(l)]
      BY <3>1
    <3> QED
      BY <3>1, <3>2, <3>3, <3>4 DEF LinkTells
  <2>3. CASE l = <<s, f>>
    <3>1. /\ N2[l] = N[l] /\ K2[l[2]] = K[l[2]] /\ E2[l] = "down" /\ ~Live(l, E2)
          /\ E2[Rev(l)] = E[Rev(l)]
      BY <1>2, <1>3, <2>3 DEF Live
    <3> QED
      BY <2>1, <3>1 DEF LinkTells
  <2>4. CASE l # <<f, s>> /\ l # <<s, f>>
    <3>1. LinkTells(l, E, N2, K2, H)
      BY <1>4, <2>4 DEF OthersTell
    <3>2. Rev(l) \in Link /\ Rev(Rev(l)) = l
      BY LinkFacts
    <3>3. Rev(l) # <<s, f>>
      BY <1>2, <2>4, <3>2
    <3>4. E2[l] = E[l] /\ E2[Rev(l)] = E[Rev(l)]
      BY <2>4, <3>2, <3>3
    <3> QED
      BY <3>1, <3>4 DEF LinkTells, Live
  <2> QED
    BY <2>2, <2>3, <2>4
<1>6. Reached(E2, K2, H)
  <2>1. \A x \in Server : \A u \in K[x] :
          H[u] = x \/ \E l \in Link : l[1] = x /\ E[l] = "up" /\ H[u] \in Behind[l]
    BY DEF Introduced, Reached
  <2> SUFFICES ASSUME NEW x \in Server, NEW u \in K2[x], H[u] # x
               PROVE  \E l \in Link : l[1] = x /\ E2[l] = "up" /\ H[u] \in Behind[l]
    BY DEF Reached
  <2>2. u \in K[x] /\ (x = s => H[u] \notin Behind[<<s, f>>])
    BY <1>3
  <2>3. PICK l \in Link : l[1] = x /\ E[l] = "up" /\ H[u] \in Behind[l]
    BY <2>1, <2>2
  <2>4. l # <<s, f>>
    BY <1>2, <2>2, <2>3
  <2> QED
    BY <2>3, <2>4
<1> QED
  BY <1>5, <1>6 DEF Introduced

\* s sends everybody it knows.
IsBurst(b, A) ==
  /\ \A i \in 1 .. Len(b) : b[i].cmd = "NUSER" /\ b[i].of \in A
  /\ \A i, j \in 1 .. Len(b) : b[i].of = b[j].of => i = j

\* E2 and N2 differ from E and N on the link from s to f and back.
Between(E, N, E2, N2, s, f) ==
  /\ <<s, f>> \in Link /\ <<f, s>> \in Link
  /\ \A l \in Link : l # <<s, f>> /\ l # <<f, s>> => E2[l] = E[l] /\ N2[l] = N[l]

(* Who is known is left alone: the other links stay as they are.           *)
LEMMA OthersStay ==
  ASSUME NEW H, NEW E, NEW N, NEW E2, NEW N2, NEW K, NEW s, NEW f,
         Between(E, N, E2, N2, s, f), Introduced(E, N, K, H)
  PROVE  OthersTell(E2, N2, K, H, s, f)
<1> SUFFICES ASSUME NEW l \in Link, l # <<s, f>>, l # <<f, s>>
             PROVE  LinkTells(l, E2, N2, K, H)
  BY DEF OthersTell
<1>1. LinkTells(l, E, N, K, H)
  BY DEF Introduced
<1>2. Rev(l) \in Link /\ Rev(Rev(l)) = l
  BY LinkFacts
<1>3. Rev(<<s, f>>) = <<f, s>> /\ Rev(<<f, s>>) = <<s, f>>
  BY DEF Rev
<1>4. Rev(l) # <<s, f>> /\ Rev(l) # <<f, s>>
  BY <1>2, <1>3
<1>5. N2[l] = N[l] /\ E2[l] = E[l] /\ E2[Rev(l)] = E[Rev(l)]
  BY <1>2, <1>4 DEF Between
<1> QED
  BY <1>1, <1>5 DEF LinkTells, Live

Opens(E, N, E2, N2, s, f) ==
  /\ Between(E, N, E2, N2, s, f)
  /\ E[<<s, f>>] = "down" /\ E[<<f, s>>] = "down"
  /\ E2[<<s, f>>] = "open" /\ E2[<<f, s>>] = "open"
  /\ N2[<<s, f>>] = <<>> /\ N2[<<f, s>>] = <<>>

\* s registers, and sends the burst b unless f has gone already.
Registers(E, N, E2, N2, s, f, b) ==
  /\ Between(E, N, E2, N2, s, f)
  /\ E[<<s, f>>] = "open" /\ E2[<<s, f>>] = "up" /\ E2[<<f, s>>] = E[<<f, s>>]
  /\ N2[<<f, s>>] = N[<<f, s>>]
  /\ N2[<<s, f>>] = IF E[<<f, s>>] = "down" THEN <<>> ELSE b

(* A new connection: neither end knows anybody behind the other.           *)
LEMMA Opened ==
  ASSUME NEW H, NEW E, NEW N, NEW E2, NEW N2, NEW K, NEW s, NEW f,
         Opens(E, N, E2, N2, s, f), Introduced(E, N, K, H)
  PROVE  Introduced(E2, N2, K, H)
<1>1. /\ Between(E, N, E2, N2, s, f)
      /\ E[<<s, f>>] = "down" /\ E[<<f, s>>] = "down"
      /\ E2[<<s, f>>] = "open" /\ E2[<<f, s>>] = "open"
      /\ N2[<<s, f>>] = <<>> /\ N2[<<f, s>>] = <<>>
  BY DEF Opens
<1> USE <1>1
<1>2. OthersTell(E2, N2, K, H, s, f)
  BY OthersStay, Zenon
<1>3. ASSUME NEW l \in {<<s, f>>, <<f, s>>}
      PROVE  LinkTells(l, E2, N2, K, H)
  <2>1. Rev(<<s, f>>) = <<f, s>> /\ Rev(<<f, s>>) = <<s, f>>
    BY DEF Rev
  <2>2. /\ l \in Link /\ E[Rev(l)] = "down" /\ E2[l] = "open" /\ E2[Rev(l)] = "open"
        /\ N2[l] = <<>>
    BY <2>1 DEF Between
  <2>3. \A u \in K[l[2]] : H[u] \notin Behind[Rev(l)]
    BY <2>2 DEF Introduced, LinkTells
  <2>4. ~Live(l, E2) /\ \A i \in 1 .. Len(N2[l]) : FALSE
    BY <2>2 DEF Live
  <2>5. ASSUME NEW u \in DOMAIN H, H[u] \in Behind[Rev(l)]
        PROVE  Once(N2[l], u, K[l[2]], H)
    BY <2>3, <2>4, <2>5 DEF Once
  <2> QED
    BY <2>2, <2>3, <2>4, <2>5 DEF LinkTells
<1>4. Reached(E2, K, H)
  <2>1. \A x \in Server : \A u \in K[x] :
          H[u] = x \/ \E l \in Link : l[1] = x /\ E[l] = "up" /\ H[u] \in Behind[l]
    BY DEF Introduced, Reached
  <2>2. \A l \in Link : E[l] = "up" => E2[l] = "up"
    BY DEF Between
  <2> QED
    BY <2>1, <2>2 DEF Reached
<1> QED
  BY <1>2, <1>3, <1>4 DEF Introduced, OthersTell

(* One end registers and sends its burst.                                  *)
LEMMA Registered ==
  ASSUME NEW M, NEW P, NEW H \in [P -> Server], NEW E, NEW N, NEW E2, NEW N2,
         NEW K \in [Server -> SUBSET P], NEW s, NEW f, NEW b \in Seq(M),
         Registers(E, N, E2, N2, s, f, b), Introduced(E, N, K, H), IsBurst(b, K[s])
  PROVE  Introduced(E2, N2, K, H)
<1>1. /\ Between(E, N, E2, N2, s, f)
      /\ E[<<s, f>>] = "open" /\ E2[<<s, f>>] = "up" /\ E2[<<f, s>>] = E[<<f, s>>]
      /\ N2[<<f, s>>] = N[<<f, s>>]
      /\ N2[<<s, f>>] = IF E[<<f, s>>] = "down" THEN <<>> ELSE b
  BY DEF Registers
<1> USE <1>1
<1>2. /\ Rev(<<s, f>>) = <<f, s>> /\ Rev(<<f, s>>) = <<s, f>>
      /\ <<s, f>> \in Link /\ <<f, s>> \in Link /\ s \in Server /\ f \in Server
      /\ <<s, f>>[1] = s /\ <<s, f>>[2] = f /\ s # f /\ DOMAIN H = P
      /\ <<f, s>>[1] = f /\ <<f, s>>[2] = s
  BY LinkFacts DEF Rev, Between
<1>3. OthersTell(E2, N2, K, H, s, f)
  BY OthersStay, Zenon
<1>4. LinkTells(<<f, s>>, E2, N2, K, H)
  <2>1. LinkTells(<<f, s>>, E, N, K, H)
    BY <1>2 DEF Introduced
  <2>2. Live(<<f, s>>, E2) => Live(<<f, s>>, E)
    BY <1>2 DEF Live
  <2> QED
    BY <1>2, <2>1, <2>2 DEF LinkTells
<1>5. LinkTells(<<s, f>>, E2, N2, K, H)
  <2> DEFINE l == <<s, f>>
             q == N2[l]
  <2>1. LinkTells(l, E, N, K, H)
    BY <1>2 DEF Introduced
  <2>2. \A u \in K[f] : H[u] \notin Behind[<<f, s>>]
    BY <1>2, <2>1 DEF LinkTells
  <2>3. \A u \in K[s] : H[u] \in Behind[<<f, s>>]
    <3> SUFFICES ASSUME NEW u \in K[s]
                 PROVE  H[u] \in Behind[<<f, s>>]
      OBVIOUS
    <3>1. CASE H[u] = s
      BY <1>2, <3>1, LinkFacts
    <3>2. CASE H[u] # s
      <4>1. PICK k \in Link : k[1] = s /\ E[k] = "up" /\ H[u] \in Behind[k]
        BY <1>2, <3>2 DEF Introduced, Reached
      <4>2. k = <<k[1], k[2]>>
        BY LinkFacts
      <4>3. k[2] # f
        BY <4>1, <4>2
      <4>4. Behind[k] \subseteq Behind[<<f, s>>]
        BY <1>2, <4>1, <4>3, LinkFacts
      <4> QED
        BY <4>1, <4>4
    <3> QED
      BY <3>1, <3>2
  <2>4. \/ q = <<>> /\ E[<<f, s>>] = "down"
        \/ q = b /\ E[<<f, s>>] # "down"
    OBVIOUS
  <2>5. /\ \A i \in 1 .. Len(q) : q[i].cmd = "NUSER" /\ q[i].of \in K[s]
        /\ \A i, j \in 1 .. Len(q) : q[i].of = q[j].of => i = j
    <3>1. q = <<>> => \A i \in 1 .. Len(q) : FALSE
      OBVIOUS
    <3> QED
      BY <2>4, <3>1 DEF IsBurst
  <2> HIDE DEF q
  <2>6. \A i \in 1 .. Len(q) : Outward(q[i], l, H)
    BY <1>2, <2>3, <2>5 DEF Outward
  <2>7. ASSUME NEW u \in DOMAIN H, H[u] \in Behind[<<f, s>>]
        PROVE  /\ Once(q, u, K[f], H)
               /\ u \notin K[s] => Ended(q, u, K[f], H)
    <3>1. u \notin K[f]
      BY <2>2, <2>7
    <3>2. /\ \A i \in 1 .. Len(q) : Begins(q[i], u) => u \in K[s]
          /\ \A i, j \in 1 .. Len(q) : Begins(q[i], u) /\ Begins(q[j], u) => i = j
      BY <2>5 DEF Begins
    <3>3. Len(q) \in Nat
      BY <2>4
    <3> QED
      BY <3>1, <3>2, <3>3, SMTT(40) DEF Once, Ended
  <2>8. E2[Rev(l)] = "down" => q = <<>>
    BY <1>2, <2>4
  <2>9. q = N2[l] /\ l[1] = s /\ l[2] = f /\ Rev(l) = <<f, s>> /\ E2[l] = "up"
    BY <1>2 DEF q
  <2>10. E2[Rev(l)] # "up" => \A u \in K[f] : H[u] \notin Behind[Rev(l)]
    BY <2>2, <2>9
  <2> HIDE DEF l
  <2>11. LinkTells(l, E2, N2, K, H)
    BY <2>6, <2>7, <2>8, <2>9, <2>10 DEF LinkTells
  <2> QED
    BY <2>11 DEF l
<1>6. Reached(E2, K, H)
  <2>1. \A x \in Server : \A u \in K[x] :
          H[u] = x \/ \E l \in Link : l[1] = x /\ E[l] = "up" /\ H[u] \in Behind[l]
    BY DEF Introduced, Reached
  <2>2. \A l \in Link : E[l] = "up" => E2[l] = "up"
    BY DEF Between
  <2> QED
    BY <2>1, <2>2 DEF Reached
<1> QED
  BY <1>3, <1>4, <1>5, <1>6 DEF Introduced, OthersTell

\* What s makes of the message m: the one it introduces is the one it learns
\* of, it forgets whom m ends, and sends m on if that is anybody.
Obeys(m, A, B, out, H) ==
  /\ \A u \in B \ A : Begins(m, u)
  /\ \A u \in B : ~Ends(m, u, H)
  /\ \A u \in A \ B : Ends(m, u, H) /\ out # <<>>
  /\ m.cmd # "NQUIT" => m.of \in DOMAIN H
  /\ out # <<>> =>
       /\ out = <<out[1]>> /\ out[1].cmd = m.cmd
       /\ IF m.cmd = "NQUIT" THEN out[1] = m ELSE out[1].of = m.of
       /\ \A u \in DOMAIN H : Begins(out[1], u) => u \notin A /\ u \in B

(* To obey is to act.                                                      *)
LEMMA Obeyed ==
  ASSUME NEW M, NEW N \in [Link -> Seq(M)], NEW H, NEW E, NEW K, NEW B, NEW s, NEW f, NEW out,
         <<s, f>> \in Link, <<f, s>> \in Link, N[<<f, s>>] # <<>>,
         Introduced(E, N, K, H), K[s] \subseteq DOMAIN H, B \subseteq DOMAIN H,
         Obeys(Head(N[<<f, s>>]), K[s], B, out, H)
  PROVE  Acts(s, f, K[s], B, out, H)
<1> DEFINE m == Head(N[<<f, s>>])
<1>1. s # f /\ Rev(<<f, s>>) = <<s, f>>
  BY LinkFacts DEF Rev
<1>2. Outward(m, <<f, s>>, H)
  <2>1. m = N[<<f, s>>][1] /\ 1 \in 1 .. Len(N[<<f, s>>])
    OBVIOUS
  <2> QED
    BY <2>1 DEF Introduced, LinkTells
<1>3. /\ m.cmd \in {"NUSER", "UMODE", "QUIT"} => Side(s, f, H[m.of])
      /\ m.cmd = "NQUIT" => Behind[m.link] \subseteq Behind[<<s, f>>]
  BY <1>1, <1>2 DEF Outward, Side
<1>4. \A u : Begins(m, u) \/ Ends(m, u, H) => Side(s, f, H[u])
  BY <1>1, <1>3 DEF Begins, Ends, Side
<1> HIDE DEF m
<1>5. Obeys(m, K[s], B, out, H)
  BY DEF m
<1>6. \A u \in DOMAIN H : (u \in K[s]) # (u \in B) => Side(s, f, H[u])
  BY <1>4, <1>5 DEF Obeys
<1>7. \A u \in K[s] \ B : out # <<>> /\ Ends(out[1], u, H)
  <2>1. ASSUME NEW u, Ends(m, u, H), out # <<>>
        PROVE  Ends(out[1], u, H)
    BY <1>5, <2>1 DEF Obeys, Ends
  <2> QED
    BY <1>5, <2>1 DEF Obeys
<1>8. out # <<>> =>
       /\ out = <<out[1]>>
       /\ out[1].cmd \in {"NUSER", "UMODE", "QUIT"}
            => out[1].of \in DOMAIN H /\ Side(s, f, H[out[1].of])
       /\ out[1].cmd = "NQUIT" => f # s /\ Behind[out[1].link] \subseteq Behind[<<s, f>>]
       /\ \A u \in DOMAIN H : Begins(out[1], u) => u \notin K[s] /\ u \in B
  BY <1>1, <1>3, <1>5 DEF Obeys
<1> QED
  BY <1>6, <1>7, <1>8 DEF Acts

(* Nobody is introduced to a server that knows him.                        *)
LEMMA HeadIsNew ==
  ASSUME NEW M, NEW N \in [Link -> Seq(M)], NEW H, NEW E, NEW K,
         NEW l \in Link, N[l] # <<>>, Introduced(E, N, K, H),
         Head(N[l]).cmd = "NUSER", Head(N[l]).of \in DOMAIN H
  PROVE  Head(N[l]).of \notin K[l[2]]
<1> DEFINE u == Head(N[l]).of
<1>1. /\ Head(N[l]) = N[l][1] /\ Len(N[l]) \in Nat /\ 1 \in 1 .. Len(N[l])
  OBVIOUS
<1>2. Begins(N[l][1], u)
  BY <1>1 DEF Begins
<1>3. H[u] \in Behind[Rev(l)]
  BY <1>1 DEF Introduced, LinkTells, Outward
<1>4. Once(N[l], u, K[l[2]], H)
  BY <1>3 DEF Introduced, LinkTells
<1> HIDE DEF u
<1>5. u \notin K[l[2]]
  BY <1>1, <1>2, <1>4 DEF Once
<1> QED
  BY <1>5 DEF u

-----------------------------------------------------------------------------
(* What ServerLinks does to the queues, in these terms.                    *)

(* server_send                                                             *)
LEMMA SendAllIs ==
  ASSUME NEW M, net \in [Link -> Seq(M)], NEW s, NEW out \in Seq(M), SendAll(s, s, out)
  PROVE  /\ net' \in [Link -> Seq(M)]
         /\ Relays(end, net, net', s, s, out)
<1>1. \A l \in Link : net[l] \o out \in Seq(M)
  OBVIOUS
<1>2. \A l \in Link : Sent(s, s, out, l) <=> out # <<>> /\ l[1] = s /\ Live(l, end)
  BY LinkFacts DEF Sent, Live
<1> QED
  BY <1>1, <1>2 DEF SendAll, Relays

\* What ms_nuser sends back: nothing, or NBOUNCE.
NoneOrBounce(M, back) == back = <<>> \/ \E b \in M : b.cmd = "NBOUNCE" /\ back = <<b>>

(* A message read, one sent on, and perhaps one sent back.                 *)
LEMMA ReadAndSendIs ==
  ASSUME NEW M, net \in [Link -> Seq(M)], NEW s, NEW f, NEW out \in Seq(M), NEW back,
         <<s, f>> \in Link, <<f, s>> \in Link, net[<<f, s>>] # <<>>,
         NoneOrBounce(M, back), ReadAndSend(s, f, out, back)
  PROVE  /\ net' \in [Link -> Seq(M)]
         /\ Relays(end, net, net', s, f, out)
         /\ Answers(M, end, net, net', s, f)
         /\ net'[<<f, s>>] = Tail(net[<<f, s>>])
<1>1. back = <<>> \/ \E b \in M : b.cmd = "NBOUNCE" /\ back = <<b>>
  BY DEF NoneOrBounce
<1> USE <1>1
<1>2. back \in Seq(M) /\ s # f
  <2>1. \A b \in M : <<b>> \in Seq(M)
    OBVIOUS
  <2>2. <<s, f>>[1] # <<s, f>>[2] /\ <<>> \in Seq(M)
    BY LinkFacts
  <2> QED
    BY <2>1, <2>2
<1>3. \A l \in Link : /\ net[l] \o out \in Seq(M) /\ net[l] \o back \in Seq(M)
                      /\ net[l] # <<>> => Tail(net[l]) \in Seq(M)
  BY <1>2
<1>4. net' \in [Link -> Seq(M)]
  BY <1>3 DEF ReadAndSend
<1>5. ASSUME NEW l \in Link, l # <<s, f>>, l # <<f, s>>
      PROVE  net'[l] = IF out # <<>> /\ l[1] = s /\ Live(l, end) THEN net[l] \o out ELSE net[l]
  <2>1. l[1] = s => l[2] # f
    BY <1>5, LinkFacts
  <2>2. Sent(s, f, out, l) <=> out # <<>> /\ l[1] = s /\ Live(l, end)
    BY <2>1 DEF Sent, Live
  <2>3. ~(Sent(s, s, back, l) /\ l[2] = f)
    BY <2>1 DEF Sent
  <2> QED
    BY <1>5, <2>2, <2>3 DEF ReadAndSend
<1>6. net'[<<f, s>>] = Tail(net[<<f, s>>])
  BY DEF ReadAndSend
<1>7. Answers(M, end, net, net', s, f)
  <2>1. ~Sent(s, f, out, <<s, f>>) /\ <<s, f>> # <<f, s>>
    BY <1>2 DEF Sent
  <2>2. net'[<<s, f>>] = IF Sent(s, s, back, <<s, f>>) THEN net[<<s, f>>] \o back
                         ELSE net[<<s, f>>]
    BY <2>1 DEF ReadAndSend
  <2>3. Sent(s, s, back, <<s, f>>) => back # <<>> /\ Live(<<s, f>>, end)
    BY DEF Sent, Live
  <2> QED
    BY <2>2, <2>3 DEF Answers
<1> QED
  BY <1>4, <1>5, <1>6, <1>7 DEF Relays

(* A server says what a client of its own does.                            *)
LEMMA Said ==
  ASSUME NEW M, LinksOK(M), NEW P, NEW H \in [P -> Server], NEW K \in [Server -> SUBSET P],
         NEW K2 \in [Server -> SUBSET P], NEW s \in Server, NEW out \in Seq(M),
         SendAll(s, s, out), end' = end, sessions' = sessions,
         \A x \in Server : x # s => K2[x] = K[x],
         Acts(s, s, K[s], K2[s], out, H), Introduced(end, net, K, H)
  PROVE  LinksOK(M)' /\ Introduced(end', net', K2, H)
<1>1. net \in [Link -> Seq(M)] /\ end' = end /\ sessions' = sessions
  BY DEF LinksOK
<1>2. net' \in [Link -> Seq(M)] /\ Relays(end, net, net', s, s, out)
  BY <1>1, SendAllIs, Zenon
<1>3. LinksOK(M)'
  BY <1>1, <1>2 DEF LinksOK
<1>4. Step(M, P, H, end, net, net', K, K2, s, s, out)
  BY <1>1 DEF Step
<1>5. Introduced(end, net', K2, H)
  BY <1>2, <1>4, ActsAlone, Zenon
<1> QED
  BY <1>1, <1>3, <1>5

(* It reads a message and does what that says.                             *)
LEMMA Heard ==
  ASSUME NEW M, LinksOK(M), NEW P, NEW H \in [P -> Server], NEW K \in [Server -> SUBSET P],
         NEW K2 \in [Server -> SUBSET P], NEW l \in Link, CanRead(l[1], l[2]),
         NEW out \in Seq(M), NEW back, NoneOrBounce(M, back),
         ReadAndSend(l[1], l[2], out, back), end' = end, sessions' = sessions,
         \A x \in Server : x # l[1] => K2[x] = K[x],
         Obeys(Head(net[<<l[2], l[1]>>]), K[l[1]], K2[l[1]], out, H),
         Introduced(end, net, K, H)
  PROVE  /\ LinksOK(M)' /\ Introduced(end', net', K2, H)
         /\ Acts(l[1], l[2], K[l[1]], K2[l[1]], out, H)
<1> DEFINE s == l[1]
           t == l[2]
<1>1. /\ net \in [Link -> Seq(M)] /\ end' = end /\ sessions' = sessions
      /\ s \in Server /\ t \in Server /\ <<s, t>> \in Link /\ <<t, s>> \in Link
      /\ s \notin Behind[<<s, t>>] /\ s # t
      /\ end[<<s, t>>] = "up" /\ net[<<t, s>>] # <<>>
  BY LinkFacts DEF LinksOK, Rev, CanRead
<1>2. /\ \A x \in Server : x # s => K2[x] = K[x]
      /\ Obeys(Head(net[<<t, s>>]), K[s], K2[s], out, H)
      /\ ReadAndSend(s, t, out, back)
  OBVIOUS
<1> HIDE DEF s, t
<1>3. /\ net' \in [Link -> Seq(M)] /\ Relays(end, net, net', s, t, out)
      /\ Answers(M, end, net, net', s, t)
      /\ net'[<<t, s>>] = Tail(net[<<t, s>>])
  BY <1>1, <1>2, ReadAndSendIs, Zenon
<1>4. LinksOK(M)'
  BY <1>1, <1>3 DEF LinksOK
<1>5. Acts(s, t, K[s], K2[s], out, H)
  <2>1. K[s] \subseteq DOMAIN H /\ K2[s] \subseteq DOMAIN H
    BY <1>1
  <2> QED
    BY <1>1, <1>2, <2>1, Obeyed
<1>6. Step(M, P, H, end, net, net', K, K2, s, t, out)
  BY <1>1, <1>2, <1>5 DEF Step
<1>7. Reads(H, end, net, net', K, K2, s, t)
  BY <1>1, <1>2, <1>3 DEF Reads, Obeys
<1>8. Introduced(end, net', K2, H)
  BY <1>3, <1>6, <1>7, ActsOnRead, Zenon
<1> QED
  BY <1>1, <1>4, <1>5, <1>8 DEF s, t

(* lclient_connect                                                         *)
LEMMA OpenLinkIs ==
  ASSUME NEW M, LinksOK(M), NEW H, NEW K, NEW l \in Link, OpenLink(l[1], l[2]),
         Introduced(end, net, K, H)
  PROVE  LinksOK(M)' /\ Introduced(end', net', K, H)
<1> DEFINE s == l[1]
           t == l[2]
<1>1. <<s, t>> \in Link /\ <<t, s>> \in Link /\ <<s, t>> # <<t, s>>
  BY LinkFacts DEF Rev
<1>2. /\ end \in [Link -> {"down", "open", "up"}] /\ net \in [Link -> Seq(M)]
      /\ sessions \in 0 .. MaxSessions /\ MaxSessions \in Nat
  BY LinkAssumption DEF LinksOK, LinkAssumption
<1>3. /\ end[<<s, t>>] = "down" /\ end[<<t, s>>] = "down"
      /\ end' = [end EXCEPT ![<<s, t>>] = "open", ![<<t, s>>] = "open"]
      /\ net' = [net EXCEPT ![<<s, t>>] = <<>>, ![<<t, s>>] = <<>>]
      /\ sessions < MaxSessions /\ sessions' = sessions + 1
  BY DEF OpenLink
<1> HIDE DEF s, t
<1>4. LinksOK(M)'
  <2>1. sessions' \in 0 .. MaxSessions
    BY <1>2, <1>3
  <2>2. end' \in [Link -> {"down", "open", "up"}]
    BY <1>2, <1>3
  <2>3. net' \in [Link -> Seq(M)]
    <3>1. <<>> \in Seq(M)
      OBVIOUS
    <3> QED
      BY <1>2, <1>3, <3>1
  <2> QED
    BY <2>1, <2>2, <2>3 DEF LinksOK
<1>5. Between(end, net, end', net', s, t)
  BY <1>1, <1>2, <1>3 DEF Between
<1>6. /\ end'[<<s, t>>] = "open" /\ end'[<<t, s>>] = "open"
      /\ net'[<<s, t>>] = <<>> /\ net'[<<t, s>>] = <<>>
  BY <1>1, <1>2, <1>3
<1>7. Introduced(end', net', K, H)
  <2>1. Opens(end, net, end', net', s, t)
    BY <1>3, <1>5, <1>6 DEF Opens
  <2> QED
    BY <2>1, Opened, Zenon
<1> QED
  BY <1>4, <1>7

(* server_register, server_burst                                           *)
LEMMA RegisterLinkIs ==
  ASSUME NEW M, LinksOK(M), NEW P, NEW H \in [P -> Server], NEW K \in [Server -> SUBSET P],
         NEW l \in Link, NEW b \in Seq(M), RegisterLink(l[1], l[2], b), IsBurst(b, K[l[1]]),
         Introduced(end, net, K, H)
  PROVE  LinksOK(M)' /\ Introduced(end', net', K, H)
<1> DEFINE s == l[1]
           t == l[2]
<1>1. /\ <<s, t>> \in Link /\ <<t, s>> \in Link /\ <<s, t>> # <<t, s>>
      /\ Rev(<<s, t>>) = <<t, s>>
  BY LinkFacts DEF Rev
<1>2. /\ end \in [Link -> {"down", "open", "up"}] /\ net \in [Link -> Seq(M)]
      /\ sessions \in 0 .. MaxSessions
  BY DEF LinksOK
<1>3. /\ end[<<s, t>>] = "open"
      /\ end' = [end EXCEPT ![<<s, t>>] = "up"]
      /\ net' = [net EXCEPT ![<<s, t>>] = IF end[<<t, s>>] = "down" THEN net[<<s, t>>]
                                          ELSE net[<<s, t>>] \o b]
      /\ sessions' = sessions
  BY DEF RegisterLink
<1>4. IsBurst(b, K[s])
  OBVIOUS
<1> HIDE DEF s, t
<1>5. LinksOK(M)'
  <2>1. net[<<s, t>>] \o b \in Seq(M)
    BY <1>1, <1>2
  <2> QED
    BY <1>2, <1>3, <2>1 DEF LinksOK
<1>6. net[<<s, t>>] = <<>>
  BY <1>1, <1>3 DEF Introduced, LinkTells
<1>7. Between(end, net, end', net', s, t)
  BY <1>1, <1>2, <1>3 DEF Between
<1>8. <<>> \o b = b
  OBVIOUS
<1>9. /\ end'[<<s, t>>] = "up" /\ end'[<<t, s>>] = end[<<t, s>>]
      /\ net'[<<t, s>>] = net[<<t, s>>]
      /\ net'[<<s, t>>] = IF end[<<t, s>>] = "down" THEN <<>> ELSE b
  BY <1>1, <1>2, <1>3, <1>6, <1>8
<1>10. Introduced(end', net', K, H)
  <2>1. Registers(end, net, end', net', s, t, b)
    BY <1>3, <1>7, <1>9 DEF Registers
  <2> QED
    BY <1>4, <2>1, Registered, Zenon
<1> QED
  BY <1>5, <1>10

(* lclient_vexit, server_exit                                              *)
LEMMA CloseLinkIs ==
  ASSUME NEW M, LinksOK(M), NEW P, NEW H \in [P -> Server], NEW K \in [Server -> SUBSET P],
         NEW K2 \in [Server -> SUBSET P], NEW l \in Link, CloseLink(l[1], l[2]), NQuit(l) \in M,
         \A x \in Server : x # l[1] => K2[x] = K[x],
         K2[l[1]] = {u \in K[l[1]] : H[u] \notin Behind[l]},
         Introduced(end, net, K, H)
  PROVE  LinksOK(M)' /\ Introduced(end', net', K2, H)
<1> DEFINE s == l[1]
           t == l[2]
           out == IF end[l] = "up" THEN <<NQuit(l)>> ELSE <<>>
<1>1. /\ l = <<s, t>> /\ <<s, t>> \in Link /\ <<t, s>> \in Link /\ <<s, t>> # <<t, s>>
      /\ s \in Server /\ t \in Server /\ s # t
      /\ Rev(<<s, t>>) = <<t, s>> /\ Rev(<<t, s>>) = <<s, t>>
  BY LinkFacts DEF Rev
<1>2. /\ end \in [Link -> {"down", "open", "up"}] /\ net \in [Link -> Seq(M)]
      /\ sessions \in 0 .. MaxSessions
  BY DEF LinksOK
<1>3. /\ end[<<s, t>>] # "down"
      /\ end' = [end EXCEPT ![<<s, t>>] = "down"]
      /\ net' = [k \in Link |-> IF k = <<t, s>> THEN <<>>
                                ELSE IF Sent(s, t, out, k) THEN net[k] \o out
                                ELSE net[k]]
      /\ sessions' = sessions
  BY <1>1 DEF CloseLink
<1>4. out \in Seq(M)
  OBVIOUS
<1>5. /\ \A x \in Server : x # s => K2[x] = K[x]
      /\ K2[s] = {u \in K[s] : H[u] \notin Behind[<<s, t>>]}
  BY <1>1
<1>6. /\ end[<<s, t>>] = "up" => out = <<NQuit(<<s, t>>)>>
      /\ end[<<s, t>>] # "up" => out = <<>>
  BY <1>1
<1> HIDE DEF s, t, out
<1>7. \A k \in Link : Sent(s, t, out, k) <=> out # <<>> /\ k[1] = s /\ k[2] # t /\ Live(k, end)
  BY DEF Sent, Live
<1>8. LinksOK(M)'
  <2>1. \A k \in Link : net[k] \o out \in Seq(M) /\ net[k] \in Seq(M) /\ <<>> \in Seq(M)
    BY <1>2, <1>4
  <2>2. net' \in [Link -> Seq(M)]
    BY <1>3, <2>1
  <2>3. end' \in [Link -> {"down", "open", "up"}] /\ sessions' \in 0 .. MaxSessions
    BY <1>2, <1>3
  <2> QED
    BY <2>2, <2>3 DEF LinksOK
<1>9. Relays(end, net, net', s, t, out)
  <2> SUFFICES ASSUME NEW k \in Link, k # <<s, t>>, k # <<t, s>>
               PROVE  net'[k] = IF out # <<>> /\ k[1] = s /\ Live(k, end)
                                THEN net[k] \o out ELSE net[k]
    BY DEF Relays
  <2>1. k[1] = s => k[2] # t
    BY LinkFacts
  <2> QED
    BY <1>3, <1>7, <2>1
<1>10. Closes(end, net, end', net', K, K2, H, s, t)
  <2>1. net'[<<t, s>>] = <<>>
    BY <1>1, <1>3
  <2>2. ~Sent(s, t, out, <<s, t>>)
    BY <1>1, <1>7
  <2>3. net'[<<s, t>>] = net[<<s, t>>]
    BY <1>1, <1>3, <2>2
  <2>4. \A k \in Link : end'[k] = IF k = <<s, t>> THEN "down" ELSE end[k]
    BY <1>2, <1>3
  <2> QED
    BY <1>1, <1>5, <2>1, <2>3, <2>4 DEF Closes
<1>11. Acts(s, t, K[s], K2[s], out, H)
  <2>1. \A u \in DOMAIN H : (u \in K[s]) # (u \in K2[s]) => H[u] \in Behind[<<s, t>>]
    BY <1>5
  <2>2. CASE end[<<s, t>>] = "up"
    <3>1. out = <<NQuit(<<s, t>>)>> /\ out[1] = NQuit(<<s, t>>) /\ out # <<>>
      BY <1>6, <2>2
    <3>2. out[1].cmd = "NQUIT" /\ out[1].link = <<s, t>>
      BY <3>1 DEF NQuit
    <3>3. \A u \in K[s] \ K2[s] : Ends(out[1], u, H)
      BY <1>5, <3>2 DEF Ends
    <3> QED
      BY <1>1, <2>1, <3>1, <3>2, <3>3 DEF Acts, Side, Begins
  <2>3. CASE end[<<s, t>>] # "up"
    <3>1. LinkTells(<<t, s>>, end, net, K, H) /\ <<t, s>>[2] = s
      BY <1>1 DEF Introduced
    <3>2. \A u \in K[s] : H[u] \notin Behind[<<s, t>>]
      BY <1>1, <2>3, <3>1 DEF LinkTells
    <3>3. K2[s] = K[s] /\ out = <<>>
      BY <1>5, <1>6, <2>3, <3>2
    <3> QED
      BY <3>3 DEF Acts
  <2> QED
    BY <2>2, <2>3
<1>12. Step(M, P, H, end, net, net', K, K2, s, t, out)
  BY <1>1, <1>2, <1>4, <1>5, <1>11 DEF Step
<1>13. Introduced(end', net', K2, H)
  BY <1>9, <1>10, <1>12, ActsOnClose, Zenon
<1> QED
  BY <1>8, <1>13

-----------------------------------------------------------------------------
(* Nicknames: NickSync.                                                    *)

NamesIn(c) == {u \in User : c[u] # NoEntry}
Known      == [s \in Server |-> NamesIn(known[s])]

\* A user that did not log in is unknown.
NewUnknown == \A u \in User : login[u] = "new" => u \notin Known[Home[u]]

NickInv == TypeOK /\ Introduced(end, net, Known, Home) /\ NewUnknown

(* What the fields of a message are (the arguments of ms_nuser, ms_nick,   *)
(* ms_nbounce, m_quit, ms_nquit).                                          *)
LEMMA NickMessage ==
  ASSUME NEW m \in Message
  PROVE  /\ m.cmd \in {"NUSER", "NICK", "NBOUNCE", "QUIT", "NQUIT"}
         /\ m.cmd # "NQUIT" => m.of \in User
         /\ m.cmd \in {"NUSER", "NICK", "NBOUNCE"} => m.name \in Name /\ m.ts \in 1 .. MaxTS
         /\ m.cmd = "NQUIT" => m.link \in Link
  BY DEF Message, Quit, NQuit

(* The messages of the protocol are messages.                              *)
LEMMA NickForms ==
  /\ \A u \in User, n \in Name, ts \in 1 .. MaxTS :
       /\ NUser(u, n, ts) \in Message /\ Nick(u, n, ts) \in Message
       /\ NBounce(u, n, ts) \in Message
  /\ \A u \in User : Quit(u) \in Message
  /\ \A l \in Link : NQuit(l) \in Message
  BY DEF Message, NUser, Nick, NBounce, Quit

(* client_set_name, client_new: the user is known then.                    *)
LEMMA WithFacts ==
  ASSUME NEW c \in [User -> Entry \cup {NoEntry}], NEW u \in User, NEW n \in Name,
         NEW ts \in 1 .. MaxTS
  PROVE  /\ With(c, u, n, ts) \in [User -> Entry \cup {NoEntry}]
         /\ NamesIn(With(c, u, n, ts)) = NamesIn(c) \cup {u}
<1>1. Record(n, ts) \in Entry /\ Record(n, ts) # NoEntry
  BY NameAssumption DEF Record, Entry, NoEntry, NameAssumption
<1> QED
  BY <1>1 DEF With, NamesIn

\* What a handler may return for m.
Handled(c, m, r) ==
  /\ r.users \in [User -> Entry \cup {NoEntry}]
  /\ r.relay \in Seq(Message)
  /\ r.back = <<>> \/ \E b \in Message : b.cmd = "NBOUNCE" /\ r.back = <<b>>
  /\ Obeys(m, NamesIn(c), NamesIn(r.users), r.relay, Home)

(* Every handler obeys.                                                    *)
LEMMA HandleObeys ==
  ASSUME NEW c \in [User -> Entry \cup {NoEntry}], NEW m \in Message,
         NEW now \in 1 .. MaxTS, NEW r \in Handle(c, m, now)
  PROVE  Handled(c, m, r)
<1> USE DEF Does, Drop
<1>1. /\ \A x \in Message : <<x>> \in Seq(Message) /\ <<x>>[1] = x /\ <<x>> # <<>>
      /\ <<>> \in Seq(Message) /\ DOMAIN Home = User
      /\ m.cmd # "NQUIT" => m.of \in User
  BY NickMessage, NickAssumption DEF NickAssumption
<1>2. CASE m.cmd = "NUSER"
  <2>1. m.of \in User /\ m.name \in Name /\ m.ts \in 1 .. MaxTS
    BY <1>2, NickMessage
  <2>2. r \in OnNUser(c, m, now)
    BY <1>2 DEF Handle
  <2>3. CASE c[m.of] # NoEntry
    <3>1. r.users = c /\ r.relay = <<>> /\ r.back = <<>>
      BY <2>2, <2>3 DEF OnNUser
    <3> QED
      BY <1>1, <1>2, <3>1 DEF Handled, Obeys, Ends
  <2>4. CASE c[m.of] = NoEntry
    <3>1. PICK n \in Name, ts \in 1 .. MaxTS :
            /\ r.users = With(c, m.of, n, ts)
            /\ r.relay = <<NUser(m.of, n, ts)>> \/ r.relay = <<m>>
            /\ r.back = <<>> \/ r.back = <<NBounce(m.of, n, ts)>>
      <4>1. CASE \E v \in Has(c, m.name) : c[v].ts <= m.ts
        <5>1. PICK n \in Others(c, m.name) :
                r = Does(With(c, m.of, n, now), <<NUser(m.of, n, now)>>, <<NBounce(m.of, n, now)>>)
          BY <2>2, <2>4, <4>1 DEF OnNUser
        <5>2. n \in Name
          BY <2>1, NickAssumption DEF Others, NickAssumption
        <5> QED
          BY <5>1, <5>2
      <4>2. CASE ~ \E v \in Has(c, m.name) : c[v].ts <= m.ts
        <5>1. r = Does(With(c, m.of, m.name, m.ts), <<m>>, <<>>)
          BY <2>2, <2>4, <4>2 DEF OnNUser
        <5> QED
          BY <2>1, <5>1
      <4> QED
        BY <4>1, <4>2
    <3>2. /\ r.users \in [User -> Entry \cup {NoEntry}]
          /\ NamesIn(r.users) = NamesIn(c) \cup {m.of} /\ m.of \notin NamesIn(c)
      BY <2>1, <2>4, <3>1, WithFacts DEF NamesIn
    <3>3. /\ r.back = <<>> \/ \E b \in Message : b.cmd = "NBOUNCE" /\ r.back = <<b>>
      BY <2>1, <3>1, NickForms DEF NBounce
    <3>4. PICK x \in Message : x.cmd = "NUSER" /\ x.of = m.of /\ r.relay = <<x>>
      BY <1>2, <2>1, <3>1, NickForms DEF NUser
    <3>5. Obeys(m, NamesIn(c), NamesIn(r.users), r.relay, Home)
      BY <1>1, <1>2, <2>1, <3>2, <3>4 DEF Obeys, Begins, Ends
    <3> QED
      BY <1>1, <3>2, <3>3, <3>4, <3>5 DEF Handled
  <2> QED
    BY <2>3, <2>4
<1>3. CASE m.cmd \in {"NICK", "NBOUNCE"}
  <2>1. m.of \in User /\ m.name \in Name /\ m.ts \in 1 .. MaxTS
    BY <1>3, NickMessage
  <2>2. r \in OnNick(c, m, now) \/ r \in OnNBounce(c, m, now)
    BY <1>3 DEF Handle
  <2>3. CASE c[m.of] = NoEntry
    <3>1. r.users = c /\ r.relay = <<>> /\ r.back = <<>>
      BY <2>2, <2>3 DEF OnNick, OnNBounce
    <3> QED
      BY <1>1, <1>3, <3>1 DEF Handled, Obeys, Ends
  <2>4. CASE c[m.of] # NoEntry
    <3>1. PICK ts \in 1 .. MaxTS :
            /\ r.users = With(c, m.of, m.name, ts) /\ r.back = <<>>
            /\ \/ r.relay = <<Nick(m.of, m.name, now)>> /\ m.cmd = "NICK"
               \/ r.relay = <<m>>
      <4>1. (r \in OnNick(c, m, now) /\ m.cmd = "NICK") \/ r \in OnNBounce(c, m, now)
        BY <1>3 DEF Handle
      <4>2. CASE r \in OnNick(c, m, now) /\ m.cmd = "NICK"
        BY <2>1, <2>4, <4>2 DEF OnNick
      <4>3. CASE r \in OnNBounce(c, m, now)
        BY <2>1, <2>4, <4>3 DEF OnNBounce
      <4> QED
        BY <4>1, <4>2, <4>3
    <3>2. /\ r.users \in [User -> Entry \cup {NoEntry}]
          /\ NamesIn(r.users) = NamesIn(c)
      BY <2>1, <2>4, <3>1, WithFacts DEF NamesIn
    <3>3. PICK x \in Message : x.cmd = m.cmd /\ x.of = m.of /\ r.relay = <<x>>
      BY <2>1, <3>1, NickForms DEF Nick
    <3>4. Obeys(m, NamesIn(c), NamesIn(r.users), r.relay, Home)
      BY <1>1, <1>3, <2>1, <3>2, <3>3 DEF Obeys, Begins, Ends
    <3> QED
      BY <1>1, <3>1, <3>2, <3>3, <3>4 DEF Handled
  <2> QED
    BY <2>3, <2>4
<1>4. CASE m.cmd = "QUIT"
  <2>1. m.of \in User
    BY <1>4, NickMessage
  <2>2. r \in OnQuit(c, m)
    BY <1>4 DEF Handle
  <2>3. CASE c[m.of] = NoEntry
    <3>1. r.users = c /\ r.relay = <<>> /\ r.back = <<>>
      BY <2>2, <2>3 DEF OnQuit
    <3>2. m.of \notin NamesIn(c)
      BY <2>3 DEF NamesIn
    <3> QED
      BY <1>1, <1>4, <3>1, <3>2 DEF Handled, Obeys, Ends
  <2>4. CASE c[m.of] # NoEntry
    <3>1. r.users = [c EXCEPT ![m.of] = NoEntry] /\ r.relay = <<m>> /\ r.back = <<>>
      BY <2>2, <2>4 DEF OnQuit
    <3>2. /\ r.users \in [User -> Entry \cup {NoEntry}]
          /\ NamesIn(r.users) = NamesIn(c) \ {m.of}
      BY <2>1, <3>1 DEF NamesIn
    <3>3. Obeys(m, NamesIn(c), NamesIn(r.users), r.relay, Home)
      BY <1>1, <1>4, <2>1, <3>1, <3>2 DEF Obeys, Begins, Ends
    <3> QED
      BY <1>1, <3>1, <3>2, <3>3 DEF Handled
  <2> QED
    BY <2>3, <2>4
<1>5. CASE m.cmd = "NQUIT"
  <2>1. r = Does(Forget(c, Behind[m.link]), <<m>>, <<>>)
    BY <1>5 DEF Handle, OnNQuit
  <2>2. /\ r.users \in [User -> Entry \cup {NoEntry}]
        /\ NamesIn(r.users) = {u \in NamesIn(c) : Home[u] \notin Behind[m.link]}
    BY <2>1 DEF Forget, NamesIn
  <2>3. r.relay = <<m>> /\ r.back = <<>>
    BY <2>1
  <2>4. Obeys(m, NamesIn(c), NamesIn(r.users), r.relay, Home)
    BY <1>1, <1>5, <2>2, <2>3 DEF Obeys, Begins, Ends
  <2> QED
    BY <1>1, <2>2, <2>3, <2>4 DEF Handled
<1> QED
  BY <1>2, <1>3, <1>4, <1>5, NickMessage

(* Who is known after a server changed its list of clients.                *)
LEMMA KnownAfter ==
  ASSUME TypeOK, NEW s \in Server, NEW c \in [User -> Entry \cup {NoEntry}],
         known' = [known EXCEPT ![s] = c]
  PROVE  /\ known' \in [Server -> [User -> Entry \cup {NoEntry}]]
         /\ Known \in [Server -> SUBSET User] /\ Known' \in [Server -> SUBSET User]
         /\ Known[s] = NamesIn(known[s]) /\ Known'[s] = NamesIn(c)
         /\ \A x \in Server : x # s => Known'[x] = Known[x]
<1>1. known \in [Server -> [User -> Entry \cup {NoEntry}]]
  BY DEF TypeOK
<1>2. \A x \in Server : known'[x] = IF x = s THEN c ELSE known[x]
  BY <1>1
<1>3. \A f : NamesIn(f) \in SUBSET User
  BY DEF NamesIn
<1>4. /\ \A x \in Server : Known[x] = NamesIn(known[x])
      /\ \A x \in Server : Known'[x] = NamesIn(known'[x])
  BY DEF Known
<1>5. Known \in [Server -> SUBSET User] /\ Known' \in [Server -> SUBSET User]
  BY <1>3 DEF Known
<1> QED
  BY <1>1, <1>2, <1>4, <1>5

(* A local client does something (lclient_register, m_nick, m_quit).       *)
LEMMA ClientActs ==
  ASSUME NickInv, NEW s \in Server, NEW c \in [User -> Entry \cup {NoEntry}],
         NEW out \in Seq(Message), known' = [known EXCEPT ![s] = c],
         SendAll(s, s, out), UNCHANGED <<end, sessions>>,
         Acts(s, s, NamesIn(known[s]), NamesIn(c), out, Home)
  PROVE  /\ known' \in [Server -> [User -> Entry \cup {NoEntry}]]
         /\ LinksOK(Message)' /\ Introduced(end', net', Known', Home)
         /\ Known'[s] = NamesIn(c) /\ Known[s] = NamesIn(known[s])
         /\ \A x \in Server : x # s => Known'[x] = Known[x]
<1>1. /\ TypeOK /\ LinksOK(Message) /\ Home \in [User -> Server]
      /\ Introduced(end, net, Known, Home)
  BY NickAssumption DEF NickInv, TypeOK, NickAssumption
<1>2. /\ known' \in [Server -> [User -> Entry \cup {NoEntry}]]
      /\ Known \in [Server -> SUBSET User] /\ Known' \in [Server -> SUBSET User]
      /\ Known[s] = NamesIn(known[s]) /\ Known'[s] = NamesIn(c)
      /\ \A x \in Server : x # s => Known'[x] = Known[x]
  BY <1>1, KnownAfter, Zenon
<1>3. LinksOK(Message)' /\ Introduced(end', net', Known', Home)
  <2> DEFINE K2 == Known'
  <2>1. /\ K2 \in [Server -> SUBSET User] /\ \A x \in Server : x # s => K2[x] = Known[x]
        /\ Acts(s, s, Known[s], K2[s], out, Home)
        /\ end' = end /\ sessions' = sessions
    BY <1>2
  <2> HIDE DEF K2
  <2>2. LinksOK(Message)' /\ Introduced(end', net', K2, Home)
    BY <1>1, <1>2, <2>1, Said, SMTT(40)
  <2> QED
    BY <2>2 DEF K2
<1> QED
  BY <1>2, <1>3

(* client_new_local: the others hear of a user that was not there.         *)
LEMMA EnterActs ==
  ASSUME NickInv, NEW u \in User, NEW n \in Name, NEW now \in 1 .. MaxTS,
         Enter(u, n, now), u \notin Known[Home[u]], UNCHANGED <<end, sessions>>
  PROVE  /\ known' \in [Server -> [User -> Entry \cup {NoEntry}]]
         /\ LinksOK(Message)' /\ Introduced(end', net', Known', Home)
         /\ \A v \in User : v # u => (v \in Known'[Home[v]] <=> v \in Known[Home[v]])
<1> DEFINE s == Home[u]
           c == With(known[s], u, n, now)
           out == <<NUser(u, n, now)>>
<1>1. s \in Server /\ Home \in [User -> Server] /\ TypeOK
  BY NickAssumption DEF NickInv, NickAssumption
<1>2. known[s] \in [User -> Entry \cup {NoEntry}]
  BY <1>1 DEF TypeOK
<1>3. /\ c \in [User -> Entry \cup {NoEntry}]
      /\ NamesIn(c) = NamesIn(known[s]) \cup {u}
  BY <1>2, WithFacts
<1>4. known' = [known EXCEPT ![s] = c] /\ SendAll(s, s, out)
  BY DEF Enter
<1>5. NUser(u, n, now) \in Message /\ out \in Seq(Message)
  BY NickForms
<1>6. Known[s] = NamesIn(known[s])
  BY <1>1 DEF Known
<1>7. Acts(s, s, NamesIn(known[s]), NamesIn(c), out, Home)
  <2>1. out[1].cmd = "NUSER" /\ out[1].of = u /\ out = <<out[1]>> /\ out # <<>>
    BY DEF NUser
  <2>2. u \notin NamesIn(known[s]) /\ DOMAIN Home = User
    BY <1>1, <1>6
  <2>3. Side(s, s, Home[u])
    BY DEF Side
  <2> HIDE DEF out, c, s
  <2> QED
    BY <1>3, <2>1, <2>2, <2>3 DEF Acts, Begins
<1> HIDE DEF s, c, out
<1>8. /\ known' \in [Server -> [User -> Entry \cup {NoEntry}]]
      /\ LinksOK(Message)' /\ Introduced(end', net', Known', Home)
      /\ Known'[s] = NamesIn(c) /\ Known[s] = NamesIn(known[s])
      /\ \A x \in Server : x # s => Known'[x] = Known[x]
  BY <1>1, <1>3, <1>4, <1>5, <1>7, ClientActs
<1> QED
  BY <1>1, <1>3, <1>8

(* lclient_login                                                           *)
LEMMA LoginKeeps ==
  ASSUME NickInv, NEW u \in User, NEW n \in Choice, NEW now \in Stamp[Home[u]],
         Login(u, n, now)
  PROVE  NickInv'
<1>1. /\ n \in Name /\ now \in 1 .. MaxTS /\ n # "new"
      /\ TypeOK /\ login \in [User -> Name \cup {"new", "gone"}]
  BY NickAssumption, NameAssumption DEF NickAssumption, NameAssumption, NickInv, TypeOK
<1>2. /\ login[u] = "new" /\ login' = [login EXCEPT ![u] = n]
      /\ UNCHANGED <<end, sessions>>
      /\ IF Waits THEN UNCHANGED <<known, net>> ELSE Enter(u, n, now)
  BY DEF Login
<1>3. /\ login' \in [User -> Name \cup {"new", "gone"}]
      /\ \A v \in User : login'[v] = "new" => v # u /\ login[v] = "new"
  BY <1>1, <1>2
<1>4. u \notin Known[Home[u]]
  BY <1>2 DEF NickInv, NewUnknown
<1>5. CASE Waits
  <2>1. known' = known /\ net' = net /\ end' = end /\ sessions' = sessions
    BY <1>2, <1>5
  <2>2. Known' = Known
    BY <2>1 DEF Known
  <2>3. TypeOK'
    BY <1>1, <1>3, <2>1 DEF TypeOK, LinksOK
  <2>4. NewUnknown'
    BY <1>3, <2>2 DEF NickInv, NewUnknown
  <2> QED
    BY <2>1, <2>2, <2>3, <2>4 DEF NickInv
<1>6. CASE ~Waits
  <2>1. Enter(u, n, now)
    BY <1>2, <1>6
  <2>2. /\ known' \in [Server -> [User -> Entry \cup {NoEntry}]]
        /\ LinksOK(Message)' /\ Introduced(end', net', Known', Home)
        /\ \A v \in User : v # u => (v \in Known'[Home[v]] <=> v \in Known[Home[v]])
    BY <1>1, <1>2, <1>4, <2>1, EnterActs
  <2>3. NewUnknown'
    BY <1>3, <2>2 DEF NickInv, NewUnknown
  <2> QED
    BY <1>3, <2>2, <2>3 DEF NickInv, TypeOK
<1> QED
  BY <1>5, <1>6

(* lc_cookie_done, lclient_register                                        *)
LEMMA LoginDoneKeeps ==
  ASSUME NickInv, NEW u \in User, NEW now \in Stamp[Home[u]], LoginDone(u, now)
  PROVE  NickInv'
<1>1. /\ now \in 1 .. MaxTS /\ Home[u] \in Server
      /\ TypeOK /\ login \in [User -> Name \cup {"new", "gone"}]
      /\ \A n \in Name : n # "new"
  BY NickAssumption, NameAssumption DEF NickAssumption, NameAssumption, NickInv, TypeOK
<1>2. /\ login[u] \in Name /\ known[Home[u]][u] = NoEntry /\ Enter(u, login[u], now)
      /\ login' = login /\ UNCHANGED <<end, sessions>>
  BY DEF LoginDone
<1>3. u \notin Known[Home[u]]
  BY <1>1, <1>2 DEF Known, NamesIn
<1>4. /\ known' \in [Server -> [User -> Entry \cup {NoEntry}]]
      /\ LinksOK(Message)' /\ Introduced(end', net', Known', Home)
      /\ \A v \in User : v # u => (v \in Known'[Home[v]] <=> v \in Known[Home[v]])
  BY <1>1, <1>2, <1>3, EnterActs
<1>5. NewUnknown'
  BY <1>1, <1>2, <1>4 DEF NickInv, NewUnknown
<1> QED
  BY <1>1, <1>2, <1>4, <1>5 DEF NickInv, TypeOK

(* m_nick, client_nick                                                     *)
LEMMA ChangeNickKeeps ==
  ASSUME NickInv, NEW u \in User, NEW n \in Choice, NEW now \in Stamp[Home[u]],
         ChangeNick(u, n, now)
  PROVE  NickInv'
<1> DEFINE s == Home[u]
           c == With(known[s], u, n, now)
           out == <<Nick(u, n, now)>>
<1>1. /\ n \in Name /\ now \in 1 .. MaxTS /\ s \in Server
      /\ TypeOK /\ Home \in [User -> Server]
  BY NickAssumption DEF NickAssumption, NickInv
<1>2. /\ known[s][u] # NoEntry
      /\ known' = [known EXCEPT ![s] = c] /\ SendAll(s, s, out)
      /\ login' = login /\ UNCHANGED <<end, sessions>>
  BY DEF ChangeNick
<1>3. known[s] \in [User -> Entry \cup {NoEntry}]
  BY <1>1 DEF TypeOK
<1>4. /\ c \in [User -> Entry \cup {NoEntry}]
      /\ NamesIn(c) = NamesIn(known[s])
  BY <1>1, <1>2, <1>3, WithFacts, SMTT(40) DEF NamesIn
<1>5. Nick(u, n, now) \in Message /\ out \in Seq(Message)
  BY <1>1, NickForms
<1>6. Acts(s, s, NamesIn(known[s]), NamesIn(c), out, Home)
  <2>1. out[1].cmd = "NICK" /\ out = <<out[1]>>
    BY DEF Nick
  <2> HIDE DEF out, c, s
  <2> QED
    BY <1>4, <2>1 DEF Acts, Begins
<1> HIDE DEF s, c, out
<1>7. /\ known' \in [Server -> [User -> Entry \cup {NoEntry}]]
      /\ LinksOK(Message)' /\ Introduced(end', net', Known', Home)
      /\ Known'[s] = NamesIn(c) /\ Known[s] = NamesIn(known[s])
      /\ \A x \in Server : x # s => Known'[x] = Known[x]
  BY <1>1, <1>2, <1>4, <1>5, <1>6, ClientActs
<1>8. NewUnknown'
  BY <1>1, <1>2, <1>4, <1>7 DEF NickInv, NewUnknown
<1> QED
  BY <1>1, <1>2, <1>7, <1>8 DEF NickInv, TypeOK

(* m_quit                                                                  *)
LEMMA LeaveKeeps ==
  ASSUME NickInv, NEW u \in User, Leave(u)
  PROVE  NickInv'
<1> DEFINE s == Home[u]
           c == [known[s] EXCEPT ![u] = NoEntry]
           out == IF known[s][u] = NoEntry THEN <<>> ELSE <<Quit(u)>>
<1>1. /\ s \in Server /\ TypeOK /\ Home \in [User -> Server]
      /\ login \in [User -> Name \cup {"new", "gone"}]
  BY NickAssumption DEF NickAssumption, NickInv, TypeOK
<1>2. /\ known' = [known EXCEPT ![s] = c] /\ SendAll(s, s, out)
      /\ login' = [login EXCEPT ![u] = "gone"] /\ UNCHANGED <<end, sessions>>
  BY DEF Leave
<1>3. known[s] \in [User -> Entry \cup {NoEntry}]
  BY <1>1 DEF TypeOK
<1>4. /\ c \in [User -> Entry \cup {NoEntry}]
      /\ NamesIn(c) = NamesIn(known[s]) \ {u}
  BY <1>3 DEF NamesIn
<1>5. Quit(u) \in Message /\ out \in Seq(Message)
  BY NickForms
<1>6. /\ known[s][u] = NoEntry => out = <<>> /\ u \notin NamesIn(known[s])
      /\ known[s][u] # NoEntry => out = <<Quit(u)>>
  BY DEF NamesIn
<1> HIDE DEF c, out
<1>7. Acts(s, s, NamesIn(known[s]), NamesIn(c), out, Home)
  <2>1. Side(s, s, Home[u])
    BY DEF Side
  <2>2. Quit(u).cmd = "QUIT" /\ Quit(u).of = u
    BY DEF Quit
  <2>3. u \in DOMAIN Home
    BY <1>1
  <2> HIDE DEF s
  <2>4. CASE known[s][u] = NoEntry
    <3>1. NamesIn(c) = NamesIn(known[s]) /\ out = <<>>
      BY <1>4, <1>6, <2>4
    <3> QED
      BY <3>1 DEF Acts
  <2>5. CASE known[s][u] # NoEntry
    <3>1. out = <<Quit(u)>> /\ out[1] = Quit(u) /\ out # <<>>
      BY <1>6, <2>5
    <3> QED
      BY <1>4, <2>1, <2>2, <2>3, <3>1 DEF Acts, Begins, Ends
  <2> QED
    BY <2>4, <2>5
<1> HIDE DEF s
<1>8. /\ known' \in [Server -> [User -> Entry \cup {NoEntry}]]
      /\ LinksOK(Message)' /\ Introduced(end', net', Known', Home)
      /\ Known'[s] = NamesIn(c) /\ Known[s] = NamesIn(known[s])
      /\ \A x \in Server : x # s => Known'[x] = Known[x]
  BY <1>1, <1>2, <1>4, <1>5, <1>7, ClientActs
<1>9. login' \in [User -> Name \cup {"new", "gone"}]
      /\ \A v \in User : login'[v] = "new" => login[v] = "new"
  BY <1>1, <1>2
<1>10. NewUnknown'
  BY <1>1, <1>4, <1>8, <1>9 DEF NickInv, NewUnknown
<1> QED
  BY <1>8, <1>9, <1>10 DEF NickInv, TypeOK

(* A server hears a message.                                               *)
LEMMA ReceiveKeeps ==
  ASSUME NickInv, NEW l \in Link, Receive(l[1], l[2])
  PROVE  NickInv'
<1> DEFINE s == l[1]
           t == l[2]
           m == Head(net[<<t, s>>])
<1>1. /\ TypeOK /\ Home \in [User -> Server] /\ net \in [Link -> Seq(Message)]
      /\ s \in Server /\ t \in Server /\ <<s, t>> \in Link /\ <<t, s>> \in Link
      /\ s \notin Behind[<<s, t>>] /\ s # t
  BY NickAssumption, LinkFacts DEF NickInv, TypeOK, LinksOK, Rev, NickAssumption
<1>2. PICK now \in Stamp[s] :
         \E x \in Handle(known[s], m, now) :
           known' = [known EXCEPT ![s] = x.users] /\ ReadAndSend(s, t, x.relay, x.back)
  BY DEF Receive
<1>3. PICK r \in Handle(known[s], m, now) :
        known' = [known EXCEPT ![s] = r.users] /\ ReadAndSend(s, t, r.relay, r.back)
  BY <1>2
<1>4. /\ end[<<s, t>>] = "up" /\ net[<<t, s>>] # <<>>
      /\ login' = login /\ end' = end /\ sessions' = sessions
  BY DEF Receive, CanRead
<1> DEFINE c == r.users
<1>5. m \in Message /\ now \in 1 .. MaxTS /\ known[s] \in [User -> Entry \cup {NoEntry}]
  BY <1>1, <1>4, NickAssumption DEF TypeOK, NickAssumption
<1>6. Handled(known[s], m, r)
  BY <1>5, HandleObeys
<1>7. /\ c \in [User -> Entry \cup {NoEntry}] /\ r.relay \in Seq(Message)
      /\ r.back = <<>> \/ \E b \in Message : b.cmd = "NBOUNCE" /\ r.back = <<b>>
      /\ Obeys(m, NamesIn(known[s]), NamesIn(c), r.relay, Home)
  BY <1>6 DEF Handled
<1>8. /\ known' \in [Server -> [User -> Entry \cup {NoEntry}]]
      /\ Known \in [Server -> SUBSET User] /\ Known' \in [Server -> SUBSET User]
      /\ Known[s] = NamesIn(known[s]) /\ Known'[s] = NamesIn(c)
      /\ \A x \in Server : x # s => Known'[x] = Known[x]
  <2> HIDE DEF s, c
  <2>1. known' = [known EXCEPT ![s] = c]
    BY <1>3 DEF c
  <2> QED
    BY <1>1, <1>7, <2>1, KnownAfter, Zenon
<1>9. /\ LinksOK(Message)' /\ Introduced(end', net', Known', Home)
      /\ \A u \in User : Home[u] = s => (u \in Known'[s] <=> u \in Known[s])
  <2> DEFINE K2 == Known'
             out == r.relay
             back == r.back
  <2>1. /\ out \in Seq(Message) /\ NoneOrBounce(Message, back) /\ CanRead(l[1], l[2])
        /\ ReadAndSend(l[1], l[2], out, back) /\ end' = end /\ sessions' = sessions
    BY <1>3, <1>7 DEF NoneOrBounce, Receive
  <2>2. /\ Known \in [Server -> SUBSET User] /\ K2 \in [Server -> SUBSET User]
        /\ \A x \in Server : x # l[1] => K2[x] = Known[x]
        /\ Obeys(Head(net[<<l[2], l[1]>>]), Known[l[1]], K2[l[1]], out, Home)
    BY <1>7, <1>8
  <2>3. LinksOK(Message) /\ Introduced(end, net, Known, Home)
    BY <1>1 DEF NickInv, TypeOK
  <2> HIDE DEF K2, out, back
  <2>4. /\ LinksOK(Message)' /\ Introduced(end', net', K2, Home)
        /\ Acts(l[1], l[2], Known[l[1]], K2[l[1]], out, Home)
    BY <1>1, <2>1, <2>2, <2>3, Heard
  <2> HIDE DEF s, t
  <2>5. ~Side(s, t, s) /\ DOMAIN Home = User
    BY <1>1 DEF Side
  <2>6. Acts(s, t, Known[s], K2[s], out, Home)
    BY <2>4 DEF s, t
  <2>7. \A u \in User : Home[u] = s => (u \in K2[s] <=> u \in Known[s])
    BY <2>5, <2>6, Zenon DEF Acts
  <2> QED
    BY <2>4, <2>7 DEF K2
<1>10. NewUnknown'
  BY <1>1, <1>4, <1>8, <1>9 DEF NickInv, NewUnknown
<1>11. TypeOK'
  BY <1>1, <1>4, <1>8, <1>9 DEF TypeOK
<1> QED
  BY <1>9, <1>10, <1>11 DEF NickInv

(* client_burst: everybody the server knows, once.                         *)
LEMMA BurstIs ==
  ASSUME NEW c \in [User -> Entry \cup {NoEntry}], NEW order \in Orders(c)
  PROVE  Burst(c, order) \in Seq(Message) /\ IsBurst(Burst(c, order), NamesIn(c))
<1> DEFINE A == NamesIn(c)
           n == Cardinality(A)
           b == Burst(c, order)
<1>1. /\ order \in [1 .. n -> A]
      /\ \A i, j \in 1 .. n : i # j => order[i] # order[j]
  BY DEF Orders, NamesIn
<1>2. n \in Nat
  BY NickAssumption, FS_Subset, FS_CardinalityType DEF NickAssumption, NamesIn
<1>3. \A u \in A : u \in User /\ c[u].name \in Name /\ c[u].ts \in 1 .. MaxTS
  BY DEF NamesIn, Entry
<1> HIDE DEF A, n
<1>4. Len(order) = n
  BY <1>1, <1>2
<1>5. b = [i \in 1 .. n |-> NUser(order[i], c[order[i]].name, c[order[i]].ts)]
  BY <1>4 DEF Burst
<1>6. \A i \in 1 .. n : order[i] \in A /\ b[i] \in Message /\ b[i].cmd = "NUSER" /\ b[i].of = order[i]
  <2> SUFFICES ASSUME NEW i \in 1 .. n
               PROVE  order[i] \in A /\ b[i] \in Message /\ b[i].cmd = "NUSER" /\ b[i].of = order[i]
    OBVIOUS
  <2>1. order[i] \in A
    BY <1>1
  <2>2. b[i] = NUser(order[i], c[order[i]].name, c[order[i]].ts)
    BY <1>5
  <2>3. b[i] \in Message
    BY <1>3, <2>1, <2>2, NickForms
  <2> QED
    BY <2>1, <2>2, <2>3 DEF NUser
<1>7. b \in Seq(Message) /\ Len(b) = n
  BY <1>2, <1>5, <1>6
<1> HIDE DEF b
<1>8. IsBurst(b, A)
  BY <1>1, <1>6, <1>7 DEF IsBurst
<1> QED
  BY <1>7, <1>8 DEF A, b

(* lclient_connect                                                         *)
LEMMA OpenKeeps ==
  ASSUME NickInv, NEW l \in Link, Open(l[1], l[2])
  PROVE  NickInv'
<1>1. /\ LinksOK(Message) /\ Introduced(end, net, Known, Home)
      /\ OpenLink(l[1], l[2]) /\ known' = known /\ login' = login
  BY DEF NickInv, TypeOK, Open
<1>2. LinksOK(Message)' /\ Introduced(end', net', Known, Home)
  BY <1>1, OpenLinkIs, Zenon
<1>3. Known' = Known
  BY <1>1 DEF Known
<1> QED
  BY <1>1, <1>2, <1>3 DEF NickInv, TypeOK, NewUnknown

(* server_register, server_burst                                           *)
LEMMA RegisterKeeps ==
  ASSUME NickInv, NEW l \in Link, Register(l[1], l[2])
  PROVE  NickInv'
<1>1. /\ LinksOK(Message) /\ Introduced(end, net, Known, Home)
      /\ known' = known /\ login' = login /\ TypeOK
  BY DEF NickInv, TypeOK, Register
<1>2. PICK order \in Orders(known[l[1]]) :
        RegisterLink(l[1], l[2], Burst(known[l[1]], order))
  BY DEF Register
<1>3. /\ l[1] \in Server /\ known[l[1]] \in [User -> Entry \cup {NoEntry}]
      /\ Known[l[1]] = NamesIn(known[l[1]])
      /\ Home \in [User -> Server] /\ Known \in [Server -> SUBSET User]
  BY <1>1, LinkFacts, NickAssumption DEF TypeOK, Known, NamesIn, NickAssumption
<1>4. /\ Burst(known[l[1]], order) \in Seq(Message)
      /\ IsBurst(Burst(known[l[1]], order), Known[l[1]])
  BY <1>3, BurstIs
<1>5. LinksOK(Message)' /\ Introduced(end', net', Known, Home)
  <2> DEFINE b == Burst(known[l[1]], order)
  <2>1. b \in Seq(Message) /\ IsBurst(b, Known[l[1]]) /\ RegisterLink(l[1], l[2], b)
    BY <1>2, <1>4
  <2> HIDE DEF b
  <2> QED
    BY <1>1, <1>3, <2>1, RegisterLinkIs
<1>6. Known' = Known
  BY <1>1 DEF Known
<1> QED
  BY <1>1, <1>5, <1>6 DEF NickInv, TypeOK, NewUnknown

(* lclient_vexit, server_exit, server_split                                *)
LEMMA CloseKeeps ==
  ASSUME NickInv, NEW l \in Link, Close(l[1], l[2])
  PROVE  NickInv'
<1> DEFINE s == l[1]
           c == IF end[l] = "up" THEN Forget(known[s], Behind[l]) ELSE known[s]
<1>1. /\ TypeOK /\ LinksOK(Message) /\ Introduced(end, net, Known, Home)
      /\ Home \in [User -> Server] /\ s \in Server /\ l = <<l[1], l[2]>>
      /\ s \notin Behind[l] /\ Rev(l) \in Link /\ Rev(Rev(l)) = l /\ Rev(l)[2] = s
  BY LinkFacts, NickAssumption DEF NickInv, TypeOK, NickAssumption
<1>2. /\ CloseLink(l[1], l[2]) /\ login' = login
      /\ known' = IF end[l] = "up" THEN [known EXCEPT ![s] = Forget(known[s], Behind[l])]
                  ELSE known
  BY <1>1 DEF Close
<1>3. known \in [Server -> [User -> Entry \cup {NoEntry}]]
  BY <1>1 DEF TypeOK
<1>4. known' = [known EXCEPT ![s] = c]
  BY <1>1, <1>2, <1>3
<1>5. /\ c \in [User -> Entry \cup {NoEntry}]
      /\ NamesIn(c) = {u \in NamesIn(known[s]) : Home[u] \notin Behind[l]}
  <2>1. CASE end[l] = "up"
    BY <1>1, <1>3, <2>1 DEF Forget, NamesIn
  <2>2. CASE end[l] # "up"
    <3>1. \A u \in Known[s] : Home[u] \notin Behind[l]
      <4>1. LinkTells(Rev(l), end, net, Known, Home)
        BY <1>1 DEF Introduced
      <4> QED
        BY <1>1, <2>2, <4>1 DEF LinkTells
    <3>2. Known[s] = NamesIn(known[s]) /\ c = known[s]
      BY <1>1, <2>2 DEF Known
    <3> QED
      BY <1>1, <1>3, <3>1, <3>2
  <2> QED
    BY <2>1, <2>2
<1> HIDE DEF c
<1>6. /\ known' \in [Server -> [User -> Entry \cup {NoEntry}]]
      /\ Known \in [Server -> SUBSET User] /\ Known' \in [Server -> SUBSET User]
      /\ Known[s] = NamesIn(known[s]) /\ Known'[s] = NamesIn(c)
      /\ \A x \in Server : x # s => Known'[x] = Known[x]
  BY <1>1, <1>4, <1>5, KnownAfter
<1>7. LinksOK(Message)' /\ Introduced(end', net', Known', Home)
  <2> DEFINE K2 == Known'
  <2>1. /\ K2 \in [Server -> SUBSET User] /\ Known \in [Server -> SUBSET User]
        /\ NQuit(l) \in Message /\ CloseLink(l[1], l[2])
        /\ \A x \in Server : x # l[1] => K2[x] = Known[x]
        /\ K2[l[1]] = {u \in Known[l[1]] : Home[u] \notin Behind[l]}
    BY <1>2, <1>5, <1>6, NickForms
  <2> HIDE DEF K2
  <2>2. LinksOK(Message)' /\ Introduced(end', net', K2, Home)
    BY <1>1, <2>1, CloseLinkIs, ZenonT(60)
  <2> QED
    BY <2>2 DEF K2
<1>8. NewUnknown'
  <2>1. \A u \in User : u \in Known'[Home[u]] => u \in Known[Home[u]]
    BY <1>1, <1>5, <1>6
  <2> QED
    BY <1>2, <2>1 DEF NickInv, NewUnknown
<1> QED
  BY <1>1, <1>2, <1>6, <1>7, <1>8 DEF NickInv, TypeOK

(* At first nobody is known.                                               *)
LEMMA NickInitKeeps ==
  ASSUME Init
  PROVE  NickInv
<1>1. /\ known = [s \in Server |-> [u \in User |-> NoEntry]]
      /\ login = [u \in User |-> "new"]
      /\ end = [l \in Link |-> IF l \in Linked THEN "up" ELSE "down"]
      /\ net = [l \in Link |-> <<>>] /\ sessions = 0
      /\ MaxSessions \in Nat /\ Home \in [User -> Server]
      /\ \A l \in Linked : Rev(l) \in Linked
  BY LinkAssumption, NickAssumption DEF Init, LinkInit, LinkAssumption, NickAssumption
<1>2. TypeOK
  <2>1. <<>> \in Seq(Message) /\ 0 \in 0 .. MaxSessions
    BY <1>1
  <2>2. net \in [Link -> Seq(Message)]
    BY <1>1, <2>1
  <2> QED
    BY <1>1, <2>1, <2>2 DEF TypeOK, LinksOK
<1>3. \A s \in Server : Known[s] = {}
  BY <1>1 DEF Known, NamesIn
<1>4. ASSUME NEW l \in Link
      PROVE  LinkTells(l, end, net, Known, Home)
  <2>1. /\ net[l] = <<>> /\ Known[l[2]] = {} /\ Len(net[l]) = 0
    BY <1>1, <1>3, LinkFacts
  <2>2. \A u : Once(net[l], u, Known[l[2]], Home) /\ Ended(net[l], u, Known[l[2]], Home)
    BY <2>1 DEF Once, Ended
  <2> QED
    BY <2>1, <2>2 DEF LinkTells
<1>5. Reached(end, Known, Home)
  BY <1>3 DEF Reached
<1>6. NewUnknown
  BY <1>1, <1>3 DEF NewUnknown
<1> QED
  BY <1>2, <1>4, <1>5, <1>6 DEF NickInv, Introduced

(* No action, and no action of another part, breaks it.                    *)
LEMMA NickStepKeeps ==
  ASSUME NickInv, [Next]_vars
  PROVE  NickInv'
<1>1. CASE UNCHANGED vars
  <2>1. known' = known /\ login' = login /\ end' = end /\ net' = net /\ sessions' = sessions
    BY <1>1 DEF vars, links
  <2>2. Known' = Known
    BY <2>1 DEF Known
  <2> QED
    BY <2>1, <2>2 DEF NickInv, TypeOK, LinksOK, NewUnknown
<1>2. ASSUME NEW u \in User, ClientStep(u)
      PROVE  NickInv'
  <2>1. CASE \E n \in Choice, now \in Stamp[Home[u]] : Login(u, n, now)
    BY <2>1, LoginKeeps
  <2>2. CASE \E n \in Choice, now \in Stamp[Home[u]] : ChangeNick(u, n, now)
    BY <2>2, ChangeNickKeeps
  <2>3. CASE \E now \in Stamp[Home[u]] : LoginDone(u, now)
    BY <2>3, LoginDoneKeeps
  <2>4. CASE Leave(u)
    BY <2>4, LeaveKeeps
  <2> QED
    BY <1>2, <2>1, <2>2, <2>3, <2>4 DEF ClientStep
<1>3. ASSUME NEW l \in Link, LinkStep(l[1], l[2])
      PROVE  NickInv'
  BY <1>3, ReceiveKeeps, OpenKeeps, RegisterKeeps, CloseKeeps DEF LinkStep
<1> QED
  BY <1>1, <1>2, <1>3 DEF Next

(* What ms_nuser, ms_nick, ms_nbounce, client_burst and server_split keep: *)
(* the lists of clients and the queues are what they should be, for every  *)
(* tree of servers and any users.                                          *)
THEOREM NicknamesTyped == Spec => []TypeOK
<1>1. Init => NickInv
  BY NickInitKeeps
<1>2. NickInv /\ [Next]_vars => NickInv'
  BY NickStepKeeps
<1>3. NickInv => TypeOK
  BY DEF NickInv
<1> QED
  BY <1>1, <1>2, <1>3, PTL DEF Spec

(* No server is told twice of a user it knows: ms_nuser has no cause to    *)
(* take a user off by KILL, whatever links break, users leave and bursts   *)
(* cross.                                                                  *)
THEOREM NeverIntroducedTwice == Spec => []IntroducedOnce
<1>1. Init => NickInv
  BY NickInitKeeps
<1>2. NickInv /\ [Next]_vars => NickInv'
  BY NickStepKeeps
<1>3. NickInv => IntroducedOnce
  <2> SUFFICES ASSUME NickInv, NEW l \in Link, CanRead(l[2], l[1]), Head(net[l]).cmd = "NUSER"
               PROVE  known[l[2]][Head(net[l]).of] = NoEntry
    BY DEF IntroducedOnce
  <2>1. /\ net \in [Link -> Seq(Message)] /\ Introduced(end, net, Known, Home)
        /\ Home \in [User -> Server] /\ l = <<l[1], l[2]>> /\ l[2] \in Server
    BY LinkFacts, NickAssumption DEF NickInv, TypeOK, LinksOK, NickAssumption
  <2>2. net[l] # <<>>
    BY <2>1 DEF CanRead
  <2>3. Head(net[l]).of \in User
    <3>1. Head(net[l]) \in Message
      BY <2>1, <2>2
    <3> QED
      BY <3>1, NickMessage
  <2>4. Head(net[l]).of \notin Known[l[2]]
    <3>1. DOMAIN Home = User
      BY <2>1
    <3> QED
      BY <2>1, <2>2, <2>3, <3>1, HeadIsNew
  <2> QED
    BY <2>1, <2>3, <2>4 DEF Known, NamesIn
<1> QED
  BY <1>1, <1>2, <1>3, PTL DEF Spec

-----------------------------------------------------------------------------
(* Functions defined along a line of changes.                              *)

(* A set of numbers has a smallest.                                        *)
LEMMA LeastIn ==
  ASSUME NEW S \in SUBSET Nat, S # {}
  PROVE  \E x \in S : \A y \in S : x <= y
<1>1. \E x \in S : \A y \in S : ~ (<<y, x>> \in OpToRel(<, Nat))
  BY NatLessThanWellFounded, WFMin, Zenon
<1>2. \A x \in S, y \in S : <<y, x>> \in OpToRel(<, Nat) <=> y < x
  <2>1. \A x \in Nat, y \in Nat : <<y, x>> \in {p \in Nat \X Nat : p[1] < p[2]} <=> y < x
    OBVIOUS
  <2> QED
    BY <2>1, Zenon DEF OpToRel
<1>3. \E x \in S : \A y \in S : ~(y < x)
  BY <1>1, <1>2, Zenon
<1> QED
  BY <1>3

(* What holds at first and is kept by every change holds at last.          *)
LEMMA AlongLine ==
  ASSUME NEW k \in Nat, NEW S, NEW f, f[0] \in S[0],
         \A n \in 1 .. k : f[n - 1] \in S[n - 1] => f[n] \in S[n]
  PROVE  \A n \in 0 .. k : f[n] \in S[n]
<1> DEFINE Bad == {n \in 0 .. k : f[n] \notin S[n]}
<1>1. SUFFICES ASSUME Bad # {} PROVE FALSE
  OBVIOUS
<1>2. Bad \in SUBSET Nat
  OBVIOUS
<1>3. PICK n \in Bad : \A m \in Bad : n <= m
  BY <1>1, <1>2, LeastIn, Zenon
<1>4. n \in 1 .. k /\ f[n] \notin S[n]
  BY <1>3
<1>5. f[n - 1] \in S[n - 1]
  <2>1. n - 1 \in 0 .. k /\ ~(n <= n - 1)
    BY <1>4
  <2> QED
    BY <1>3, <2>1
<1> QED
  BY <1>4, <1>5

\* What the k changes of a line do to the things of S; x taken through them.
Changes(k, S) == [1 .. k -> [S -> S]]
Through(k, S, x, G) ==
  \E f \in [0 .. k -> S] : f[0] = x /\ \A n \in 1 .. k : f[n] = G[n][f[n - 1]]

(* There is the function that each change takes one step further.          *)
LEMMA LineFunction ==
  ASSUME NEW k \in Nat, NEW S, NEW x \in S, NEW G \in Changes(k, S)
  PROVE  Through(k, S, x, G)
<1> USE DEF Changes
<1> SUFFICES \E f \in [0 .. k -> S] : f[0] = x /\ \A n \in 1 .. k : f[n] = G[n][f[n - 1]]
  BY DEF Through
<1> DEFINE Is(f, m) == f[0] = x /\ \A n \in 1 .. m : f[n] = G[n][f[n - 1]]
           Reach == {m \in 0 .. k : \E f \in [0 .. m -> S] : Is(f, m)}
           Bad == (0 .. k) \ Reach
<1>1. 0 \in Reach
  <2>1. [n \in 0 .. 0 |-> x] \in [0 .. 0 -> S] /\ Is([n \in 0 .. 0 |-> x], 0)
    OBVIOUS
  <2>2. 0 \in 0 .. k
    OBVIOUS
  <2> HIDE DEF Is
  <2> QED
    BY <2>1, <2>2
<1>2. ASSUME NEW m \in 1 .. k, m - 1 \in Reach
      PROVE  m \in Reach
  <2>1. PICK f \in [0 .. m - 1 -> S] : Is(f, m - 1)
    BY <1>2
  <2> DEFINE g == [n \in 0 .. m |-> IF n = m THEN G[m][f[m - 1]] ELSE f[n]]
  <2>2. f[m - 1] \in S /\ G[m] \in [S -> S]
    BY <2>1
  <2>3. g \in [0 .. m -> S]
    <3>1. G[m][f[m - 1]] \in S
      BY <2>2
    <3>2. ASSUME NEW n \in 0 .. m, n # m PROVE f[n] \in S
      BY <2>1, <3>2
    <3> QED
      BY <3>1, <3>2
  <2>4. g[0] = x
    BY <2>1
  <2>5. ASSUME NEW n \in 1 .. m PROVE g[n] = G[n][g[n - 1]]
    <3>1. CASE n = m
      BY <3>1
    <3>2. CASE n # m
      <4>1. n \in 1 .. m - 1 /\ n - 1 \in 0 .. m /\ n - 1 # m /\ n \in 0 .. m
        BY <3>2
      <4>2. f[n] = G[n][f[n - 1]]
        BY <2>1, <4>1
      <4> QED
        BY <3>2, <4>1, <4>2
    <3> QED
      BY <3>1, <3>2
  <2> HIDE DEF g
  <2>6. Is(g, m)
    BY <2>4, <2>5
  <2> QED
    BY <2>3, <2>6, SMTT(40)
<1> HIDE DEF Reach
<1>3. SUFFICES Bad = {}
  <2> SUFFICES k \in Reach
    BY DEF Reach
  <2> QED
    BY <1>3
<1>4. SUFFICES ASSUME Bad # {} PROVE FALSE
  OBVIOUS
<1>5. Bad \in SUBSET Nat
  OBVIOUS
<1>6. PICK m \in Bad : \A n \in Bad : m <= n
  BY <1>4, <1>5, LeastIn, Zenon
<1>7. m \in 1 .. k /\ m \notin Reach
  BY <1>1, <1>6
<1>8. m - 1 \in Reach
  <2>1. m - 1 \in 0 .. k /\ ~(m <= m - 1)
    BY <1>7
  <2> QED
    BY <1>6, <2>1
<1> QED
  BY <1>2, <1>7, <1>8


-----------------------------------------------------------------------------
(* User modes: UserModes.                                                  *)

\* No two changes alike; each that has no argument changes M.
Unlike(C)  == \A i, j \in 1 .. Len(C) : C[i].mode = C[j].mode /\ C[i].arg = C[j].arg => i = j
Real(C, M) == \A i \in 1 .. Len(C) : ~C[i].arg => ((C[i].what = "+") # (C[i].mode \in M))

\* What a server sends: an argument comes only with -o.
SentChange == {c \in UChange : c.arg => c.what = "-"}

(* usermode_change_add: the new change comes last, and for the one that    *)
(* was like it.                                                            *)
LEMMA AddedFacts ==
  ASSUME NEW X \in SUBSET UChange, NEW C \in Seq(X), NEW c \in X, Unlike(C)
  PROVE  /\ Added(C, c) \in Seq(X) /\ Unlike(Added(C, c))
         /\ \A i \in 1 .. Len(Added(C, c)) :
              Added(C, c)[i] = c \/ \E j \in 1 .. Len(C) : Added(C, c)[i] = C[j]
<1> DEFINE n == Len(C)
           p == CHOOSE i \in Alike(C, c) : TRUE
           D == IF Alike(C, c) = {} THEN C ELSE RemoveAt(C, p)
<1>1. n \in Nat /\ \A i \in 1 .. n : C[i] \in X
  OBVIOUS
<1>2. /\ D \in Seq(X) /\ Unlike(D)
      /\ \A i \in 1 .. Len(D) : \E j \in 1 .. n : D[i] = C[j]
      /\ \A i \in 1 .. Len(D) : ~(D[i].mode = c.mode /\ D[i].arg = c.arg)
  <2>1. CASE Alike(C, c) = {}
    BY <1>1, <2>1 DEF Alike
  <2>2. CASE Alike(C, c) # {}
    <3>1. p \in Alike(C, c)
      BY <2>2
    <3>2. p \in 1 .. n /\ C[p].mode = c.mode /\ C[p].arg = c.arg
      BY <3>1 DEF Alike
    <3> HIDE DEF p
    <3> DEFINE a == SubSeq(C, 1, p - 1)
               b == SubSeq(C, p + 1, n)
    <3>3. /\ a \in Seq(X) /\ Len(a) = p - 1 /\ \A i \in 1 .. p - 1 : a[i] = C[i]
      BY <1>1, <3>2
    <3>4. /\ b \in Seq(X) /\ Len(b) = n - p /\ \A i \in 1 .. n - p : b[i] = C[p + i]
      BY <1>1, <3>2
    <3>5. D = a \o b
      BY <2>2 DEF RemoveAt
    <3> HIDE DEF a, b, D, n
    <3>6. /\ D \in Seq(X) /\ Len(D) = n - 1
          /\ \A i \in 1 .. n - 1 : D[i] = IF i < p THEN C[i] ELSE C[i + 1]
      BY <1>1, <3>2, <3>3, <3>4, <3>5, SMTT(40)
    <3>7. \A j \in 1 .. n : j # p => ~(C[j].mode = c.mode /\ C[j].arg = c.arg)
      BY <3>2 DEF Unlike, n
    <3>8. ASSUME NEW i \in 1 .. Len(D)
          PROVE  \E j \in 1 .. n : j # p /\ D[i] = C[j]
      <4>1. i \in 1 .. n - 1 /\ p \in 1 .. n
        BY <3>2, <3>6
      <4>2. i \in 1 .. n /\ i + 1 \in 1 .. n /\ (i < p => i # p) /\ (~(i < p) => i + 1 # p)
        BY <1>1, <4>1
      <4> QED
        BY <3>6, <4>1, <4>2
    <3>9. Unlike(D)
      <4> SUFFICES ASSUME NEW i \in 1 .. Len(D), NEW j \in 1 .. Len(D),
                          D[i].mode = D[j].mode, D[i].arg = D[j].arg
                   PROVE  i = j
        BY DEF Unlike
      <4> DEFINE at(x) == IF x < p THEN x ELSE x + 1
      <4>1. /\ at(i) \in 1 .. n /\ at(j) \in 1 .. n /\ D[i] = C[at(i)] /\ D[j] = C[at(j)]
        <5>1. i \in 1 .. n - 1 /\ j \in 1 .. n - 1 /\ p \in 1 .. n
          BY <3>2, <3>6
        <5>2. at(i) \in 1 .. n /\ at(j) \in 1 .. n
          BY <1>1, <5>1
        <5> QED
          BY <3>6, <5>1, <5>2
      <4>2. at(i) = at(j)
        BY <4>1 DEF Unlike, n
      <4> QED
        BY <1>1, <3>2, <3>6, <4>2
    <3> QED
      BY <3>6, <3>7, <3>8, <3>9
  <2> QED
    BY <2>1, <2>2
<1>3. Added(C, c) = Append(D, c)
  BY DEF Added
<1> HIDE DEF D, p
<1>4. /\ Added(C, c) \in Seq(X) /\ Len(Added(C, c)) = Len(D) + 1
      /\ Added(C, c)[Len(D) + 1] = c
      /\ \A i \in 1 .. Len(D) : Added(C, c)[i] = D[i]
  BY <1>2, <1>3
<1>5. \A i \in 1 .. Len(Added(C, c)) : i \in 1 .. Len(D) \/ i = Len(D) + 1
  BY <1>2, <1>4
<1>6. \A i \in 1 .. Len(Added(C, c)) :
        Added(C, c)[i] = c \/ \E j \in 1 .. Len(C) : Added(C, c)[i] = C[j]
  BY <1>2, <1>4, <1>5 DEF n
<1>7. Unlike(Added(C, c))
  BY <1>2, <1>4, <1>5, ZenonT(60) DEF Unlike
<1> QED
  BY <1>4, <1>6, <1>7

(* usermode_parse of one change.                                           *)
LEMMA NotedFacts ==
  ASSUME NEW X \in SUBSET UChange, NEW C \in Seq(X), NEW c \in X, NEW M,
         Unlike(C), Real(C, M)
  PROVE  Noted(C, c, M) \in Seq(X) /\ Unlike(Noted(C, c, M)) /\ Real(Noted(C, c, M), M)
<1>1. CASE ~c.arg /\ (c.what = "+") = (c.mode \in M)
  BY <1>1 DEF Noted
<1>2. CASE ~(~c.arg /\ (c.what = "+") = (c.mode \in M))
  <2>1. Noted(C, c, M) = Added(C, c)
    BY <1>2 DEF Noted
  <2>2. /\ Added(C, c) \in Seq(X) /\ Unlike(Added(C, c))
        /\ \A i \in 1 .. Len(Added(C, c)) :
             Added(C, c)[i] = c \/ \E j \in 1 .. Len(C) : Added(C, c)[i] = C[j]
    BY AddedFacts
  <2>3. Real(Added(C, c), M)
    BY <1>2, <2>2 DEF Real
  <2> QED
    BY <2>1, <2>2, <2>3
<1> QED
  BY <1>1, <1>2

(* usermode_parse: no two changes are alike and each changes something.    *)
LEMMA ParsedFacts ==
  ASSUME NEW X \in SUBSET UChange, NEW L \in Seq(X), NEW M
  PROVE  Parsed(M, L) \in Seq(X) /\ Unlike(Parsed(M, L)) /\ Real(Parsed(M, L), M)
<1> DEFINE k == Len(L)
           D == 0 .. k
           body(h) == [i \in 0 .. k |-> IF i = 0 THEN <<>> ELSE Noted(h[i - 1], L[i], M)]
           Parse == CHOOSE h : h = body(h)
           S == {C \in Seq(X) : Unlike(C) /\ Real(C, M)}
           G == [n \in 1 .. k |-> [C \in S |-> Noted(C, L[n], M)]]
<1>1. k \in Nat /\ \A i \in 1 .. k : L[i] \in X
  OBVIOUS
<1>2. \A n \in 1 .. k, C \in S : Noted(C, L[n], M) \in S
  BY <1>1, NotedFacts
<1>3. G \in Changes(k, S)
  <2> HIDE DEF S
  <2> QED
    BY <1>2 DEF Changes
<1>4. <<>> \in S
  BY DEF Unlike, Real
<1>5. Parsed(M, L) = Parse[k]
  BY DEF Parsed
<1>6. Parse = CHOOSE h : h = body(h)
  OBVIOUS
<1> HIDE DEF G, S, k, Parse
<1>7. PICK f \in [D -> S] : f[0] = <<>> /\ \A n \in 1 .. k : f[n] = G[n][f[n - 1]]
  <2>1. Through(k, S, <<>>, G)
    BY <1>1, <1>3, <1>4, LineFunction, Zenon
  <2> QED
    BY <2>1 DEF Through
<1>8. f = body(f)
  <2>1. ASSUME NEW n \in D
        PROVE  f[n] = IF n = 0 THEN <<>> ELSE Noted(f[n - 1], L[n], M)
    <3>1. n = 0 \/ (n \in 1 .. k /\ n - 1 \in D)
      BY <1>1
    <3>2. n \in 1 .. k /\ n - 1 \in D => f[n] = Noted(f[n - 1], L[n], M)
      BY <1>7 DEF G
    <3> QED
      BY <1>7, <3>1, <3>2
  <2> QED
    BY <2>1
<1>9. Parse = body(Parse)
  <2> HIDE DEF body
  <2> QED
    BY <1>6, <1>8
<1>10. \A n \in D : Parse[n] \in S
  <2> DEFINE T == [n \in D |-> S]
  <2>1. \A n \in D : Parse[n] = IF n = 0 THEN <<>> ELSE Noted(Parse[n - 1], L[n], M)
    BY <1>9, Zenon
  <2>2. 0 \in D /\ \A n \in 1 .. k : n \in D /\ n - 1 \in D /\ n # 0
    BY <1>1
  <2>3. Parse[0] \in T[0]
    BY <1>4, <2>1, <2>2
  <2>4. \A n \in 1 .. k : Parse[n - 1] \in T[n - 1] => Parse[n] \in T[n]
    BY <1>2, <2>1, <2>2
  <2> HIDE DEF T
  <2>5. \A n \in D : Parse[n] \in T[n]
    BY <1>1, <2>3, <2>4, AlongLine
  <2> QED
    BY <2>5 DEF T
<1>11. Parse[k] \in S
  BY <1>1, <1>10
<1> QED
  BY <1>5, <1>11 DEF S

\* What usermode_apply works on.
AnyRun == [modes : SUBSET UMode, in : [UMode -> Nat], oper : Oper, done : Seq(UChange)]
Start(s, u, o) ==
  [modes |-> umode[s][u], in |-> [m \in UMode |-> listed[s][m][u]], oper |-> o, done |-> <<>>]

\* What s has of u is in order: the modes M, the places in lists, the operator.
OperSane(o) == (o.type = "oper") = o.block /\ o.block = o.online /\ (o.block => o.once)
Fits(s, u, M, in, o) ==
  /\ in["c"] = IF Local(s, u) /\ "c" \in M THEN 1 ELSE 0
  /\ in["i"] = IF Local(s, u) /\ M # Unknown /\ "i" \notin M THEN 1 ELSE 0
  /\ in["o"] <= IF "o" \in M THEN 1 ELSE 0
  /\ Local(s, u) => /\ OperSane(o) /\ (o.block => "o" \in M)
                    /\ "o" \in M => o.once

\* The changes come from the user and are checked, or from another server.
Checked(s, u, C, typed) ==
  \/ Local(s, u) /\ typed
  \/ ~Local(s, u) /\ ~typed /\ \A i \in 1 .. Len(C) : C[i] \in SentChange

(* The fields of what usermode_apply works on.                             *)
LEMMA RunFields ==
  ASSUME NEW M \in SUBSET UMode, NEW in \in [UMode -> Nat], NEW o \in Oper,
         NEW D \in Seq(UChange)
  PROVE  [modes |-> M, in |-> in, oper |-> o, done |-> D] \in AnyRun
  BY DEF AnyRun

(* usermode_link, usermode_unlink                                          *)
LEMMA RelinkedIs ==
  ASSUME NEW n \in Nat, NEW c \in UChange
  PROVE  /\ Relinked(n, c) \in Nat
         /\ c.mode # "i" => Relinked(n, c) = IF c.what = "+" THEN n + 1 ELSE IF n = 0 THEN 0 ELSE n - 1
         /\ c.mode = "i" => Relinked(n, c) = IF c.what = "-" THEN n + 1 ELSE IF n = 0 THEN 0 ELSE n - 1
  BY DEF Relinked, ListMode, UChange

\* R is what c leaves of st, if it is not bounced.
Applied(R, st, c, s, u) ==
  /\ R.modes = IF c.arg THEN st.modes
               ELSE IF c.what = "+" THEN st.modes \cup {c.mode} ELSE st.modes \ {c.mode}
  /\ R.in = IF Keeps(s, u, c.mode)
            THEN [st.in EXCEPT ![c.mode] = Relinked(st.in[c.mode], c)] ELSE st.in
  /\ R.oper = IF Local(s, u) /\ c.mode = "o" /\ c.what = "-" /\ st.oper.block
              THEN Down(st.oper) ELSE st.oper
  /\ R.done = Append(st.done, c)

(* usermode_apply of one change.                                           *)
LEMMA ApplyOneIs ==
  ASSUME NEW st \in AnyRun, NEW c \in UChange, NEW s, NEW u, NEW typed
  PROVE  /\ ApplyOne(st, c, s, u, typed) \in AnyRun
         /\ IF Bounced(st, c, Local(s, u), typed) THEN ApplyOne(st, c, s, u, typed) = st
            ELSE Applied(ApplyOne(st, c, s, u, typed), st, c, s, u)
<1> DEFINE R == ApplyOne(st, c, s, u, typed)
<1>1. /\ st.modes \in SUBSET UMode /\ st.in \in [UMode -> Nat] /\ st.oper \in Oper
      /\ st.done \in Seq(UChange) /\ c.mode \in UMode
  BY DEF AnyRun, UChange
<1>2. CASE Bounced(st, c, Local(s, u), typed)
  BY <1>2 DEF ApplyOne
<1>3. CASE ~Bounced(st, c, Local(s, u), typed)
  <2> DEFINE M == IF c.arg THEN st.modes
                  ELSE IF c.what = "+" THEN st.modes \cup {c.mode} ELSE st.modes \ {c.mode}
             in == IF Keeps(s, u, c.mode)
                   THEN [st.in EXCEPT ![c.mode] = Relinked(st.in[c.mode], c)] ELSE st.in
             o == IF Local(s, u) /\ c.mode = "o" /\ c.what = "-" /\ st.oper.block
                  THEN Down(st.oper) ELSE st.oper
             D == Append(st.done, c)
  <2>1. R = [modes |-> M, in |-> in, oper |-> o, done |-> D]
    BY <1>3 DEF ApplyOne
  <2>2. M \in SUBSET UMode
    BY <1>1
  <2>3. in \in [UMode -> Nat]
    <3>1. Relinked(st.in[c.mode], c) \in Nat
      BY <1>1, RelinkedIs
    <3> QED
      BY <1>1, <3>1
  <2>4. o \in Oper
    BY <1>1 DEF Down, Oper
  <2>5. D \in Seq(UChange)
    BY <1>1
  <2> HIDE DEF M, in, o, D, R
  <2>6. R \in AnyRun
    BY <2>1, <2>2, <2>3, <2>4, <2>5, RunFields
  <2>7. R.modes = M /\ R.in = in /\ R.oper = o /\ R.done = D
    BY <2>1
  <2> QED
    BY <1>3, <2>6, <2>7 DEF Applied, M, in, o, D, R
<1> QED
  BY <1>2, <1>3

\* f leads from what s has of u to what usermode_apply makes of it.
Leads(f, s, u, o, C, typed) ==
  /\ f \in [0 .. Len(C) -> AnyRun]
  /\ f[0] = Start(s, u, o) /\ f[Len(C)] = Apply(s, u, o, C, typed)
  /\ \A n \in 1 .. Len(C) : f[n] = ApplyOne(f[n - 1], C[n], s, u, typed)

(* usermode_apply, change after change.                                    *)
LEMMA ApplyRuns ==
  ASSUME NEW s, NEW u, NEW o, NEW C \in Seq(UChange), NEW typed, Start(s, u, o) \in AnyRun
  PROVE  \E f : Leads(f, s, u, o, C, typed)
<1> DEFINE k == Len(C)
           D == 0 .. k
           st == Start(s, u, o)
           body(h) == [i \in 0 .. k |-> IF i = 0 THEN st ELSE ApplyOne(h[i - 1], C[i], s, u, typed)]
           After == CHOOSE h : h = body(h)
           G == [n \in 1 .. k |-> [x \in AnyRun |-> ApplyOne(x, C[n], s, u, typed)]]
<1>1. k \in Nat /\ \A i \in 1 .. k : C[i] \in UChange
  OBVIOUS
<1>2. \A n \in 1 .. k, x \in AnyRun : ApplyOne(x, C[n], s, u, typed) \in AnyRun
  BY <1>1, ApplyOneIs
<1>3. G \in Changes(k, AnyRun)
  BY <1>2 DEF Changes
<1>4. Apply(s, u, o, C, typed) = After[k]
  BY DEF Apply, Start
<1>5. After = CHOOSE h : h = body(h)
  OBVIOUS
<1> HIDE DEF G, k, After, st
<1>6. PICK f \in [D -> AnyRun] : f[0] = st /\ \A n \in 1 .. k : f[n] = G[n][f[n - 1]]
  <2>1. st \in AnyRun
    BY DEF st
  <2>2. Through(k, AnyRun, st, G)
    BY <1>1, <1>3, <2>1, LineFunction, Zenon
  <2> QED
    BY <2>2 DEF Through
<1>7. f = body(f)
  <2>1. ASSUME NEW n \in D
        PROVE  f[n] = IF n = 0 THEN st ELSE ApplyOne(f[n - 1], C[n], s, u, typed)
    <3>1. n = 0 \/ (n \in 1 .. k /\ n - 1 \in D)
      BY <1>1
    <3>2. n \in 1 .. k /\ n - 1 \in D => f[n] = ApplyOne(f[n - 1], C[n], s, u, typed)
      BY <1>6 DEF G
    <3> QED
      BY <1>6, <3>1, <3>2
  <2> QED
    BY <2>1
<1>8. After = body(After)
  <2> HIDE DEF body
  <2> QED
    BY <1>5, <1>7
<1>9. \A n \in D : After[n] = IF n = 0 THEN st ELSE ApplyOne(After[n - 1], C[n], s, u, typed)
  BY <1>8, Zenon
<1>10. 0 \in D /\ k \in D /\ \A n \in 1 .. k : n \in D /\ n - 1 \in D /\ n # 0
  BY <1>1
<1>11. After[0] = st /\ \A n \in 1 .. k : After[n] = ApplyOne(After[n - 1], C[n], s, u, typed)
  BY <1>9, <1>10
<1>12. \A n \in D : After[n] \in AnyRun
  <2> DEFINE T == [n \in D |-> AnyRun]
  <2>1. After[0] \in T[0]
    BY <1>10, <1>11 DEF st
  <2>2. \A n \in 1 .. k : After[n - 1] \in T[n - 1] => After[n] \in T[n]
    BY <1>2, <1>10, <1>11
  <2> HIDE DEF T
  <2>3. \A n \in D : After[n] \in T[n]
    BY <1>1, <2>1, <2>2, AlongLine
  <2> QED
    BY <2>3 DEF T
<1>13. After = [n \in D |-> After[n]]
  BY <1>8
<1>14. After \in [D -> AnyRun]
  BY <1>12, <1>13
<1> QED
  BY <1>4, <1>11, <1>14 DEF Leads, k, st

(* One change of a user's modes keeps all in order.                        *)
LEMMA ApplyOneFits ==
  ASSUME NEW s, NEW u, NEW st \in AnyRun, NEW c \in UChange, NEW typed \in BOOLEAN,
         (Local(s, u) /\ typed) \/ (~Local(s, u) /\ c \in SentChange),
         Fits(s, u, st.modes, st.in, st.oper),
         ~c.arg => ((c.what = "+") # (c.mode \in st.modes)),
         \A i \in 1 .. Len(st.done) : st.done[i] \in SentChange
  PROVE  LET R == ApplyOne(st, c, s, u, typed)
         IN  /\ R \in AnyRun /\ Fits(s, u, R.modes, R.in, R.oper)
             /\ \A i \in 1 .. Len(R.done) : R.done[i] \in SentChange
             /\ \A m \in UMode : (m \in R.modes) # (m \in st.modes) => m = c.mode /\ ~c.arg
<1> DEFINE R == ApplyOne(st, c, s, u, typed)
<1>1. /\ st.modes \in SUBSET UMode /\ st.in \in [UMode -> Nat] /\ st.oper \in Oper
      /\ st.done \in Seq(UChange) /\ c.mode \in UMode /\ c.arg \in BOOLEAN
      /\ c.what \in {"+", "-"} /\ (c.arg => c.mode = "o")
  BY DEF AnyRun, UChange
<1>2. R \in AnyRun
  BY ApplyOneIs
<1>3. CASE Bounced(st, c, Local(s, u), typed)
  <2>1. R = st
    BY <1>3, ApplyOneIs, Zenon
  <2> QED
    BY <1>2, <2>1
<1>4. CASE ~Bounced(st, c, Local(s, u), typed)
  <2>1. Applied(R, st, c, s, u)
    BY <1>4, ApplyOneIs, Zenon
  <2>2. /\ R.modes = IF c.arg THEN st.modes
                     ELSE IF c.what = "+" THEN st.modes \cup {c.mode} ELSE st.modes \ {c.mode}
        /\ R.in = IF Keeps(s, u, c.mode)
                  THEN [st.in EXCEPT ![c.mode] = Relinked(st.in[c.mode], c)] ELSE st.in
        /\ R.oper = IF Local(s, u) /\ c.mode = "o" /\ c.what = "-" /\ st.oper.block
                    THEN Down(st.oper) ELSE st.oper
        /\ R.done = Append(st.done, c)
    BY <2>1, Zenon DEF Applied
  <2> HIDE DEF R
  <2>3. c \in SentChange /\ (Local(s, u) /\ c.what = "+" => c.mode # "o")
    BY <1>1, <1>4 DEF Bounced, SentChange
  <2>4. \A i \in 1 .. Len(R.done) : R.done[i] \in SentChange
    BY <1>1, <2>2, <2>3
  <2>5. \A m \in UMode : R.in[m] = IF m = c.mode /\ (m = "o" \/ Local(s, u))
                                   THEN Relinked(st.in[m], c) ELSE st.in[m]
    BY <1>1, <2>2 DEF Keeps
  <2>6. /\ \A m \in UMode : (m \in R.modes) # (m \in st.modes) => m = c.mode /\ ~c.arg
        /\ ~c.arg => (c.mode \in R.modes <=> c.what = "+")
        /\ c.arg => R.modes = st.modes
    BY <1>1, <2>2
  <2>7. R.modes # Unknown /\ st.modes # Unknown
    <3>1. \A M \in SUBSET UMode : M # Unknown
      BY DEF UMode, Unknown
    <3> QED
      BY <1>1, <2>2, <3>1
  <2> DEFINE n == st.in[c.mode]
  <2>8. /\ Relinked(n, c) = IF (c.mode = "i") = (c.what = "-") THEN n + 1
                            ELSE IF n = 0 THEN 0 ELSE n - 1
        /\ n \in Nat
    BY <1>1 DEF Relinked, ListMode
  <2>9. /\ st.in["c"] = IF Local(s, u) /\ "c" \in st.modes THEN 1 ELSE 0
        /\ st.in["i"] = IF Local(s, u) /\ "i" \notin st.modes THEN 1 ELSE 0
        /\ st.in["o"] <= IF "o" \in st.modes THEN 1 ELSE 0
        /\ {"o", "c", "i"} = UMode /\ st.in["o"] \in Nat
    BY <1>1, <2>7 DEF Fits, UMode
  <2>10. R.in["c"] = IF Local(s, u) /\ "c" \in R.modes THEN 1 ELSE 0
    <3>1. CASE c.mode = "c"
      <4>1. ~c.arg /\ R.in["c"] = IF Local(s, u) THEN Relinked(n, c) ELSE st.in["c"]
        BY <1>1, <2>5, <2>9, <3>1
      <4> QED
        BY <1>1, <2>6, <2>8, <2>9, <3>1, <4>1
    <3>2. CASE c.mode # "c"
      BY <2>5, <2>6, <2>9, <3>2
    <3> QED
      BY <3>1, <3>2
  <2>11. R.in["i"] = IF Local(s, u) /\ R.modes # Unknown /\ "i" \notin R.modes THEN 1 ELSE 0
    <3>1. CASE c.mode = "i"
      <4>1. ~c.arg /\ R.in["i"] = IF Local(s, u) THEN Relinked(n, c) ELSE st.in["i"]
        BY <1>1, <2>5, <2>9, <3>1
      <4> QED
        BY <1>1, <2>6, <2>8, <2>7, <2>9, <3>1, <4>1
    <3>2. CASE c.mode # "i"
      BY <2>5, <2>6, <2>7, <2>9, <3>2
    <3> QED
      BY <3>1, <3>2
  <2>12. R.in["o"] <= IF "o" \in R.modes THEN 1 ELSE 0
    <3>1. CASE c.mode = "o"
      <4>1. R.in["o"] = Relinked(n, c)
        BY <2>5, <2>9, <3>1
      <4>2. c.arg => c.what = "-"
        BY <2>3 DEF SentChange
      <4> QED
        BY <1>1, <2>6, <2>8, <2>9, <3>1, <4>1, <4>2
    <3>2. CASE c.mode # "o"
      BY <2>5, <2>6, <2>9, <3>2
    <3> QED
      BY <3>1, <3>2
  <2>13. Local(s, u) => /\ OperSane(R.oper) /\ (R.oper.block => "o" \in R.modes)
                        /\ "o" \in R.modes => R.oper.once
    <3> SUFFICES ASSUME Local(s, u)
                 PROVE  /\ OperSane(R.oper) /\ (R.oper.block => "o" \in R.modes)
                        /\ "o" \in R.modes => R.oper.once
      OBVIOUS
    <3>1. /\ OperSane(st.oper) /\ (st.oper.block => "o" \in st.modes)
          /\ "o" \in st.modes => st.oper.once
      BY DEF Fits
    <3>2. CASE c.mode = "o" /\ c.what = "-" /\ st.oper.block
      <4>1. R.oper = Down(st.oper)
        BY <2>2, <3>2
      <4>2. /\ R.oper.type = "user" /\ R.oper.block = FALSE /\ R.oper.online = FALSE
            /\ R.oper.once = st.oper.once
        BY <1>1, <4>1 DEF Down, Oper
      <4>3. "o" \in R.modes => "o" \in st.modes
        BY <1>1, <2>2, <3>2
      <4> QED
        BY <3>1, <4>2, <4>3 DEF OperSane
    <3>3. CASE ~(c.mode = "o" /\ c.what = "-" /\ st.oper.block)
      <4>1. R.oper = st.oper
        BY <2>2, <3>3
      <4>2. "o" \in R.modes => "o" \in st.modes
        BY <1>1, <2>2, <2>3
      <4>3. st.oper.block /\ "o" \in st.modes => "o" \in R.modes
        BY <1>1, <2>2, <3>3
      <4> QED
        BY <3>1, <4>1, <4>2, <4>3
    <3> QED
      BY <3>2, <3>3
  <2>14. Fits(s, u, R.modes, R.in, R.oper)
    BY <2>10, <2>11, <2>12, <2>13 DEF Fits
  <2> QED
    BY <1>2, <2>4, <2>6, <2>14 DEF R
<1> QED
  BY <1>3, <1>4

\* What s has of u.
InOf(s, u)  == [m \in UMode |-> listed[s][m][u]]
InOrder(s, u) == Fits(s, u, umode[s][u], InOf(s, u), oper[u])

\* R may take its place, and be sent.
Result(s, u, R) ==
  /\ R.modes \in SUBSET UMode /\ R.in \in [UMode -> Nat] /\ R.oper \in Oper
  /\ R.done \in Seq(SentChange) /\ Fits(s, u, R.modes, R.in, R.oper)

(* The types of what s has of u.                                           *)
LEMMA StartTyped ==
  ASSUME UserTypeOK, NEW s \in Server, NEW u \in Client, umode[s][u] # Unknown, NEW o \in Oper
  PROVE  /\ umode[s][u] \in SUBSET UMode /\ InOf(s, u) \in [UMode -> Nat]
         /\ Start(s, u, o) \in AnyRun
         /\ Start(s, u, o).modes = umode[s][u] /\ Start(s, u, o).in = InOf(s, u)
         /\ Start(s, u, o).oper = o /\ Start(s, u, o).done = <<>>
<1>1. umode[s][u] \in SUBSET UMode
  BY DEF UserTypeOK
<1>2. InOf(s, u) \in [UMode -> Nat]
  BY DEF UserTypeOK, InOf
<1>3. Start(s, u, o) = [modes |-> umode[s][u], in |-> InOf(s, u), oper |-> o, done |-> <<>>]
  BY DEF Start, InOf
<1>4. <<>> \in Seq(UChange)
  OBVIOUS
<1>5. Start(s, u, o) \in AnyRun
  BY <1>1, <1>2, <1>3, <1>4, RunFields
<1> QED
  BY <1>1, <1>2, <1>3, <1>5

(* usermode_apply of a parsed line keeps all in order.                     *)
LEMMA ApplyFits ==
  ASSUME UserTypeOK, NEW s \in Server, NEW u \in Client, umode[s][u] # Unknown, InOrder(s, u),
         NEW typed \in BOOLEAN, NEW C \in Seq(UChange), Unlike(C), Real(C, umode[s][u]),
         Checked(s, u, C, typed)
  PROVE  Result(s, u, Apply(s, u, oper[u], C, typed))
<1> DEFINE M == umode[s][u]
           k == Len(C)
           D == 0 .. k
           Same(n, m) == \A j \in 1 .. n : C[j].mode = m => C[j].arg
           T == [n \in D |-> {st \in AnyRun :
                   /\ Fits(s, u, st.modes, st.in, st.oper)
                   /\ \A i \in 1 .. Len(st.done) : st.done[i] \in SentChange
                   /\ \A m \in UMode : Same(n, m) => (m \in st.modes <=> m \in M)}]
<1>1. oper[u] \in Oper /\ k \in Nat /\ \A i \in 1 .. k : C[i] \in UChange
  BY DEF UserTypeOK
<1>2. /\ Start(s, u, oper[u]) \in AnyRun /\ Start(s, u, oper[u]).modes = M
      /\ Start(s, u, oper[u]).in = InOf(s, u) /\ Start(s, u, oper[u]).oper = oper[u]
      /\ Start(s, u, oper[u]).done = <<>>
  BY <1>1, StartTyped
<1>3. PICK f : Leads(f, s, u, oper[u], C, typed)
  BY <1>2, ApplyRuns, Zenon
<1>4. /\ f \in [D -> AnyRun]
      /\ f[0] = Start(s, u, oper[u]) /\ f[k] = Apply(s, u, oper[u], C, typed)
      /\ \A n \in 1 .. k : f[n] = ApplyOne(f[n - 1], C[n], s, u, typed)
  BY <1>3, Zenon DEF Leads
<1>5. f[0] \in T[0]
  <2>1. 0 \in D /\ f[0] \in AnyRun
    BY <1>1, <1>4
  <2>2. Fits(s, u, M, InOf(s, u), oper[u])
    BY DEF InOrder
  <2> QED
    BY <1>2, <1>4, <2>1, <2>2
<1>6. ASSUME NEW n \in 1 .. k, f[n - 1] \in T[n - 1]
      PROVE  f[n] \in T[n]
  <2> DEFINE st == f[n - 1]
             c == C[n]
             R == ApplyOne(st, c, s, u, typed)
  <2>1. n - 1 \in D /\ n \in D /\ c \in UChange
    BY <1>1
  <2>2. /\ st \in AnyRun /\ Fits(s, u, st.modes, st.in, st.oper)
        /\ \A i \in 1 .. Len(st.done) : st.done[i] \in SentChange
        /\ \A m \in UMode : Same(n - 1, m) => (m \in st.modes <=> m \in M)
    BY <1>6, <2>1
  <2>3. ~c.arg => ((c.what = "+") # (c.mode \in st.modes))
    <3> SUFFICES ASSUME ~c.arg
                 PROVE  (c.what = "+") # (c.mode \in st.modes)
      OBVIOUS
    <3>1. c.mode \in UMode
      BY <2>1 DEF UChange
    <3>2. Same(n - 1, c.mode)
      <4> SUFFICES ASSUME NEW j \in 1 .. n - 1, C[j].mode = c.mode
                   PROVE  C[j].arg
        OBVIOUS
      <4>1. j \in 1 .. k /\ j # n /\ C[j].arg \in BOOLEAN /\ c.arg \in BOOLEAN
        BY <1>1, <2>1 DEF UChange
      <4>2. C[j].arg # c.arg
        BY <4>1 DEF Unlike
      <4> QED
        BY <4>1, <4>2
    <3>3. (c.what = "+") # (c.mode \in M)
      BY DEF Real
    <3> QED
      BY <2>2, <3>1, <3>2, <3>3
  <2>4. (Local(s, u) /\ typed) \/ (~Local(s, u) /\ c \in SentChange)
    BY Zenon DEF Checked
  <2> HIDE DEF st, c, T
  <2>5. /\ R \in AnyRun /\ Fits(s, u, R.modes, R.in, R.oper)
        /\ \A i \in 1 .. Len(R.done) : R.done[i] \in SentChange
        /\ \A m \in UMode : (m \in R.modes) # (m \in st.modes) => m = c.mode /\ ~c.arg
    BY <2>1, <2>2, <2>3, <2>4, ApplyOneFits
  <2>6. ASSUME NEW m \in UMode, Same(n, m)
        PROVE  m \in R.modes <=> m \in M
    <3>1. Same(n - 1, m) /\ (c.mode = m => c.arg)
      BY <1>1, <2>6 DEF c
    <3> QED
      BY <2>2, <2>5, <3>1
  <2>7. f[n] = R
    BY <1>4 DEF st, c
  <2> HIDE DEF R, Same
  <2> QED
    BY <2>1, <2>5, <2>6, <2>7 DEF T
<1> HIDE DEF T
<1>7. \A n \in D : f[n] \in T[n]
  BY <1>1, <1>5, <1>6, AlongLine
<1> DEFINE R == Apply(s, u, oper[u], C, typed)
<1>8. /\ R \in AnyRun /\ Fits(s, u, R.modes, R.in, R.oper)
      /\ \A i \in 1 .. Len(R.done) : R.done[i] \in SentChange
  <2>1. k \in D
    BY <1>1
  <2>2. f[k] \in T[k]
    BY <1>7, <2>1
  <2> QED
    BY <1>4, <2>1, <2>2 DEF T
<1> HIDE DEF R
<1>9. /\ R.modes \in SUBSET UMode /\ R.in \in [UMode -> Nat] /\ R.oper \in Oper
      /\ R.done \in Seq(UChange)
  BY <1>8 DEF AnyRun
<1>10. R.done \in Seq(SentChange)
  <2>1. /\ R.done = [i \in 1 .. Len(R.done) |-> R.done[i]] /\ Len(R.done) \in Nat
    BY <1>9, SMTT(40)
  <2> QED
    BY <1>8, <2>1
<1>11. Result(s, u, R)
  BY <1>8, <1>9, <1>10 DEF Result
<1> QED
  BY <1>11 DEF R

(* usermode_make                                                           *)
LEMMA MakeFits ==
  ASSUME UserTypeOK, NEW s \in Server, NEW u \in Client, umode[s][u] # Unknown, InOrder(s, u),
         NEW typed \in BOOLEAN, NEW L \in Seq(UChange), Checked(s, u, L, typed)
  PROVE  Result(s, u, Make(s, u, L, typed))
<1> DEFINE M == umode[s][u]
           C == Parsed(M, L)
           X == IF Local(s, u) THEN UChange ELSE SentChange
<1>1. X \in SUBSET UChange /\ L \in Seq(X)
  <2>1. SentChange \subseteq UChange
    BY DEF SentChange
  <2>2. ~Local(s, u) => \A i \in 1 .. Len(L) : L[i] \in SentChange
    BY DEF Checked
  <2>3. ~Local(s, u) => L \in Seq(SentChange)
    BY <2>2
  <2> QED
    BY <2>1, <2>3
<1> HIDE DEF X
<1>2. C \in Seq(X) /\ Unlike(C) /\ Real(C, M)
  BY <1>1, ParsedFacts
<1>3. C \in Seq(UChange) /\ Checked(s, u, C, typed)
  <2>1. \A i \in 1 .. Len(C) : C[i] \in X
    BY <1>2
  <2>2. C \in Seq(UChange)
    BY <1>1, <1>2
  <2> QED
    BY <2>1, <2>2 DEF Checked, X
<1>4. Make(s, u, L, typed) = Apply(s, u, oper[u], C, typed)
  BY DEF Make
<1> HIDE DEF C, M
<1>5. Unlike(C) /\ Real(C, umode[s][u])
  BY <1>2 DEF M
<1> QED
  BY <1>3, <1>4, <1>5, ApplyFits

(* oper_up: the mode, the list and the privileges together.                *)
LEMMA OperFits ==
  ASSUME UserTypeOK, NEW s \in Server, NEW u \in Client, umode[s][u] # Unknown, InOrder(s, u),
         Local(s, u), ~oper[u].once
  PROVE  Result(s, u, Apply(s, u, Up, <<[what |-> "+", mode |-> "o", arg |-> FALSE]>>, FALSE))
<1> DEFINE c == [what |-> "+", mode |-> "o", arg |-> FALSE]
           st == Start(s, u, Up)
           R == ApplyOne(st, c, s, u, FALSE)
<1>1. c \in SentChange /\ c \in UChange /\ Up \in Oper /\ <<c>> \in Seq(UChange) /\ Len(<<c>>) = 1
  BY DEF SentChange, UChange, UMode, Up, Oper
<1>2. /\ st \in AnyRun /\ st.modes = umode[s][u] /\ st.in = InOf(s, u) /\ st.oper = Up
      /\ st.done = <<>> /\ umode[s][u] \in SUBSET UMode /\ InOf(s, u) \in [UMode -> Nat]
  BY <1>1, StartTyped
<1>3. Apply(s, u, Up, <<c>>, FALSE) = R
  <2> HIDE DEF c, st
  <2> DEFINE C == <<c>>
  <2>1. C \in Seq(UChange) /\ Len(C) = 1 /\ C[1] = c
    BY <1>1
  <2> HIDE DEF C
  <2>2. PICK f : Leads(f, s, u, Up, C, FALSE)
    BY <1>2, <2>1, ApplyRuns, Zenon DEF st
  <2>3. /\ f[0] = st /\ f[Len(C)] = Apply(s, u, Up, C, FALSE)
        /\ \A n \in 1 .. Len(C) : f[n] = ApplyOne(f[n - 1], C[n], s, u, FALSE)
    BY <2>2, Zenon DEF Leads, st
  <2>4. 1 - 1 = 0 /\ 1 \in 1 .. 1
    OBVIOUS
  <2>5. f[1] = ApplyOne(f[1 - 1], C[1], s, u, FALSE)
    BY <2>1, <2>3, <2>4
  <2> QED
    BY <2>1, <2>3, <2>4, <2>5 DEF C
<1>4. c.what = "+" /\ c.mode = "o" /\ c.arg = FALSE
  OBVIOUS
<1> HIDE DEF c, st, R
<1>5. ~Bounced(st, c, Local(s, u), FALSE)
  BY <1>4 DEF Bounced
<1>6. R \in AnyRun /\ Applied(R, st, c, s, u)
  BY <1>1, <1>2, <1>5, ApplyOneIs, Zenon DEF R
<1>7. /\ R.modes = umode[s][u] \cup {"o"}
      /\ R.in = [InOf(s, u) EXCEPT !["o"] = InOf(s, u)["o"] + 1]
      /\ R.oper = Up /\ R.done = <<c>>
  <2>1. Keeps(s, u, c.mode) /\ Relinked(InOf(s, u)["o"], c) = InOf(s, u)["o"] + 1
    BY <1>4 DEF Keeps, Relinked, ListMode
  <2>2. Append(<<>>, c) = <<c>>
    OBVIOUS
  <2> QED
    BY <1>2, <1>4, <1>6, <2>1, <2>2 DEF Applied
<1>8. /\ InOf(s, u)["c"] = IF "c" \in umode[s][u] THEN 1 ELSE 0
      /\ InOf(s, u)["i"] = IF "i" \notin umode[s][u] THEN 1 ELSE 0
      /\ "o" \notin umode[s][u] /\ InOf(s, u)["o"] = 0
  BY <1>2 DEF InOrder, Fits, UMode
<1>9. /\ R.modes \in SUBSET UMode /\ R.in \in [UMode -> Nat] /\ R.oper \in Oper
  BY <1>6 DEF AnyRun
<1>10. /\ R.in["c"] = InOf(s, u)["c"] /\ R.in["i"] = InOf(s, u)["i"] /\ R.in["o"] = 1
  BY <1>2, <1>7, <1>8 DEF UMode
<1>11. Fits(s, u, R.modes, R.in, R.oper)
  <2>1. R.modes # Unknown
    BY <1>7 DEF Unknown
  <2>2. OperSane(Up) /\ Up.once
    BY DEF OperSane, Up
  <2> QED
    BY <1>7, <1>8, <1>10, <2>1, <2>2 DEF Fits
<1>12. R.done \in Seq(SentChange)
  BY <1>1, <1>7
<1> QED
  BY <1>3, <1>9, <1>11, <1>12 DEF Result, c

-----------------------------------------------------------------------------
(* All users everywhere.                                                   *)

Users == [s \in Server |-> {u \in Client : umode[s][u] # Unknown}]

UserMessage ==
  [cmd : {"NUSER"}, of : Client, modes : SUBSET UMode]
  \cup [cmd : {"UMODE"}, of : Client, changes : Seq(SentChange)]
  \cup {QuitMsg(u) : u \in Client}
  \cup {NQuit(l) : l \in Link}

AllInOrder == \A s \in Server, u \in Client : InOrder(s, u)

UserInv ==
  UserTypeOK /\ LinksOK(UserMessage) /\ Introduced(end, net, Users, HomeOf) /\ AllInOrder

\* A may become B at s.
Change(s, B) ==
  /\ UserTypeOK' /\ AllInOrder'
  /\ Users \in [Server -> SUBSET Client] /\ Users' \in [Server -> SUBSET Client]
  /\ Users'[s] = B /\ \A x \in Server : x # s => Users'[x] = Users[x]

(* Who is known, in other words.                                           *)
LEMMA UsersAre ==
  /\ Users \in [Server -> SUBSET Client] /\ Users' \in [Server -> SUBSET Client]
  /\ \A s \in Server : Users[s] = {u \in Client : umode[s][u] # Unknown}
  /\ \A s \in Server : Users'[s] = {u \in Client : umode'[s][u] # Unknown}
<1>1. \A s \in Server : {u \in Client : umode[s][u] # Unknown} \in SUBSET Client
  OBVIOUS
<1>2. \A s \in Server : {u \in Client : umode'[s][u] # Unknown} \in SUBSET Client
  OBVIOUS
<1> QED
  BY <1>1, <1>2 DEF Users

(* usermode_apply, user_new: what s has of u is replaced.                  *)
LEMMA PutKeeps ==
  ASSUME UserTypeOK, AllInOrder, NEW s \in Server, NEW u \in Client, NEW R,
         R.modes \in SUBSET UMode, R.in \in [UMode -> Nat], R.oper \in Oper,
         Fits(s, u, R.modes, R.in, R.oper), Put(s, u, R)
  PROVE  Change(s, Users[s] \cup {u})
<1>1. /\ umode \in [Server -> [Client -> (SUBSET UMode) \cup {Unknown}]]
      /\ listed \in [Server -> [UMode -> [Client -> Nat]]]
      /\ oper \in [Client -> Oper]
  BY DEF UserTypeOK
<1>2. /\ umode' = [umode EXCEPT ![s][u] = R.modes]
      /\ listed' = [listed EXCEPT ![s] = [m \in UMode |-> [listed[s][m] EXCEPT ![u] = R.in[m]]]]
      /\ oper' = IF Local(s, u) THEN [oper EXCEPT ![u] = R.oper] ELSE oper
  BY DEF Put
<1>3. /\ umode' \in [Server -> [Client -> (SUBSET UMode) \cup {Unknown}]]
      /\ \A x \in Server, v \in Client :
           umode'[x][v] = IF x = s /\ v = u THEN R.modes ELSE umode[x][v]
  BY <1>1, <1>2
<1>4. /\ listed' \in [Server -> [UMode -> [Client -> Nat]]]
      /\ \A x \in Server, m \in UMode, v \in Client :
           listed'[x][m][v] = IF x = s /\ v = u THEN R.in[m] ELSE listed[x][m][v]
  <2> DEFINE g == [m \in UMode |-> [listed[s][m] EXCEPT ![u] = R.in[m]]]
  <2>1. /\ g \in [UMode -> [Client -> Nat]]
        /\ \A m \in UMode, v \in Client : g[m][v] = IF v = u THEN R.in[m] ELSE listed[s][m][v]
    BY <1>1
  <2>2. listed' = [listed EXCEPT ![s] = g]
    BY <1>2
  <2> HIDE DEF g
  <2> QED
    BY <1>1, <2>1, <2>2
<1>5. /\ oper' \in [Client -> Oper]
      /\ \A v \in Client : oper'[v] = IF Local(s, u) /\ v = u THEN R.oper ELSE oper[v]
  BY <1>1, <1>2
<1>6. UserTypeOK'
  BY <1>3, <1>4, <1>5 DEF UserTypeOK
<1>7. ASSUME NEW x \in Server, NEW v \in Client
      PROVE  Fits(x, v, umode'[x][v], [m \in UMode |-> listed'[x][m][v]], oper'[v])
  <2>1. CASE x = s /\ v = u
    <3>1. [m \in UMode |-> listed'[x][m][v]] = R.in
      BY <1>4, <2>1
    <3>2. umode'[x][v] = R.modes /\ (Local(s, u) => oper'[v] = R.oper)
      BY <1>3, <1>5, <2>1
    <3> QED
      BY <2>1, <3>1, <3>2 DEF Fits
  <2>2. CASE ~(x = s /\ v = u)
    <3>1. [m \in UMode |-> listed'[x][m][v]] = InOf(x, v)
      BY <1>4, <2>2 DEF InOf
    <3>2. umode'[x][v] = umode[x][v]
      BY <1>3, <2>2
    <3>3. Local(x, v) => oper'[v] = oper[v]
      BY <1>5, <2>2 DEF Local
    <3>4. Fits(x, v, umode[x][v], InOf(x, v), oper[v])
      BY DEF AllInOrder, InOrder
    <3> QED
      BY <3>1, <3>2, <3>3, <3>4 DEF Fits
  <2> QED
    BY <2>1, <2>2
<1>8. AllInOrder'
  BY <1>7 DEF AllInOrder, InOrder, InOf
<1>9. Users'[s] = Users[s] \cup {u} /\ \A x \in Server : x # s => Users'[x] = Users[x]
  <2>1. R.modes # Unknown
    BY DEF Unknown, UMode
  <2>2. \A x \in Server, v \in Client : v \in Users[x] <=> umode[x][v] # Unknown
    BY UsersAre
  <2>3. \A x \in Server, v \in Client : v \in Users'[x] <=> umode'[x][v] # Unknown
    BY UsersAre
  <2>4. \A x \in Server : Users[x] \subseteq Client /\ Users'[x] \subseteq Client
    BY UsersAre
  <2>5. \A x \in Server, v \in Client :
          v \in Users'[x] <=> (x = s /\ v = u) \/ v \in Users[x]
    BY <1>3, <2>1, <2>2, <2>3
  <2> QED
    BY <2>4, <2>5
<1> QED
  BY <1>6, <1>8, <1>9, UsersAre DEF Change

(* user_release, client_release                                            *)
LEMMA ForgottenKeeps ==
  ASSUME UserTypeOK, AllInOrder, NEW s \in Server, NEW U, Forgotten(s, U)
  PROVE  Change(s, Users[s] \ U)
<1>1. /\ umode \in [Server -> [Client -> (SUBSET UMode) \cup {Unknown}]]
      /\ listed \in [Server -> [UMode -> [Client -> Nat]]]
      /\ oper \in [Client -> Oper] /\ {"o", "c", "i"} = UMode
  BY DEF UserTypeOK, UMode
<1>2. /\ umode' \in [Server -> [Client -> (SUBSET UMode) \cup {Unknown}]]
      /\ \A x \in Server, v \in Client :
           umode'[x][v] = IF x = s /\ v \in U THEN Unknown ELSE umode[x][v]
  <2> DEFINE g == [v \in Client |-> IF v \in U THEN Unknown ELSE umode[s][v]]
  <2>1. /\ g \in [Client -> (SUBSET UMode) \cup {Unknown}]
        /\ \A v \in Client : g[v] = IF v \in U THEN Unknown ELSE umode[s][v]
    BY <1>1
  <2>2. umode' = [umode EXCEPT ![s] = g]
    BY DEF Forgotten
  <2> HIDE DEF g
  <2> QED
    BY <1>1, <2>1, <2>2
<1>3. /\ listed' \in [Server -> [UMode -> [Client -> Nat]]]
      /\ \A x \in Server, m \in UMode, v \in Client :
           listed'[x][m][v] = IF x = s /\ v \in U /\ listed[x][m][v] > 0
                              THEN listed[x][m][v] - 1 ELSE listed[x][m][v]
  <2> DEFINE h(m, v) == IF v \in U /\ listed[s][m][v] > 0 THEN listed[s][m][v] - 1
                        ELSE listed[s][m][v]
             g == [m \in UMode |-> [v \in Client |-> h(m, v)]]
  <2>1. \A m \in UMode, v \in Client : h(m, v) \in Nat
    BY <1>1
  <2>2. /\ g \in [UMode -> [Client -> Nat]]
        /\ \A m \in UMode, v \in Client : g[m][v] = h(m, v)
    BY <2>1
  <2>3. listed' = [listed EXCEPT ![s] = g]
    BY DEF Forgotten
  <2> HIDE DEF g
  <2> QED
    BY <1>1, <2>2, <2>3
<1>4. /\ oper' \in [Client -> Oper]
      /\ \A v \in Client : oper'[v] = IF v \in U /\ Local(s, v) THEN NoOper ELSE oper[v]
  BY <1>1 DEF Forgotten, NoOper, Oper
<1>5. UserTypeOK'
  BY <1>2, <1>3, <1>4 DEF UserTypeOK
<1>6. ASSUME NEW x \in Server, NEW v \in Client
      PROVE  Fits(x, v, umode'[x][v], [m \in UMode |-> listed'[x][m][v]], oper'[v])
  <2>1. Fits(x, v, umode[x][v], InOf(x, v), oper[v])
    BY DEF AllInOrder, InOrder
  <2>2. CASE x = s /\ v \in U
    <3>1. /\ umode'[x][v] = Unknown /\ "c" \notin Unknown /\ "o" \notin Unknown
          /\ Local(x, v) => oper'[v] = NoOper
      BY <1>2, <1>4, <2>2 DEF Unknown
    <3>2. OperSane(NoOper) /\ ~NoOper.block
      BY DEF OperSane, NoOper
    <3>3. \A m \in UMode : InOf(x, v)[m] = listed[x][m][v] /\ listed[x][m][v] \in Nat
      BY <1>1 DEF InOf
    <3>4. \A m \in UMode : listed[x][m][v] <= 1
      <4>1. InOf(x, v)["c"] <= 1 /\ InOf(x, v)["i"] <= 1 /\ InOf(x, v)["o"] <= 1
        <5>1. /\ InOf(x, v)["c"] \in {0, 1} /\ InOf(x, v)["i"] \in {0, 1}
              /\ InOf(x, v)["o"] <= 0 \/ InOf(x, v)["o"] <= 1
          BY <2>1 DEF Fits
        <5>2. InOf(x, v)["o"] \in Nat
          BY <1>1, <3>3
        <5> QED
          BY <5>1, <5>2
      <4>2. \A m \in UMode : InOf(x, v)[m] <= 1
        BY <1>1, <4>1
      <4> QED
        BY <3>3, <4>2
    <3>5. \A m \in UMode : listed'[x][m][v] = 0
      BY <1>3, <2>2, <3>3, <3>4
    <3> QED
      BY <1>1, <3>1, <3>2, <3>5 DEF Fits
  <2>3. CASE ~(x = s /\ v \in U)
    <3>1. [m \in UMode |-> listed'[x][m][v]] = InOf(x, v)
      BY <1>3, <2>3 DEF InOf
    <3>2. umode'[x][v] = umode[x][v]
      BY <1>2, <2>3
    <3>3. Local(x, v) => oper'[v] = oper[v]
      BY <1>4, <2>3 DEF Local
    <3> QED
      BY <2>1, <3>1, <3>2, <3>3 DEF Fits
  <2> QED
    BY <2>2, <2>3
<1>7. AllInOrder'
  BY <1>6 DEF AllInOrder, InOrder, InOf
<1>8. Users'[s] = Users[s] \ U /\ \A x \in Server : x # s => Users'[x] = Users[x]
  <2>1. \A x \in Server, v \in Client : v \in Users[x] <=> umode[x][v] # Unknown
    BY UsersAre
  <2>2. \A x \in Server, v \in Client : v \in Users'[x] <=> umode'[x][v] # Unknown
    BY UsersAre
  <2>3. \A x \in Server : Users[x] \subseteq Client /\ Users'[x] \subseteq Client
    BY UsersAre
  <2>4. \A x \in Server, v \in Client :
          v \in Users'[x] <=> v \in Users[x] /\ ~(x = s /\ v \in U)
    BY <1>2, <2>1, <2>2
  <2> QED
    BY <2>3, <2>4
<1> QED
  BY <1>5, <1>7, <1>8, UsersAre DEF Change

(* What the fields of a message are.                                       *)
LEMMA UserMessageIs ==
  ASSUME NEW m \in UserMessage
  PROVE  /\ m.cmd \in {"NUSER", "UMODE", "QUIT", "NQUIT"}
         /\ m.cmd # "NQUIT" => m.of \in Client
         /\ m.cmd = "NUSER" => m.modes \in SUBSET UMode
         /\ m.cmd = "UMODE" => m.changes \in Seq(SentChange)
         /\ m.cmd = "NQUIT" => m.link \in Link
  BY DEF UserMessage, QuitMsg, NQuit

(* The messages of the protocol are messages.                              *)
LEMMA UserForms ==
  /\ \A u \in Client, M \in SUBSET UMode :
       /\ NUserMsg(u, M) \in UserMessage
       /\ NUserMsg(u, M).cmd = "NUSER" /\ NUserMsg(u, M).of = u
  /\ \A u \in Client, C \in Seq(SentChange) :
       /\ UModeMsg(u, C) \in UserMessage
       /\ UModeMsg(u, C).cmd = "UMODE" /\ UModeMsg(u, C).of = u
  /\ \A u \in Client :
       QuitMsg(u) \in UserMessage /\ QuitMsg(u).cmd = "QUIT" /\ QuitMsg(u).of = u
  /\ \A l \in Link : NQuit(l) \in UserMessage
  BY DEF UserMessage, NUserMsg, UModeMsg, QuitMsg

(* A server says what a user of its own does.                              *)
LEMMA UserSays ==
  ASSUME UserInv, NEW s \in Server, NEW out \in Seq(UserMessage), SendAll(s, s, out),
         end' = end, sessions' = sessions,
         NEW B, Change(s, B), Acts(s, s, Users[s], B, out, HomeOf)
  PROVE  UserInv'
<1>1. LinksOK(UserMessage)' /\ Introduced(end', net', Users', HomeOf)
  <2> DEFINE K2 == Users'
  <2>1. /\ K2 \in [Server -> SUBSET Client] /\ Users \in [Server -> SUBSET Client]
        /\ \A x \in Server : x # s => K2[x] = Users[x]
        /\ Acts(s, s, Users[s], K2[s], out, HomeOf)
    BY DEF Change
  <2>2. /\ LinksOK(UserMessage) /\ Introduced(end, net, Users, HomeOf)
        /\ HomeOf \in [Client -> Server]
    BY UserModeAssumption DEF UserInv, UserModeAssumption
  <2> HIDE DEF K2
  <2>3. LinksOK(UserMessage)' /\ Introduced(end', net', K2, HomeOf)
    BY <2>1, <2>2, Said
  <2> QED
    BY <2>3 DEF K2
<1> QED
  BY <1>1 DEF UserInv, Change

(* A server reads a message.                                               *)
LEMMA UserHears ==
  ASSUME UserInv, NEW l \in Link, CanRead(l[1], l[2]), NEW out \in Seq(UserMessage),
         ReadAndSend(l[1], l[2], out, <<>>), end' = end, sessions' = sessions,
         NEW B, Change(l[1], B),
         Obeys(Head(net[<<l[2], l[1]>>]), Users[l[1]], B, out, HomeOf)
  PROVE  UserInv'
<1>1. LinksOK(UserMessage)' /\ Introduced(end', net', Users', HomeOf)
  <2> DEFINE K2 == Users'
             back == <<>>
  <2>1. /\ K2 \in [Server -> SUBSET Client] /\ Users \in [Server -> SUBSET Client]
        /\ \A x \in Server : x # l[1] => K2[x] = Users[x]
        /\ Obeys(Head(net[<<l[2], l[1]>>]), Users[l[1]], K2[l[1]], out, HomeOf)
    BY DEF Change
  <2>2. /\ LinksOK(UserMessage) /\ Introduced(end, net, Users, HomeOf)
        /\ HomeOf \in [Client -> Server]
    BY UserModeAssumption DEF UserInv, UserModeAssumption
  <2>3. NoneOrBounce(UserMessage, back) /\ ReadAndSend(l[1], l[2], out, back)
    BY DEF NoneOrBounce
  <2> HIDE DEF K2, back
  <2>4. LinksOK(UserMessage)' /\ Introduced(end', net', K2, HomeOf)
    BY <2>1, <2>2, <2>3, Heard
  <2> QED
    BY <2>4 DEF K2
<1> QED
  BY <1>1 DEF UserInv, Change

(* lclient_register                                                        *)
LEMMA LogInKeeps ==
  ASSUME UserInv, NEW u \in Client, LogIn(u)
  PROVE  UserInv'
<1> DEFINE s == HomeOf[u]
           in == [m \in UMode |-> listed[s][m][u] + IF ListMode(m) = "-" THEN 1 ELSE 0]
           R == [modes |-> {}, oper |-> NoOper, in |-> in]
           out == <<NUserMsg(u, {})>>
<1>1. /\ s \in Server /\ HomeOf \in [Client -> Server] /\ Local(s, u)
      /\ UserTypeOK /\ AllInOrder
  BY UserModeAssumption DEF UserModeAssumption, UserInv, Local
<1>2. /\ umode[s][u] = Unknown /\ Put(s, u, R) /\ SendAll(s, s, out)
      /\ end' = end /\ sessions' = sessions
  BY DEF LogIn
<1>3. R.modes = {} /\ R.oper = NoOper /\ R.in = in
  OBVIOUS
<1>4. in \in [UMode -> Nat] /\ NoOper \in Oper
  BY <1>1 DEF UserTypeOK, NoOper, Oper
<1>5. in["c"] = 0 /\ in["i"] = 1 /\ in["o"] <= 0
  <2>1. InOf(s, u)["c"] = 0 /\ InOf(s, u)["i"] = 0 /\ InOf(s, u)["o"] <= 0
    BY <1>1, <1>2 DEF AllInOrder, InOrder, Fits, Unknown
  <2>2. listed[s]["c"][u] = 0 /\ listed[s]["i"][u] = 0 /\ listed[s]["o"][u] <= 0
    BY <2>1 DEF InOf, UMode
  <2>3. "c" \in UMode /\ "i" \in UMode /\ "o" \in UMode
    BY DEF UMode
  <2>4. listed[s]["o"][u] \in Nat
    BY <1>1, <2>3 DEF UserTypeOK
  <2> QED
    BY <2>2, <2>3, <2>4 DEF ListMode
<1> HIDE DEF s, in, R, out
<1>6. Fits(s, u, R.modes, R.in, R.oper)
  <2>1. {} # Unknown /\ OperSane(NoOper) /\ ~NoOper.block
    BY DEF Unknown, OperSane, NoOper
  <2> QED
    BY <1>1, <1>3, <1>5, <2>1 DEF Fits
<1>7. Change(s, Users[s] \cup {u})
  <2>1. R.modes \in SUBSET UMode /\ R.in \in [UMode -> Nat] /\ R.oper \in Oper
    BY <1>3, <1>4
  <2> QED
    BY <1>1, <1>2, <1>6, <2>1, PutKeeps
<1>8. /\ out \in Seq(UserMessage) /\ out = <<out[1]>> /\ out # <<>>
      /\ out[1].cmd = "NUSER" /\ out[1].of = u
  BY UserForms DEF out
<1>9. Acts(s, s, Users[s], Users[s] \cup {u}, out, HomeOf)
  <2>1. u \notin Users[s] /\ DOMAIN HomeOf = Client /\ Side(s, s, HomeOf[u])
    BY <1>1, <1>2, UsersAre DEF Side, s
  <2> QED
    BY <1>8, <2>1 DEF Acts, Begins
<1> QED
  BY <1>1, <1>2, <1>7, <1>8, <1>9, UserSays

(* What Told sends says nothing of who is there.                           *)
LEMMA ToldActs ==
  ASSUME NEW u \in Client, NEW C \in Seq(SentChange)
  PROVE  /\ Told(u, C) \in Seq(UserMessage)
         /\ \A A : Acts(HomeOf[u], HomeOf[u], A, A, Told(u, C), HomeOf)
         /\ Told(u, C) = <<>> \/ Told(u, C) = <<UModeMsg(u, C)>>
<1>1. DOMAIN HomeOf = Client
  BY UserModeAssumption DEF UserModeAssumption
<1>2. CASE C = <<>>
  <2>1. Told(u, C) = <<>>
    BY <1>2 DEF Told
  <2> QED
    BY <2>1 DEF Acts
<1>3. CASE C # <<>>
  <2>1. Told(u, C) = <<UModeMsg(u, C)>>
    BY <1>3 DEF Told
  <2>2. UModeMsg(u, C) \in UserMessage /\ UModeMsg(u, C).cmd = "UMODE" /\ UModeMsg(u, C).of = u
    BY UserForms
  <2> DEFINE out == <<UModeMsg(u, C)>>
  <2>3. out \in Seq(UserMessage) /\ out = <<out[1]>> /\ out[1].cmd = "UMODE" /\ out[1].of = u
    BY <2>2
  <2> HIDE DEF out
  <2>4. \A A : Acts(HomeOf[u], HomeOf[u], A, A, out, HomeOf)
    BY <1>1, <2>3 DEF Acts, Side, Begins
  <2> QED
    BY <2>1, <2>3, <2>4 DEF out
<1> QED
  BY <1>2, <1>3

(* A local user's modes are changed and the others told.                   *)
LEMMA ResultKeeps ==
  ASSUME UserInv, NEW u \in Client, umode[HomeOf[u]][u] # Unknown, NEW R,
         Result(HomeOf[u], u, R), Put(HomeOf[u], u, R),
         SendAll(HomeOf[u], HomeOf[u], Told(u, R.done)), end' = end, sessions' = sessions
  PROVE  UserInv'
<1> DEFINE s == HomeOf[u]
           out == Told(u, R.done)
<1>1. s \in Server /\ UserTypeOK /\ AllInOrder
  BY UserModeAssumption DEF UserModeAssumption, UserInv
<1>2. Change(s, Users[s] \cup {u})
  BY <1>1, PutKeeps DEF Result
<1>3. Users[s] \cup {u} = Users[s]
  BY <1>1, UsersAre
<1>4. out \in Seq(UserMessage) /\ Acts(s, s, Users[s], Users[s], out, HomeOf)
  BY ToldActs DEF Result
<1> HIDE DEF s, out
<1>5. SendAll(s, s, out)
  BY DEF s, out
<1> QED
  BY <1>1, <1>2, <1>3, <1>4, <1>5, UserSays

(* m_umode                                                                 *)
LEMMA UModeLineKeeps ==
  ASSUME UserInv, NEW u \in Client, NEW L \in UModeLines, UModeLine(u, L)
  PROVE  UserInv'
<1> DEFINE s == HomeOf[u]
           R == Make(s, u, L, TRUE)
<1>1. s \in Server /\ Local(s, u) /\ UserTypeOK /\ InOrder(s, u)
  BY UserModeAssumption DEF UserModeAssumption, UserInv, AllInOrder, Local
<1>2. /\ umode[s][u] # Unknown /\ Put(s, u, R) /\ SendAll(s, s, Told(u, R.done))
      /\ end' = end /\ sessions' = sessions
  BY DEF UModeLine
<1>3. L \in Seq(UChange)
  BY UserModeAssumption DEF UserModeAssumption, UModeLines
<1>4. Checked(s, u, L, TRUE)
  BY <1>1 DEF Checked
<1>5. Result(s, u, R)
  BY <1>1, <1>2, <1>3, <1>4, MakeFits
<1> HIDE DEF R
<1> QED
  BY <1>2, <1>5, ResultKeeps

(* m_oper                                                                  *)
LEMMA OpersKeeps ==
  ASSUME UserInv, NEW u \in Client, Opers(u)
  PROVE  UserInv'
<1> DEFINE s == HomeOf[u]
           R == Apply(s, u, Up, <<[what |-> "+", mode |-> "o", arg |-> FALSE]>>, FALSE)
<1>1. s \in Server /\ Local(s, u) /\ UserTypeOK /\ InOrder(s, u)
  BY UserModeAssumption DEF UserModeAssumption, UserInv, AllInOrder, Local
<1>2. /\ umode[s][u] # Unknown /\ Put(s, u, R) /\ SendAll(s, s, Told(u, R.done))
      /\ end' = end /\ sessions' = sessions /\ ~oper[u].once
  BY DEF Opers
<1>3. Result(s, u, R)
  BY <1>1, <1>2, OperFits
<1> HIDE DEF R
<1> QED
  BY <1>2, <1>3, ResultKeeps

(* m_quit                                                                  *)
LEMMA QuitsKeeps ==
  ASSUME UserInv, NEW u \in Client, Quits(u)
  PROVE  UserInv'
<1> DEFINE s == HomeOf[u]
           out == <<QuitMsg(u)>>
<1>1. s \in Server /\ DOMAIN HomeOf = Client /\ UserTypeOK /\ AllInOrder
  BY UserModeAssumption DEF UserModeAssumption, UserInv
<1>2. /\ umode[s][u] # Unknown /\ Forgotten(s, {u}) /\ SendAll(s, s, out)
      /\ end' = end /\ sessions' = sessions
  BY DEF Quits
<1>3. Change(s, Users[s] \ {u})
  BY <1>1, <1>2, ForgottenKeeps
<1>4. /\ out \in Seq(UserMessage) /\ out = <<out[1]>> /\ out # <<>>
      /\ out[1].cmd = "QUIT" /\ out[1].of = u
  BY UserForms
<1>5. Side(s, s, HomeOf[u])
  BY DEF Side
<1> HIDE DEF s, out
<1>6. Acts(s, s, Users[s], Users[s] \ {u}, out, HomeOf)
  BY <1>1, <1>4, <1>5 DEF Acts, Begins, Ends
<1> QED
  BY <1>1, <1>2, <1>3, <1>4, <1>6, UserSays

(* What comes over a link is of users of the other side, and introduces    *)
(* who was not known.                                                      *)
LEMMA HeadSays ==
  ASSUME UserInv, NEW l \in Link, CanRead(l[1], l[2])
  PROVE  /\ Head(net[<<l[2], l[1]>>]) \in UserMessage
         /\ Head(net[<<l[2], l[1]>>]).cmd = "NUSER"
              => Head(net[<<l[2], l[1]>>]).of \notin Users[l[1]]
         /\ Head(net[<<l[2], l[1]>>]).cmd # "NQUIT"
              => ~Local(l[1], Head(net[<<l[2], l[1]>>]).of)
<1> DEFINE s == l[1]
           k == <<l[2], l[1]>>
           m == Head(net[k])
<1>1. /\ net \in [Link -> Seq(UserMessage)] /\ Introduced(end, net, Users, HomeOf)
      /\ HomeOf \in [Client -> Server] /\ net[k] # <<>>
  BY UserModeAssumption DEF UserInv, LinksOK, UserModeAssumption, CanRead
<1>2. /\ k \in Link /\ k[2] = s /\ k = Rev(l) /\ Rev(k) = l /\ l[1] \notin Behind[l]
  BY LinkFacts DEF Rev
<1> HIDE DEF s, k
<1>3. m \in UserMessage /\ m = net[k][1] /\ 1 \in 1 .. Len(net[k])
  BY <1>1, <1>2
<1> HIDE DEF m
<1>4. Outward(m, k, HomeOf)
  BY <1>1, <1>2, <1>3 DEF Introduced, LinkTells
<1>5. ASSUME m.cmd # "NQUIT"
      PROVE  ~Local(s, m.of)
  <2>1. HomeOf[m.of] \in Behind[l]
    BY <1>2, <1>3, <1>4, <1>5, UserMessageIs DEF Outward
  <2> QED
    BY <1>2, <2>1 DEF Local, s
<1>6. ASSUME m.cmd = "NUSER"
      PROVE  m.of \notin Users[s]
  <2>1. m.of \in DOMAIN HomeOf
    BY <1>1, <1>3, <1>6, UserMessageIs
  <2> QED
    BY <1>1, <1>2, <1>6, <2>1, HeadIsNew DEF m
<1> QED
  BY <1>3, <1>5, <1>6 DEF m, k, s

(* Told relays a change.                                                   *)
LEMMA ToldObeys ==
  ASSUME NEW m \in UserMessage, m.cmd = "UMODE", NEW C \in Seq(SentChange), NEW A
  PROVE  Told(m.of, C) \in Seq(UserMessage) /\ Obeys(m, A, A, Told(m.of, C), HomeOf)
<1>1. m.of \in Client /\ DOMAIN HomeOf = Client
  BY UserMessageIs, UserModeAssumption DEF UserModeAssumption
<1>2. CASE C = <<>>
  <2>1. Told(m.of, C) = <<>>
    BY <1>2 DEF Told
  <2> QED
    BY <1>1, <2>1 DEF Obeys, Begins, Ends
<1>3. CASE C # <<>>
  <2>1. /\ UModeMsg(m.of, C) \in UserMessage /\ UModeMsg(m.of, C).cmd = "UMODE"
        /\ UModeMsg(m.of, C).of = m.of
    BY <1>1, UserForms
  <2> DEFINE out == Told(m.of, C)
  <2>2. out \in Seq(UserMessage) /\ out = <<out[1]>> /\ out[1].cmd = "UMODE" /\ out[1].of = m.of
    BY <1>3, <2>1 DEF Told
  <2> HIDE DEF out
  <2>3. Obeys(m, A, A, out, HomeOf)
    BY <1>1, <2>2 DEF Obeys, Begins, Ends
  <2> QED
    BY <2>2, <2>3 DEF out
<1> QED
  BY <1>2, <1>3

(* ms_nuser                                                                *)
LEMMA NUserChange ==
  ASSUME UserTypeOK, AllInOrder, NEW s \in Server, NEW u \in Client, NEW M \in SUBSET UMode,
         ~Local(s, u), u \notin Users[s],
         umode' = [umode EXCEPT ![s][u] = M], listed' = listed, oper' = oper
  PROVE  Change(s, Users[s] \cup {u})
<1> DEFINE R == [modes |-> M, in |-> InOf(s, u), oper |-> oper[u]]
<1>1. R.modes = M /\ R.in = InOf(s, u) /\ R.oper = oper[u]
  OBVIOUS
<1>2. umode[s][u] = Unknown
  BY UsersAre
<1>3. /\ InOf(s, u) \in [UMode -> Nat] /\ oper[u] \in Oper
      /\ \A m \in UMode : InOf(s, u)[m] = listed[s][m][u]
  BY DEF UserTypeOK, InOf
<1>4. Fits(s, u, M, InOf(s, u), oper[u])
  <2>1. Fits(s, u, Unknown, InOf(s, u), oper[u]) /\ "o" \notin Unknown
    BY <1>2 DEF AllInOrder, InOrder, Unknown
  <2>2. InOf(s, u)["o"] \in Nat
    BY <1>3 DEF UMode
  <2> QED
    BY <2>1, <2>2 DEF Fits
<1>5. Put(s, u, R)
  <2>1. /\ \A m \in UMode : [listed[s][m] EXCEPT ![u] = InOf(s, u)[m]] = listed[s][m]
        /\ listed[s] = [m \in UMode |-> listed[s][m]]
    BY <1>3 DEF UserTypeOK
  <2>2. [m \in UMode |-> [listed[s][m] EXCEPT ![u] = InOf(s, u)[m]]] = listed[s]
    BY <2>1, Zenon
  <2>3. listed' = [listed EXCEPT ![s] = listed[s]]
    BY SMTT(40) DEF UserTypeOK
  <2> HIDE DEF R
  <2> QED
    BY <1>1, <2>2, <2>3 DEF Put
<1> HIDE DEF R
<1> QED
  BY <1>1, <1>3, <1>4, <1>5, PutKeeps

(* ms_nuser, ms_umode, ms_quit, ms_nquit                                   *)
LEMMA HearsKeeps ==
  ASSUME UserInv, NEW l \in Link, Hears(l[1], l[2])
  PROVE  UserInv'
<1> DEFINE s == l[1]
           t == l[2]
           m == Head(net[<<t, s>>])
           A == Users[s]
<1>1. /\ s \in Server /\ DOMAIN HomeOf = Client /\ UserTypeOK /\ AllInOrder
      /\ A = {u \in Client : umode[s][u] # Unknown}
  BY LinkFacts, UsersAre, UserModeAssumption DEF UserModeAssumption, UserInv
<1>2. CanRead(l[1], l[2]) /\ end' = end /\ sessions' = sessions
  BY DEF Hears
<1>3. /\ m \in UserMessage /\ (m.cmd = "NUSER" => m.of \notin A)
      /\ m.cmd # "NQUIT" => ~Local(s, m.of)
  BY <1>2, HeadSays
<1>4. /\ m.cmd # "NQUIT" => m.of \in Client
      /\ m.cmd = "NUSER" => m.modes \in SUBSET UMode
      /\ m.cmd = "UMODE" => m.changes \in Seq(SentChange)
      /\ m.cmd = "NQUIT" => m.link \in Link
  BY <1>3, UserMessageIs
<1>5. ASSUME NEW out \in Seq(UserMessage), ReadAndSend(s, t, out, <<>>), NEW B, Change(s, B),
             Obeys(m, A, B, out, HomeOf)
      PROVE  UserInv'
  BY <1>2, <1>5, UserHears
<1>6. ASSUME m.cmd = "NUSER", umode' = [umode EXCEPT ![s][m.of] = ModesIn(s, m)],
             ReadAndSend(s, t, <<NUserMsg(m.of, ModesIn(s, m))>>, <<>>),
             UNCHANGED <<listed, oper>>
      PROVE  UserInv'
  <2> DEFINE out == <<NUserMsg(m.of, m.modes)>>
  <2>1. ModesIn(s, m) = m.modes
    BY DEF ModesIn
  <2>2. umode' = [umode EXCEPT ![s][m.of] = m.modes] /\ ReadAndSend(s, t, out, <<>>)
    BY <1>6, <2>1
  <2>3. /\ out \in Seq(UserMessage) /\ out = <<out[1]>> /\ out[1].cmd = "NUSER"
        /\ out[1].of = m.of
    BY <1>4, <1>6, UserForms
  <2> HIDE DEF s, t, m, out
  <2>4. Change(s, Users[s] \cup {m.of})
    BY <1>1, <1>3, <1>4, <1>6, <2>2, NUserChange
  <2> HIDE DEF A
  <2>5. Obeys(m, A, A \cup {m.of}, out, HomeOf)
    BY <1>1, <1>3, <1>4, <1>6, <2>3 DEF Obeys, Begins, Ends
  <2>6. A \cup {m.of} = Users[s] \cup {m.of}
    BY DEF A
  <2> QED
    BY <1>5, <2>2, <2>3, <2>4, <2>5, <2>6
<1>7. ASSUME m.cmd = "UMODE", umode[s][m.of] # Unknown,
             Put(s, m.of, Make(s, m.of, m.changes, FALSE)),
             ReadAndSend(s, t, Told(m.of, Make(s, m.of, m.changes, FALSE).done), <<>>)
      PROVE  UserInv'
  <2> DEFINE R == Make(s, m.of, m.changes, FALSE)
             out == Told(m.of, R.done)
  <2> HIDE DEF s, t, m
  <2>1. m.of \in Client /\ m.changes \in Seq(SentChange) /\ ~Local(s, m.of) /\ m.of \in A
    BY <1>1, <1>3, <1>4, <1>7
  <2>2. m.changes \in Seq(UChange) /\ Checked(s, m.of, m.changes, FALSE)
    <3>1. SentChange \subseteq UChange
      BY DEF SentChange
    <3> QED
      BY <2>1, <3>1 DEF Checked
  <2>3. InOrder(s, m.of)
    BY <1>1, <2>1 DEF AllInOrder
  <2>4. Result(s, m.of, R)
    BY <1>1, <1>7, <2>1, <2>2, <2>3, MakeFits
  <2>5. Put(s, m.of, R) /\ ReadAndSend(s, t, out, <<>>)
    BY <1>7
  <2> HIDE DEF R
  <2>6. Change(s, Users[s] \cup {m.of})
    BY <1>1, <2>1, <2>4, <2>5, PutKeeps DEF Result
  <2>7. Users[s] \cup {m.of} = A
    BY <2>1
  <2>8. out \in Seq(UserMessage) /\ Obeys(m, A, A, out, HomeOf)
    BY <1>3, <1>7, <2>4, ToldObeys DEF Result
  <2> HIDE DEF out, A
  <2> QED
    BY <1>5, <2>5, <2>6, <2>7, <2>8
<1>8. ASSUME m.cmd = "QUIT", Forgotten(s, {m.of}), ReadAndSend(s, t, <<m>>, <<>>)
      PROVE  UserInv'
  <2> DEFINE out == <<m>>
  <2>1. /\ out \in Seq(UserMessage) /\ out = <<out[1]>> /\ out[1].cmd = "QUIT"
        /\ out[1].of = m.of /\ out # <<>>
    BY <1>3, <1>8
  <2>2. ReadAndSend(s, t, out, <<>>)
    BY <1>8
  <2> HIDE DEF s, t, m, out
  <2>3. Change(s, A \ {m.of})
    BY <1>1, <1>8, ForgottenKeeps
  <2> HIDE DEF A
  <2>4. Obeys(m, A, A \ {m.of}, out, HomeOf)
    BY <1>1, <1>4, <1>8, <2>1 DEF Obeys, Begins, Ends
  <2> QED
    BY <1>5, <2>1, <2>2, <2>3, <2>4
<1>9. ASSUME m.cmd \in {"UMODE", "QUIT"}, umode[s][m.of] = Unknown,
             ReadAndSend(s, t, <<>>, <<>>), UNCHANGED <<umode, listed, oper>>
      PROVE  UserInv'
  <2>1. Change(s, A)
    <3>1. Users' = Users
      BY <1>9 DEF Users
    <3> QED
      BY <1>1, <1>9, <3>1, UsersAre DEF Change, UserTypeOK, AllInOrder, InOrder, InOf
  <2> HIDE DEF s, t, m
  <2>2. m.of \notin A /\ m.of \in Client
    BY <1>1, <1>4, <1>9
  <2> DEFINE out == <<>>
  <2>3. out \in Seq(UserMessage) /\ ReadAndSend(s, t, out, <<>>) /\ out = <<>>
    BY <1>9
  <2> HIDE DEF A, out
  <2>4. Obeys(m, A, A, out, HomeOf)
    BY <1>1, <1>9, <2>2, <2>3 DEF Obeys, Ends
  <2> QED
    BY <1>5, <2>1, <2>3, <2>4
<1>10. ASSUME m.cmd = "NQUIT", Forgotten(s, KnownOf(s, Behind[m.link])),
              ReadAndSend(s, t, <<m>>, <<>>)
       PROVE  UserInv'
  <2> DEFINE out == <<m>>
             G == KnownOf(s, Behind[m.link])
  <2>1. out \in Seq(UserMessage) /\ out = <<out[1]>> /\ out[1] = m /\ out # <<>>
    BY <1>3, <1>10
  <2>2. ReadAndSend(s, t, out, <<>>) /\ Forgotten(s, G)
    BY <1>10
  <2> HIDE DEF s, t, m, out
  <2>3. \A u \in A : u \in G <=> HomeOf[u] \in Behind[m.link]
    BY <1>1 DEF KnownOf
  <2> HIDE DEF G
  <2>4. Change(s, A \ G)
    BY <1>1, <2>2, ForgottenKeeps
  <2> HIDE DEF A
  <2>5. Obeys(m, A, A \ G, out, HomeOf)
    BY <1>1, <1>10, <2>1, <2>3 DEF Obeys, Begins, Ends
  <2> QED
    BY <1>5, <2>1, <2>2, <2>4, <2>5
<1> HIDE DEF s, t, m
<1>11. Hears(s, t)
  BY DEF s, t
<1> QED
  BY <1>6, <1>7, <1>8, <1>9, <1>10, <1>11 DEF Hears, m

(* lclient_connect                                                         *)
LEMMA ConnectsKeeps ==
  ASSUME UserInv, NEW l \in Link, Connects(l[1], l[2])
  PROVE  UserInv'
<1>1. /\ LinksOK(UserMessage) /\ Introduced(end, net, Users, HomeOf)
      /\ OpenLink(l[1], l[2]) /\ umode' = umode /\ listed' = listed /\ oper' = oper
  BY DEF UserInv, Connects
<1>2. LinksOK(UserMessage)' /\ Introduced(end', net', Users, HomeOf)
  BY <1>1, OpenLinkIs, Zenon
<1>3. Users' = Users
  BY <1>1 DEF Users
<1> QED
  BY <1>1, <1>2, <1>3 DEF UserInv, UserTypeOK, AllInOrder, InOrder, InOf

(* client_burst: everybody the server knows, once.                         *)
LEMMA UserBurstIs ==
  ASSUME UserTypeOK, NEW s \in Server
  PROVE  UserBurst(s) \in Seq(UserMessage) /\ IsBurst(UserBurst(s), Users[s])
<1> DEFINE A == Users[s]
           S == {NUserMsg(u, umode[s][u]) : u \in A}
           b == UserBurst(s)
           n == Cardinality(S)
<1>1. A \subseteq Client /\ \A u \in A : umode[s][u] \in SUBSET UMode
  BY UsersAre DEF UserTypeOK
<1>2. b = SetToSeq(S)
  BY UsersAre DEF UserBurst
<1>3. \A x \in S : x \in UserMessage /\ x.cmd = "NUSER" /\ x.of \in A
  BY <1>1, UserForms
<1>4. \A x, y \in S : x.of = y.of => x = y
  BY <1>1, UserForms
<1>5. IsFiniteSet(S)
  <2>1. IsFiniteSet(A)
    BY <1>1, FS_Subset, UserModeAssumption DEF UserModeAssumption
  <2> DEFINE g == [u \in A |-> NUserMsg(u, umode[s][u])]
  <2>2. g \in Surjection(A, S)
    BY DEF Surjection
  <2> HIDE DEF g, S, A
  <2> QED
    BY <2>1, <2>2, FS_Surjection, Zenon
<1> HIDE DEF S, A, b
<1>6. n \in Nat /\ ExistsBijection(1 .. n, S)
  BY <1>5, FS_CardinalityType, Zenon
<1>7. PICK f \in [1 .. n -> S] : IsInjective(f)
  BY <1>6 DEF ExistsBijection, Bijection, Injection
<1>8. b \in [1 .. n -> S] /\ IsInjective(b)
  BY <1>2, <1>7 DEF SetToSeq
<1>9. b \in Seq(S) /\ Len(b) = n /\ \A i \in 1 .. n : b[i] \in S
  BY <1>6, <1>8
<1>10. \A i, j \in 1 .. n : b[i] = b[j] => i = j
  BY <1>8 DEF IsInjective
<1>11. b \in Seq(UserMessage)
  BY <1>3, <1>9
<1>12. IsBurst(b, A)
  BY <1>3, <1>4, <1>9, <1>10 DEF IsBurst
<1> QED
  BY <1>11, <1>12 DEF A, b

(* server_register, server_burst                                           *)
LEMMA BurstsKeeps ==
  ASSUME UserInv, NEW l \in Link, Bursts(l[1], l[2])
  PROVE  UserInv'
<1> DEFINE b == UserBurst(l[1])
<1>1. /\ LinksOK(UserMessage) /\ Introduced(end, net, Users, HomeOf) /\ UserTypeOK
      /\ HomeOf \in [Client -> Server] /\ Users \in [Server -> SUBSET Client]
      /\ l[1] \in Server
      /\ RegisterLink(l[1], l[2], b) /\ umode' = umode /\ listed' = listed /\ oper' = oper
  BY UserModeAssumption, UsersAre, LinkFacts DEF UserInv, Bursts, UserModeAssumption
<1>2. b \in Seq(UserMessage) /\ IsBurst(b, Users[l[1]])
  BY <1>1, UserBurstIs
<1> HIDE DEF b
<1>3. LinksOK(UserMessage)' /\ Introduced(end', net', Users, HomeOf)
  BY <1>1, <1>2, RegisterLinkIs
<1>4. Users' = Users
  BY <1>1 DEF Users
<1> QED
  BY <1>1, <1>3, <1>4 DEF UserInv, UserTypeOK, AllInOrder, InOrder, InOf

(* lclient_vexit, server_exit                                              *)
LEMMA SplitsKeeps ==
  ASSUME UserInv, NEW l \in Link, Splits(l[1], l[2])
  PROVE  UserInv'
<1> DEFINE s == l[1]
           G == KnownOf(s, Behind[l])
<1>1. /\ LinksOK(UserMessage) /\ Introduced(end, net, Users, HomeOf) /\ UserTypeOK /\ AllInOrder
      /\ HomeOf \in [Client -> Server] /\ s \in Server
  BY UserModeAssumption, LinkFacts DEF UserInv, UserModeAssumption
<1>2. CloseLink(l[1], l[2]) /\ Forgotten(s, G)
  <2>1. l = <<l[1], l[2]>>
    BY LinkFacts
  <2> QED
    BY <2>1 DEF Splits
<1>3. /\ \A u \in Users[s] : u \in G <=> HomeOf[u] \in Behind[l]
      /\ Users[s] \subseteq Client
  BY <1>1, UsersAre DEF KnownOf
<1> HIDE DEF G
<1>4. Change(s, Users[s] \ G)
  BY <1>1, <1>2, ForgottenKeeps
<1>5. LinksOK(UserMessage)' /\ Introduced(end', net', Users', HomeOf)
  <2> DEFINE K2 == Users'
  <2>1. /\ K2 \in [Server -> SUBSET Client] /\ Users \in [Server -> SUBSET Client]
        /\ NQuit(l) \in UserMessage
        /\ \A x \in Server : x # l[1] => K2[x] = Users[x]
        /\ K2[l[1]] = Users[l[1]] \ G
    BY <1>4, UserForms DEF Change
  <2>2. K2[l[1]] = {u \in Users[l[1]] : HomeOf[u] \notin Behind[l]}
    BY <1>3, <2>1
  <2> HIDE DEF K2
  <2>3. LinksOK(UserMessage)' /\ Introduced(end', net', K2, HomeOf)
    BY <1>1, <1>2, <2>1, <2>2, CloseLinkIs, ZenonT(60)
  <2> QED
    BY <2>3 DEF K2
<1> QED
  BY <1>4, <1>5 DEF UserInv, Change

(* At first nobody is there.                                               *)
LEMMA UserInitKeeps ==
  ASSUME UserInit, LinkInit
  PROVE  UserInv
<1>1. /\ umode = [s \in Server |-> [u \in Client |-> Unknown]]
      /\ listed = [s \in Server |-> [m \in UMode |-> [u \in Client |-> 0]]]
      /\ oper = [u \in Client |-> NoOper]
      /\ end = [l \in Link |-> IF l \in Linked THEN "up" ELSE "down"]
      /\ net = [l \in Link |-> <<>>] /\ sessions = 0 /\ MaxSessions \in Nat
      /\ \A l \in Linked : Rev(l) \in Linked
  BY LinkAssumption DEF UserInit, LinkInit, LinkAssumption
<1>2. UserTypeOK
  BY <1>1 DEF UserTypeOK, NoOper, Oper
<1>3. LinksOK(UserMessage)
  <2>1. <<>> \in Seq(UserMessage) /\ 0 \in 0 .. MaxSessions
    BY <1>1
  <2>2. net \in [Link -> Seq(UserMessage)]
    BY <1>1, <2>1
  <2> QED
    BY <1>1, <2>1, <2>2 DEF LinksOK
<1>4. \A s \in Server : Users[s] = {}
  BY <1>1, UsersAre
<1>5. ASSUME NEW l \in Link
      PROVE  LinkTells(l, end, net, Users, HomeOf)
  <2>1. /\ net[l] = <<>> /\ Users[l[2]] = {} /\ Len(net[l]) = 0
    BY <1>1, <1>4, LinkFacts
  <2>2. \A u : Once(net[l], u, Users[l[2]], HomeOf) /\ Ended(net[l], u, Users[l[2]], HomeOf)
    BY <2>1 DEF Once, Ended
  <2> QED
    BY <2>1, <2>2 DEF LinkTells
<1>6. Reached(end, Users, HomeOf)
  BY <1>4 DEF Reached
<1>7. ASSUME NEW s \in Server, NEW u \in Client
      PROVE  InOrder(s, u)
  <2>1. /\ umode[s][u] = Unknown /\ oper[u] = NoOper
        /\ InOf(s, u) = [m \in UMode |-> 0]
    BY <1>1 DEF InOf
  <2>2. InOf(s, u)["c"] = 0 /\ InOf(s, u)["i"] = 0 /\ InOf(s, u)["o"] = 0
    BY <2>1 DEF UMode
  <2>3. /\ "c" \notin Unknown /\ "o" \notin Unknown
        /\ OperSane(NoOper) /\ ~NoOper.block
    BY DEF Unknown, OperSane, NoOper
  <2> QED
    BY <2>1, <2>2, <2>3 DEF InOrder, Fits
<1> QED
  BY <1>2, <1>3, <1>5, <1>6, <1>7 DEF UserInv, Introduced, AllInOrder

(* No action breaks it.                                                    *)
LEMMA UserStepKeeps ==
  ASSUME UserInv, [UserNext]_userVars
  PROVE  UserInv'
<1>1. CASE UNCHANGED userVars
  <2>1. /\ umode' = umode /\ listed' = listed /\ oper' = oper
        /\ end' = end /\ net' = net /\ sessions' = sessions
    BY <1>1 DEF userVars, links
  <2>2. Users' = Users
    BY <2>1 DEF Users
  <2> QED
    BY <2>1, <2>2 DEF UserInv, UserTypeOK, LinksOK, AllInOrder, InOrder, InOf
<1>2. ASSUME NEW u \in Client,
             LogIn(u) \/ Opers(u) \/ Quits(u) \/ \E L \in UModeLines : UModeLine(u, L)
      PROVE  UserInv'
  BY <1>2, LogInKeeps, OpersKeeps, QuitsKeeps, UModeLineKeeps
<1>3. ASSUME NEW l \in Link,
             \/ Hears(l[1], l[2]) \/ Connects(l[1], l[2])
             \/ Bursts(l[1], l[2]) \/ Splits(l[1], l[2])
      PROVE  UserInv'
  BY <1>3, HearsKeeps, ConnectsKeeps, BurstsKeeps, SplitsKeeps
<1> QED
  BY <1>1, <1>2, <1>3 DEF UserNext

(* UMODE, OPER, NUSER, QUIT and splits leave what usermode.c keeps of      *)
(* users within its types: known or not, a place in a list not negative.   *)
THEOREM ModesTyped == UserSpec => []UserTypeOK
<1>1. UserInit /\ LinkInit => UserInv
  BY UserInitKeeps
<1>2. UserInv /\ [UserNext]_userVars => UserInv'
  BY UserStepKeeps
<1>3. UserInv => UserTypeOK
  BY DEF UserInv
<1> QED
  BY <1>1, <1>2, <1>3, PTL DEF UserSpec

(* oper_up and oper_down, and the hooks of mode "o": type, block and the   *)
(* list of notices go together, and an operator is +o on its server.       *)
THEOREM OperatorsAlwaysAgree == UserSpec => []OperatorsAgree
<1>1. UserInit /\ LinkInit => UserInv
  BY UserInitKeeps
<1>2. UserInv /\ [UserNext]_userVars => UserInv'
  BY UserStepKeeps
<1>3. UserInv => OperatorsAgree
  <2> SUFFICES ASSUME UserInv, NEW u \in Client
               PROVE  /\ (oper[u].type = "oper") = oper[u].block
                      /\ oper[u].block = oper[u].online
                      /\ oper[u].block => oper[u].once /\ "o" \in umode[HomeOf[u]][u]
    BY DEF OperatorsAgree
  <2>1. HomeOf[u] \in Server /\ Local(HomeOf[u], u)
    BY UserModeAssumption DEF UserModeAssumption, Local
  <2>2. Fits(HomeOf[u], u, umode[HomeOf[u]][u], InOf(HomeOf[u], u), oper[u])
    BY <2>1 DEF UserInv, AllInOrder, InOrder
  <2> QED
    BY <2>1, <2>2 DEF Fits, OperSane
<1> QED
  BY <1>1, <1>2, <1>3, PTL DEF UserSpec

(* usermode_link and usermode_unlink: nobody is in a list twice, or in one *)
(* for another mode or another server's users.                             *)
THEOREM ListedOnce == UserSpec => []UsersListed
<1>1. UserInit /\ LinkInit => UserInv
  BY UserInitKeeps
<1>2. UserInv /\ [UserNext]_userVars => UserInv'
  BY UserStepKeeps
<1>3. UserInv => UsersListed
  <2> SUFFICES ASSUME UserInv, NEW s \in Server, NEW u \in Client
               PROVE  LET M == umode[s][u]
                          here == Local(s, u) /\ M # Unknown
                      IN  /\ listed[s]["c"][u] = IF here /\ "c" \in M THEN 1 ELSE 0
                          /\ listed[s]["i"][u] = IF here /\ "i" \notin M THEN 1 ELSE 0
                          /\ listed[s]["o"][u] <= IF "o" \in M THEN 1 ELSE 0
    BY DEF UsersListed
  <2>1. /\ Fits(s, u, umode[s][u], InOf(s, u), oper[u]) /\ "c" \notin Unknown
        /\ InOf(s, u)["c"] = listed[s]["c"][u] /\ InOf(s, u)["i"] = listed[s]["i"][u]
        /\ InOf(s, u)["o"] = listed[s]["o"][u]
    BY DEF UserInv, AllInOrder, InOrder, InOf, UMode, Unknown
  <2> QED
    BY <2>1 DEF Fits
<1> QED
  BY <1>1, <1>2, <1>3, PTL DEF UserSpec

-----------------------------------------------------------------------------
(* What a line makes of a user's modes.                                    *)

\* The modes that C turns over, and what is left of M then.
Turned(C) == {x \in UMode : \E i \in 1 .. Len(C) : C[i].mode = x /\ ~C[i].arg}
Turn(M, C) == {x \in UMode : (x \in M) # (x \in Turned(C))}

\* What is sent of a change from M: each mode once, and no mode for nothing.
Apt(C, M) == Unlike(C) /\ Real(C, M)

(* One more change turns over one mode more.                               *)
LEMMA OneMore ==
  ASSUME NEW D \in Seq(UChange), NEW c \in UChange, NEW M \in SUBSET UMode, Apt(D, M),
         \A i \in 1 .. Len(D) : ~(D[i].mode = c.mode /\ D[i].arg = c.arg),
         ~c.arg => (c.what = "+") # (c.mode \in M)
  PROVE  /\ Apt(Append(D, c), M)
         /\ Turn(M, Append(D, c)) =
              IF c.arg THEN Turn(M, D)
              ELSE IF c.what = "+" THEN Turn(M, D) \cup {c.mode} ELSE Turn(M, D) \ {c.mode}
<1> DEFINE E == Append(D, c)
           n == Len(D)
<1>1. /\ n \in Nat /\ Len(E) = n + 1 /\ E[n + 1] = c /\ \A i \in 1 .. n : E[i] = D[i]
      /\ \A i \in 1 .. n + 1 : i \in 1 .. n \/ i = n + 1
      /\ n + 1 \in 1 .. n + 1 /\ \A i \in 1 .. n : i \in 1 .. n + 1
  OBVIOUS
<1>2. c.mode \in UMode /\ c.arg \in BOOLEAN
  BY DEF UChange
<1>3. /\ \A i, j \in 1 .. n : D[i].mode = D[j].mode /\ D[i].arg = D[j].arg => i = j
      /\ \A i \in 1 .. n : ~D[i].arg => ((D[i].what = "+") # (D[i].mode \in M))
      /\ \A i \in 1 .. n : D[i].arg \in BOOLEAN
  <2>1. \A i \in 1 .. n : D[i] \in UChange
    OBVIOUS
  <2> QED
    BY <2>1 DEF Apt, Unlike, Real, UChange
<1> HIDE DEF E, n
<1>4. Apt(E, M)
  <2>1. Unlike(E)
    <3> SUFFICES ASSUME NEW i \in 1 .. n + 1, NEW j \in 1 .. n + 1,
                        E[i].mode = E[j].mode, E[i].arg = E[j].arg
                 PROVE  i = j
      BY <1>1 DEF Unlike
    <3>1. \A k \in 1 .. n : ~(D[k].mode = c.mode /\ D[k].arg = c.arg)
      BY DEF n
    <3> QED
      BY <1>1, <1>3, <3>1
  <2>2. Real(E, M)
    <3> SUFFICES ASSUME NEW i \in 1 .. n + 1, ~E[i].arg
                 PROVE  (E[i].what = "+") # (E[i].mode \in M)
      BY <1>1 DEF Real
    <3>1. CASE i \in 1 .. n
      BY <1>1, <1>3, <3>1
    <3>2. CASE i = n + 1
      BY <1>1, <3>2
    <3> QED
      BY <1>1, <3>1, <3>2
  <2> QED
    BY <2>1, <2>2 DEF Apt
<1>5. \A x \in UMode : x \in Turned(E) <=> x \in Turned(D) \/ (x = c.mode /\ ~c.arg)
  <2> SUFFICES ASSUME NEW x \in UMode
               PROVE  (\E i \in 1 .. n + 1 : E[i].mode = x /\ ~E[i].arg)
                        <=> (\E i \in 1 .. n : D[i].mode = x /\ ~D[i].arg) \/ (x = c.mode /\ ~c.arg)
    BY <1>1 DEF Turned, n
  <2>1. ASSUME NEW i \in 1 .. n + 1, E[i].mode = x, ~E[i].arg
        PROVE  (\E j \in 1 .. n : D[j].mode = x /\ ~D[j].arg) \/ (x = c.mode /\ ~c.arg)
    BY <1>1, <2>1
  <2>2. ASSUME NEW i \in 1 .. n, D[i].mode = x, ~D[i].arg
        PROVE  \E j \in 1 .. n + 1 : E[j].mode = x /\ ~E[j].arg
    BY <1>1, <2>2
  <2>3. ASSUME x = c.mode, ~c.arg
        PROVE  \E j \in 1 .. n + 1 : E[j].mode = x /\ ~E[j].arg
    BY <1>1, <2>3
  <2> QED
    BY <2>1, <2>2, <2>3
<1>6. ~c.arg => c.mode \notin Turned(D)
  <2>1. ASSUME ~c.arg, NEW i \in 1 .. n, D[i].mode = c.mode, ~D[i].arg PROVE FALSE
    BY <1>2, <1>3, <2>1 DEF n
  <2> QED
    BY <2>1 DEF Turned, n
<1>7. Turn(M, E) = IF c.arg THEN Turn(M, D)
                   ELSE IF c.what = "+" THEN Turn(M, D) \cup {c.mode} ELSE Turn(M, D) \ {c.mode}
  <2>1. CASE c.arg
    BY <1>5, <2>1 DEF Turn
  <2>2. CASE ~c.arg /\ c.what = "+"
    BY <1>2, <1>5, <1>6, <2>2 DEF Turn
  <2>3. CASE ~c.arg /\ c.what # "+"
    BY <1>2, <1>5, <1>6, <2>3 DEF Turn
  <2> QED
    BY <2>1, <2>2, <2>3
<1> QED
  BY <1>4, <1>7 DEF E

(* Nothing turns nothing.                                                  *)
LEMMA NoneTurned ==
  ASSUME NEW M \in SUBSET UMode
  PROVE  Apt(<<>>, M) /\ Turn(M, <<>>) = M
<1>1. Len(<<>>) = 0
  OBVIOUS
<1>2. \A i \in 1 .. Len(<<>>) : FALSE
  BY <1>1
<1> QED
  BY <1>2 DEF Apt, Unlike, Real, Turn, Turned

\* Of the first n changes of C those that are not bounced, and their effect.
Partly(n, C, st, M, all) ==
  /\ Apt(st.done, M) /\ st.modes = Turn(M, st.done)
  /\ \A i \in 1 .. Len(st.done) : \E j \in 1 .. n : st.done[i] = C[j]
  /\ all => st.done = SubSeq(C, 1, n)

(* usermode_apply: the modes change by what is sent; all that another      *)
(* server sent is done.                                                    *)
LEMMA ApplyTurns ==
  ASSUME UserTypeOK, NEW s \in Server, NEW u \in Client, umode[s][u] # Unknown,
         NEW o \in Oper, NEW typed \in BOOLEAN, NEW C \in Seq(UChange), Apt(C, umode[s][u]),
         NEW R, R = Apply(s, u, o, C, typed)
  PROVE  /\ Apt(R.done, umode[s][u]) /\ R.modes = Turn(umode[s][u], R.done)
         /\ ~Local(s, u) => R.done = C
<1> DEFINE M == umode[s][u]
           k == Len(C)
           D == 0 .. k
           T == [n \in D |-> {st \in AnyRun : Partly(n, C, st, M, ~Local(s, u))}]
<1>1. M \in SUBSET UMode /\ k \in Nat /\ \A i \in 1 .. k : C[i] \in UChange
  BY DEF UserTypeOK
<1>2. /\ Start(s, u, o) \in AnyRun /\ Start(s, u, o).modes = M
      /\ Start(s, u, o).done = <<>>
  BY StartTyped
<1>3. PICK f : Leads(f, s, u, o, C, typed)
  BY <1>2, ApplyRuns, Zenon
<1>4. /\ f \in [D -> AnyRun] /\ f[0] = Start(s, u, o) /\ f[k] = R
      /\ \A n \in 1 .. k : f[n] = ApplyOne(f[n - 1], C[n], s, u, typed)
  BY <1>3, Zenon DEF Leads
<1>5. /\ \A i, j \in 1 .. k : C[i].mode = C[j].mode /\ C[i].arg = C[j].arg => i = j
      /\ \A i \in 1 .. k : ~C[i].arg => ((C[i].what = "+") # (C[i].mode \in M))
  BY DEF Apt, Unlike, Real
<1> HIDE DEF M
<1>6. f[0] \in T[0]
  <2>1. 0 \in D /\ f[0] \in AnyRun /\ f[0].done = <<>> /\ f[0].modes = M /\ SubSeq(C, 1, 0) = <<>>
    BY <1>1, <1>2, <1>4
  <2>2. Partly(0, C, f[0], M, ~Local(s, u))
    <3>1. \A i \in 1 .. Len(<<>>) : FALSE
      OBVIOUS
    <3> QED
      BY <1>1, <2>1, <3>1, NoneTurned DEF Partly
  <2> QED
    BY <2>1, <2>2
<1>7. ASSUME NEW n \in 1 .. k, f[n - 1] \in T[n - 1]
      PROVE  f[n] \in T[n]
  <2> DEFINE st == f[n - 1]
             c == C[n]
             N == ApplyOne(st, c, s, u, typed)
             all == ~Local(s, u)
  <2>1. n - 1 \in D /\ n \in D /\ n \in Nat /\ n - 1 \in Nat /\ c \in UChange
    BY <1>1
  <2>2. st \in AnyRun /\ Partly(n - 1, C, st, M, all)
    BY <1>7, <2>1
  <2>3. /\ N \in AnyRun
        /\ IF Bounced(st, c, Local(s, u), typed) THEN N = st ELSE Applied(N, st, c, s, u)
    BY <2>1, <2>2, ApplyOneIs, Zenon
  <2>4. f[n] = N
    BY <1>4
  <2>5. st.done \in Seq(UChange)
    BY <2>2 DEF AnyRun
  <2>6. c = C[n] /\ all = ~Local(s, u)
    OBVIOUS
  <2> HIDE DEF st, c, N, all
  <2>7. Partly(n, C, N, M, all)
    <3>1. CASE Bounced(st, c, Local(s, u), typed)
      <4>1. ~all /\ N = st
        BY <2>3, <2>6, <3>1 DEF Bounced
      <4>2. \A j \in 1 .. n - 1 : j \in 1 .. n
        BY <2>1
      <4> QED
        BY <2>2, <4>1, <4>2 DEF Partly
    <3>2. CASE ~Bounced(st, c, Local(s, u), typed)
      <4> DEFINE E == st.done
      <4>1. /\ N.done = Append(E, c)
            /\ N.modes = IF c.arg THEN st.modes
                         ELSE IF c.what = "+" THEN st.modes \cup {c.mode} ELSE st.modes \ {c.mode}
        BY <2>3, <3>2 DEF Applied
      <4>2. /\ Apt(E, M) /\ st.modes = Turn(M, E)
            /\ \A i \in 1 .. Len(E) : \E j \in 1 .. n - 1 : E[i] = C[j]
            /\ all => E = SubSeq(C, 1, n - 1)
        BY <2>2 DEF Partly
      <4>3. E \in Seq(UChange)
        BY <2>5
      <4> HIDE DEF E
      <4>4. \A i \in 1 .. Len(E) : ~(E[i].mode = c.mode /\ E[i].arg = c.arg)
        <5> SUFFICES ASSUME NEW i \in 1 .. Len(E), E[i].mode = c.mode, E[i].arg = c.arg
                     PROVE  FALSE
          OBVIOUS
        <5>1. PICK j \in 1 .. n - 1 : E[i] = C[j]
          BY <4>2
        <5>2. j \in 1 .. k /\ j # n
          BY <1>1, <5>1
        <5> QED
          BY <1>5, <2>6, <5>1, <5>2
      <4>5. ~c.arg => (c.what = "+") # (c.mode \in M)
        BY <1>5, <2>6
      <4>6. /\ Apt(Append(E, c), M)
            /\ Turn(M, Append(E, c)) =
                 IF c.arg THEN Turn(M, E)
                 ELSE IF c.what = "+" THEN Turn(M, E) \cup {c.mode} ELSE Turn(M, E) \ {c.mode}
        BY <1>1, <2>1, <4>2, <4>3, <4>4, <4>5, OneMore
      <4>7. Apt(N.done, M) /\ N.modes = Turn(M, N.done)
        BY <4>1, <4>2, <4>6
      <4>8. \A i \in 1 .. Len(N.done) : \E j \in 1 .. n : N.done[i] = C[j]
        <5> SUFFICES ASSUME NEW i \in 1 .. Len(Append(E, c))
                     PROVE  \E j \in 1 .. n : Append(E, c)[i] = C[j]
          BY <4>1
        <5>1. CASE i \in 1 .. Len(E)
          <6>1. Append(E, c)[i] = E[i]
            BY <4>3, <5>1
          <6>2. PICK j \in 1 .. n - 1 : E[i] = C[j]
            BY <4>2, <5>1
          <6> QED
            BY <6>1, <6>2
        <5>2. CASE i = Len(E) + 1
          <6>1. Append(E, c)[i] = C[n]
            BY <2>6, <4>3, <5>2
          <6> QED
            BY <2>1, <6>1
        <5> QED
          BY <4>3, <5>1, <5>2
      <4>9. all => N.done = SubSeq(C, 1, n)
        <5> SUFFICES ASSUME all PROVE Append(SubSeq(C, 1, n - 1), C[n]) = SubSeq(C, 1, n)
          BY <2>6, <4>1, <4>2
        <5> QED
          BY <1>1, <2>1
      <4> QED
        BY <4>7, <4>8, <4>9 DEF Partly
    <3> QED
      BY <3>1, <3>2
  <2>8. T[n] = {x \in AnyRun : Partly(n, C, x, M, all)}
    BY <2>1, <2>6
  <2> HIDE DEF T
  <2> QED
    BY <2>3, <2>4, <2>7, <2>8
<1>8. f[k] \in T[k]
  <2> HIDE DEF T
  <2>1. \A n \in D : f[n] \in T[n]
    BY <1>1, <1>6, <1>7, AlongLine
  <2> QED
    BY <1>1, <2>1
<1>9. Partly(k, C, R, M, ~Local(s, u))
  BY <1>1, <1>4, <1>8
<1>10. SubSeq(C, 1, k) = C
  BY <1>1
<1> QED
  BY <1>9, <1>10 DEF Partly, M

(* usermode_parse drops nothing of a line that is apt.                     *)
LEMMA ParsedSame ==
  ASSUME NEW L \in Seq(UChange), NEW M, Apt(L, M)
  PROVE  Parsed(M, L) = L
<1> DEFINE k == Len(L)
           D == 0 .. k
           body(h) == [i \in 0 .. k |-> IF i = 0 THEN <<>> ELSE Noted(h[i - 1], L[i], M)]
           Parse == CHOOSE h : h = body(h)
           f == [i \in D |-> SubSeq(L, 1, i)]
<1>1. k \in Nat /\ SubSeq(L, 1, 0) = <<>> /\ SubSeq(L, 1, k) = L
  OBVIOUS
<1>2. ASSUME NEW n \in 1 .. k
      PROVE  Noted(SubSeq(L, 1, n - 1), L[n], M) = SubSeq(L, 1, n)
  <2> DEFINE B == SubSeq(L, 1, n - 1)
             c == L[n]
  <2>1. Len(B) = n - 1 /\ \A i \in 1 .. n - 1 : B[i] = L[i] /\ i \in 1 .. k /\ i # n
    BY <1>1
  <2>2. ~c.arg => (c.what = "+") # (c.mode \in M)
    BY DEF Apt, Real
  <2>3. Noted(B, c, M) = Added(B, c)
    BY <2>2 DEF Noted
  <2>4. Alike(B, c) = {}
    BY <2>1 DEF Alike, Apt, Unlike
  <2>5. Added(B, c) = Append(B, c)
    BY <2>4 DEF Added
  <2>6. Append(B, c) = SubSeq(L, 1, n)
    BY <1>1
  <2> QED
    BY <2>3, <2>5, <2>6
<1>3. Parsed(M, L) = Parse[k]
  BY DEF Parsed
<1>4. Parse = CHOOSE h : h = body(h)
  OBVIOUS
<1>5. f = body(f)
  <2>1. ASSUME NEW n \in D
        PROVE  f[n] = IF n = 0 THEN <<>> ELSE Noted(f[n - 1], L[n], M)
    <3>1. CASE n = 0
      BY <1>1, <3>1
    <3>2. CASE n # 0
      <4>1. n \in 1 .. k /\ n - 1 \in D
        BY <1>1, <3>2
      <4> QED
        BY <1>2, <3>2, <4>1
    <3> QED
      BY <3>1, <3>2
  <2> HIDE DEF f
  <2>2. f = [n \in D |-> f[n]]
    BY DEF f
  <2> QED
    BY <2>1, <2>2
<1> HIDE DEF Parse, f
<1>6. Parse = body(Parse)
  <2> HIDE DEF body
  <2> QED
    BY <1>4, <1>5
<1>7. \A n \in D : Parse[n] \in {SubSeq(L, 1, n)}
  <2> DEFINE T == [n \in D |-> {SubSeq(L, 1, n)}]
  <2>1. \A n \in D : Parse[n] = IF n = 0 THEN <<>> ELSE Noted(Parse[n - 1], L[n], M)
    BY <1>6, Zenon
  <2>2. 0 \in D /\ \A n \in 1 .. k : n \in D /\ n - 1 \in D /\ n # 0
    BY <1>1
  <2> HIDE DEF D
  <2>3. Parse[0] \in T[0]
    BY <1>1, <2>1, <2>2
  <2>4. \A n \in 1 .. k : Parse[n - 1] \in T[n - 1] => Parse[n] \in T[n]
    BY <1>2, <2>1, <2>2
  <2>5. \A n \in D : T[n] = {SubSeq(L, 1, n)}
    OBVIOUS
  <2> HIDE DEF T
  <2>6. \A n \in D : Parse[n] \in T[n]
    BY <1>1, <2>3, <2>4, AlongLine DEF D
  <2> QED
    BY <2>5, <2>6
<1>8. Parse[k] = SubSeq(L, 1, k)
  BY <1>1, <1>7
<1> QED
  BY <1>1, <1>3, <1>8

\* R is what L made of M; all of L, if nothing was bounced or dropped.
Made(M, L, local, R) ==
  /\ Apt(R.done, M) /\ R.modes = Turn(M, R.done)
  /\ ~local /\ Apt(L, M) => R.done = L

(* usermode_make                                                           *)
LEMMA MakeTurns ==
  ASSUME UserTypeOK, NEW s \in Server, NEW u \in Client, umode[s][u] # Unknown,
         NEW typed \in BOOLEAN, NEW L \in Seq(UChange)
  PROVE  Made(umode[s][u], L, Local(s, u), Make(s, u, L, typed))
<1> DEFINE M == umode[s][u]
           C == Parsed(M, L)
           R == Make(s, u, L, typed)
<1>1. C \in Seq(UChange) /\ Apt(C, M)
  BY ParsedFacts DEF Apt
<1>2. R = Apply(s, u, oper[u], C, typed) /\ oper[u] \in Oper
  BY DEF Make, UserTypeOK
<1>3. Apt(L, M) => C = L
  BY ParsedSame
<1> HIDE DEF C, R
<1>4. /\ Apt(R.done, umode[s][u]) /\ R.modes = Turn(umode[s][u], R.done)
      /\ ~Local(s, u) => R.done = C
  BY <1>1, <1>2, ApplyTurns
<1>5. Made(umode[s][u], L, Local(s, u), R)
  BY <1>3, <1>4 DEF Made
<1> QED
  BY <1>5 DEF R

(* oper_up                                                                 *)
LEMMA OperTurns ==
  ASSUME UserTypeOK, NEW s \in Server, NEW u \in Client, umode[s][u] # Unknown, InOrder(s, u),
         Local(s, u), ~oper[u].once,
         NEW R, R = Apply(s, u, Up, <<[what |-> "+", mode |-> "o", arg |-> FALSE]>>, FALSE)
  PROVE  Apt(R.done, umode[s][u]) /\ R.modes = Turn(umode[s][u], R.done)
<1> DEFINE c == [what |-> "+", mode |-> "o", arg |-> FALSE]
           C == <<c>>
<1>1. c \in UChange /\ Up \in Oper /\ c.what = "+" /\ c.mode = "o" /\ c.arg = FALSE
  BY DEF UChange, UMode, Up, Oper
<1> HIDE DEF c
<1>2. C \in Seq(UChange) /\ Len(C) = 1 /\ C[1] = c
  BY <1>1
<1>3. "o" \notin umode[s][u]
  BY DEF InOrder, Fits
<1> HIDE DEF C
<1>4. Apt(C, umode[s][u])
  BY <1>1, <1>2, <1>3 DEF Apt, Unlike, Real
<1>5. R = Apply(s, u, Up, C, FALSE)
  BY DEF C, c
<1> QED
  BY <1>1, <1>2, <1>4, <1>5, ApplyTurns

-----------------------------------------------------------------------------
(* What is on its way makes of the reader's modes the sender's.            *)

UModes == (SUBSET UMode) \cup {Unknown}

\* m makes N of what its reader has of u, M.
Makes(m, u, M, N) ==
  IF Begins(m, u) THEN N = m.modes
  ELSE IF m.cmd = "UMODE" /\ m.of = u
       THEN M # Unknown /\ Apt(m.changes, M) /\ N = Turn(M, m.changes)
  ELSE N = IF Ends(m, u, HomeOf) THEN Unknown ELSE M

\* The messages of q, one after the other, make B of A.
Line(q, u, V) == \A i \in 1 .. Len(q) : Makes(q[i], u, V[i - 1], V[i])
Turns(q, u, A, B) ==
  \E V \in [0 .. Len(q) -> UModes] : V[0] = A /\ V[Len(q)] = B /\ Line(q, u, V)

LinkTurns(l, E, N, K) ==
  \A u \in Client : HomeOf[u] \in Behind[Rev(l)] =>
    \E B \in UModes : /\ Turns(N[l], u, K[l[2]][u], B)
                      /\ Live(l, E) => B = K[l[1]][u]

AllTurn(E, N, K) == \A l \in Link : LinkTurns(l, E, N, K)

(* Nothing makes nothing.                                                  *)
LEMMA TurnsNothing ==
  ASSUME NEW u
  PROVE  /\ \A A \in UModes : Turns(<<>>, u, A, A)
         /\ \A A, B : Turns(<<>>, u, A, B) => A = B
<1>1. ASSUME NEW A \in UModes PROVE Turns(<<>>, u, A, A)
  <2> DEFINE V == [i \in 0 .. 0 |-> A]
  <2>1. V \in [0 .. Len(<<>>) -> UModes] /\ V[0] = A /\ V[Len(<<>>)] = A
    OBVIOUS
  <2>2. Line(<<>>, u, V)
    BY DEF Line
  <2> HIDE DEF V
  <2> QED
    BY <2>1, <2>2 DEF Turns
<1>2. ASSUME NEW A, NEW B, Turns(<<>>, u, A, B) PROVE A = B
  BY <1>2 DEF Turns
<1> QED
  BY <1>1, <1>2

(* The first message is read.                                              *)
LEMMA TurnsRead ==
  ASSUME NEW X, NEW q \in Seq(X), q # <<>>, NEW u, NEW A, NEW B, Turns(q, u, A, B)
  PROVE  \E N \in UModes : Makes(Head(q), u, A, N) /\ Turns(Tail(q), u, N, B)
<1> DEFINE n == Len(q)
           p == Tail(q)
<1>1. PICK V \in [0 .. n -> UModes] : V[0] = A /\ V[n] = B /\ Line(q, u, V)
  BY DEF Turns
<1> DEFINE W == [i \in 0 .. n - 1 |-> V[i + 1]]
<1>2. /\ n \in Nat /\ n >= 1 /\ Len(p) = n - 1 /\ Head(q) = q[1]
      /\ \A i \in 1 .. n - 1 : p[i] = q[i + 1]
  OBVIOUS
<1>3. /\ \A i \in 0 .. n - 1 : i + 1 \in 0 .. n /\ W[i] = V[i + 1]
      /\ 0 \in 0 .. n - 1 /\ n - 1 \in 0 .. n - 1 /\ 1 \in 0 .. n /\ 1 \in 1 .. n
  BY <1>2
<1>4. Makes(Head(q), u, A, V[1]) /\ V[1] \in UModes
  <2>1. Makes(q[1], u, V[1 - 1], V[1])
    BY <1>1, <1>3 DEF Line
  <2> QED
    BY <1>1, <1>2, <1>3, <2>1
<1> HIDE DEF n, p, W
<1>5. Turns(p, u, V[1], B)
  <2>1. W \in [0 .. Len(p) -> UModes]
    BY <1>1, <1>2, <1>3 DEF W
  <2>2. W[0] = V[1] /\ W[Len(p)] = B
    BY <1>1, <1>2, <1>3
  <2>3. Line(p, u, W)
    <3> SUFFICES ASSUME NEW i \in 1 .. n - 1 PROVE Makes(p[i], u, W[i - 1], W[i])
      BY <1>2 DEF Line
    <3>1. i + 1 \in 1 .. n /\ i - 1 \in 0 .. n - 1 /\ i \in 0 .. n - 1 /\ (i + 1) - 1 = i
          /\ (i - 1) + 1 = i
      BY <1>2
    <3>2. Makes(q[i + 1], u, V[(i + 1) - 1], V[i + 1])
      BY <1>1, <3>1 DEF Line, n
    <3> QED
      BY <1>2, <1>3, <3>1, <3>2
  <2> QED
    BY <2>1, <2>2, <2>3 DEF Turns
<1> QED
  BY <1>4, <1>5 DEF p

(* A message is sent.                                                      *)
LEMMA TurnsSend ==
  ASSUME NEW X, NEW q \in Seq(X), NEW m \in X, NEW u, NEW A, NEW B, Turns(q, u, A, B),
         NEW N \in UModes, Makes(m, u, B, N)
  PROVE  Turns(q \o <<m>>, u, A, N)
<1> DEFINE n == Len(q)
           p == q \o <<m>>
<1>1. PICK V \in [0 .. n -> UModes] : V[0] = A /\ V[n] = B /\ Line(q, u, V)
  BY DEF Turns
<1> DEFINE W == [i \in 0 .. n + 1 |-> IF i = n + 1 THEN N ELSE V[i]]
<1>2. /\ n \in Nat /\ Len(p) = n + 1 /\ p[n + 1] = m
      /\ \A i \in 1 .. n : p[i] = q[i]
  OBVIOUS
<1>3. /\ \A i \in 0 .. n : i \in 0 .. n + 1 /\ i # n + 1 /\ W[i] = V[i]
      /\ W[n + 1] = N /\ 0 \in 0 .. n /\ n \in 0 .. n
  BY <1>2
<1>4. W \in [0 .. n + 1 -> UModes]
  <2>1. \A i \in 0 .. n + 1 : i = n + 1 \/ i \in 0 .. n
    BY <1>2
  <2> QED
    BY <1>1, <2>1
<1>5. \A i \in 1 .. n : Makes(q[i], u, V[i - 1], V[i])
  BY <1>1 DEF Line
<1> HIDE DEF n, p, W
<1>6. Line(p, u, W)
  <2> SUFFICES ASSUME NEW i \in 1 .. n + 1 PROVE Makes(p[i], u, W[i - 1], W[i])
    BY <1>2 DEF Line
  <2>1. CASE i \in 1 .. n
    <3>1. i \in 0 .. n /\ i - 1 \in 0 .. n
      BY <1>2, <2>1
    <3> QED
      BY <1>2, <1>3, <1>5, <2>1, <3>1
  <2>2. CASE i = n + 1
    <3>1. i - 1 = n
      BY <1>2, <2>2
    <3> QED
      BY <1>1, <1>2, <1>3, <2>2, <3>1
  <2> QED
    BY <1>2, <2>1, <2>2
<1>7. W[0] = A /\ W[Len(p)] = N
  BY <1>1, <1>2, <1>3
<1> QED
  BY <1>2, <1>4, <1>6, <1>7 DEF Turns, p

-----------------------------------------------------------------------------
(* A server acts.                                                          *)

\* What s says is what it did.
TurnsBy(out, s) ==
  IF out = <<>> THEN umode'[s] = umode[s]
  ELSE /\ out = <<out[1]>>
       /\ \A u \in Client : Makes(out[1], u, umode[s][u], umode'[s][u])

\* s says out, about users on the side of f.
ActsByModes(s, f, out) ==
  /\ s \in Server /\ f \in Server /\ (f = s \/ <<s, f>> \in Link)
  /\ out \in Seq(UserMessage)
  /\ \A x \in Server : x # s => umode'[x] = umode[x]
  /\ TurnsBy(out, s)
  /\ \A u \in Client : umode'[s][u] # umode[s][u] => Side(s, f, HomeOf[u])

(* The modes of a user are some, or Unknown.                               *)
LEMMA ModesAre ==
  /\ UserTypeOK => \A s \in Server, u \in Client : umode[s][u] \in UModes
  /\ UserTypeOK' => \A s \in Server, u \in Client : umode'[s][u] \in UModes
  BY DEF UserTypeOK, UModes

(* A link on which nothing was said or read, and of which the ends know    *)
(* what they knew of each other's users.                                   *)
LEMMA TurnsStay ==
  ASSUME NEW l \in Link, LinkTurns(l, end, net, umode), net'[l] = net[l],
         Live(l, end') => Live(l, end),
         \A u \in Client : HomeOf[u] \in Behind[Rev(l)]
           => umode'[l[2]][u] = umode[l[2]][u] /\ umode'[l[1]][u] = umode[l[1]][u]
  PROVE  LinkTurns(l, end', net', umode')
  BY DEF LinkTurns

(* What s says on a link turns what the other end will know as it turned   *)
(* what s knows.                                                           *)
LEMMA TurnsOut ==
  ASSUME UserTypeOK', net \in [Link -> Seq(UserMessage)],
         NEW s, NEW f, NEW out, ActsByModes(s, f, out),
         NEW l \in Link, l[1] = s, LinkTurns(l, end, net, umode),
         net'[l] = IF out # <<>> /\ Live(l, end) THEN net[l] \o out ELSE net[l],
         Live(l, end') => Live(l, end)
  PROVE  LinkTurns(l, end', net', umode')
<1>1. /\ out \in Seq(UserMessage) /\ TurnsBy(out, s) /\ s \in Server
      /\ umode'[l[2]] = umode[l[2]]
  BY LinkFacts DEF ActsByModes
<1>2. ASSUME NEW u \in Client, HomeOf[u] \in Behind[Rev(l)]
      PROVE  \E B \in UModes : /\ Turns(net'[l], u, umode'[l[2]][u], B)
                               /\ Live(l, end') => B = umode'[l[1]][u]
  <2>1. PICK B \in UModes : /\ Turns(net[l], u, umode[l[2]][u], B)
                            /\ Live(l, end) => B = umode[l[1]][u]
    BY <1>2 DEF LinkTurns
  <2>2. umode'[s][u] \in UModes
    BY <1>1, ModesAre
  <2>3. CASE out # <<>> /\ Live(l, end)
    <3>1. /\ out = <<out[1]>> /\ out[1] \in UserMessage
          /\ Makes(out[1], u, umode[s][u], umode'[s][u])
      BY <1>1, <2>3 DEF TurnsBy
    <3> DEFINE m == out[1]
    <3>2. net'[l] = net[l] \o <<m>> /\ B = umode[s][u]
      BY <2>1, <2>3, <3>1
    <3> HIDE DEF m
    <3>3. m \in UserMessage /\ Makes(m, u, B, umode'[s][u])
      BY <3>1, <3>2 DEF m
    <3>4. Turns(net[l] \o <<m>>, u, umode[l[2]][u], umode'[s][u])
      <4>1. net[l] \in Seq(UserMessage)
        OBVIOUS
      <4> QED
        BY <2>1, <2>2, <3>3, <4>1, TurnsSend
    <3> QED
      BY <1>1, <2>2, <3>2, <3>4
  <2>4. CASE ~(out # <<>> /\ Live(l, end))
    <3>1. Live(l, end) => umode'[s] = umode[s]
      BY <1>1, <2>4 DEF TurnsBy
    <3> QED
      BY <1>1, <2>1, <2>4, <3>1
  <2> QED
    BY <2>3, <2>4
<1> QED
  BY <1>2 DEF LinkTurns

(* All links but the one the message came from.                            *)
LEMMA OthersTurn ==
  ASSUME UserTypeOK', net \in [Link -> Seq(UserMessage)], AllTurn(end, net, umode),
         NEW s, NEW f, NEW out, ActsByModes(s, f, out), Relays(end, net, net', s, f, out),
         NEW l \in Link, l # <<s, f>>, l # <<f, s>>, Live(l, end') => Live(l, end)
  PROVE  LinkTurns(l, end', net', umode')
<1>1. LinkTurns(l, end, net, umode) /\ s \in Server /\ f \in Server /\ (f = s \/ <<s, f>> \in Link)
  BY DEF AllTurn, ActsByModes
<1>2. net'[l] = IF out # <<>> /\ l[1] = s /\ Live(l, end) THEN net[l] \o out ELSE net[l]
  BY DEF Relays
<1>3. CASE l[1] = s
  BY <1>1, <1>2, <1>3, TurnsOut
<1>4. CASE l[1] # s
  <2>1. ASSUME NEW u \in Client, HomeOf[u] \in Behind[Rev(l)]
        PROVE  umode'[l[2]][u] = umode[l[2]][u] /\ umode'[l[1]][u] = umode[l[1]][u]
    <3>1. umode'[l[1]] = umode[l[1]]
      BY <1>4, LinkFacts DEF ActsByModes
    <3>2. CASE l[2] # s
      BY <3>1, <3>2, LinkFacts DEF ActsByModes
    <3>3. CASE l[2] = s
      <4>1. l[1] # f
        BY <3>3, LinkFacts
      <4>2. ~Side(s, f, HomeOf[u])
        BY <1>1, <2>1, <3>3, <4>1, SideFacts
      <4> QED
        BY <3>1, <3>3, <4>2 DEF ActsByModes
    <3> QED
      BY <3>2, <3>3
  <2> QED
    BY <1>1, <1>2, <1>4, <2>1, TurnsStay
<1> QED
  BY <1>3, <1>4

(* A server says what a user of its own does.                              *)
LEMMA SaidTurns ==
  ASSUME UserInv, UserInv', AllTurn(end, net, umode), NEW s, NEW out,
         ActsByModes(s, s, out), SendAll(s, s, out), end' = end
  PROVE  AllTurn(end', net', umode')
<1>1. net \in [Link -> Seq(UserMessage)] /\ UserTypeOK' /\ out \in Seq(UserMessage)
  BY DEF UserInv, LinksOK, ActsByModes
<1>2. Relays(end, net, net', s, s, out)
  BY <1>1, SendAllIs
<1>3. \A l \in Link : l # <<s, s>>
  BY LinkFacts
<1> QED
  BY <1>1, <1>2, <1>3, OthersTurn DEF AllTurn

(* A server reads a message, and what it makes of its copy is what the     *)
(* message makes of it.                                                    *)
LEMMA HeardTurns ==
  ASSUME UserInv, UserInv', AllTurn(end, net, umode), NEW s, NEW t, <<s, t>> \in Link,
         <<t, s>> \in Link, net[<<t, s>>] # <<>>, NEW out, ActsByModes(s, t, out),
         ReadAndSend(s, t, out, <<>>), end' = end,
         \A u \in Client : HomeOf[u] \in Behind[<<s, t>>] =>
           \A N : Makes(Head(net[<<t, s>>]), u, umode[s][u], N) => N = umode'[s][u]
  PROVE  AllTurn(end', net', umode')
<1>1. net \in [Link -> Seq(UserMessage)] /\ UserTypeOK' /\ out \in Seq(UserMessage)
  BY DEF UserInv, LinksOK, ActsByModes
<1>2. /\ Relays(end, net, net', s, t, out) /\ net'[<<t, s>>] = Tail(net[<<t, s>>])
      /\ net'[<<s, t>>] = net[<<s, t>>]
  <2> DEFINE back == <<>>
  <2>1. NoneOrBounce(UserMessage, back) /\ ReadAndSend(s, t, out, back)
    BY DEF NoneOrBounce
  <2> HIDE DEF back
  <2>2. /\ Relays(end, net, net', s, t, out) /\ net'[<<t, s>>] = Tail(net[<<t, s>>])
        /\ Answers(UserMessage, end, net, net', s, t)
    BY <1>1, <2>1, ReadAndSendIs
  <2>3. \A m \in UserMessage : m.cmd # "NBOUNCE"
    BY UserMessageIs
  <2> QED
    BY <2>2, <2>3 DEF Answers
<1>3. /\ s \in Server /\ t \in Server /\ s # t
      /\ <<s, t>>[1] = s /\ <<s, t>>[2] = t /\ <<t, s>>[1] = t /\ <<t, s>>[2] = s
      /\ Rev(<<s, t>>) = <<t, s>> /\ Rev(<<t, s>>) = <<s, t>>
      /\ Behind[<<s, t>>] \cap Behind[<<t, s>>] = {}
  BY LinkFacts DEF Rev
<1>4. ASSUME NEW u \in Client, HomeOf[u] \in Behind[<<s, t>>]
      PROVE  \E B \in UModes : /\ Turns(net'[<<t, s>>], u, umode'[s][u], B)
                               /\ Live(<<t, s>>, end') => B = umode'[t][u]
  <2>1. PICK B \in UModes : /\ Turns(net[<<t, s>>], u, umode[s][u], B)
                            /\ Live(<<t, s>>, end) => B = umode[t][u]
    BY <1>3, <1>4 DEF AllTurn, LinkTurns
  <2>2. PICK N \in UModes : /\ Makes(Head(net[<<t, s>>]), u, umode[s][u], N)
                            /\ Turns(Tail(net[<<t, s>>]), u, N, B)
    <3>1. net[<<t, s>>] \in Seq(UserMessage)
      BY <1>1
    <3> QED
      BY <2>1, <3>1, TurnsRead
  <2>3. N = umode'[s][u]
    BY <1>4, <2>2
  <2>4. umode'[t] = umode[t]
    BY <1>3 DEF ActsByModes
  <2> QED
    BY <1>2, <2>1, <2>2, <2>3, <2>4
<1>5. LinkTurns(<<t, s>>, end', net', umode')
  BY <1>3, <1>4 DEF LinkTurns
<1>6. LinkTurns(<<s, t>>, end', net', umode')
  <2>1. ASSUME NEW u \in Client, HomeOf[u] \in Behind[<<t, s>>]
        PROVE  umode'[t][u] = umode[t][u] /\ umode'[s][u] = umode[s][u]
    BY <1>3, <2>1 DEF ActsByModes, Side
  <2>2. LinkTurns(<<s, t>>, end, net, umode)
    BY DEF AllTurn
  <2> QED
    BY <1>2, <1>3, <2>1, <2>2, TurnsStay
<1>7. \A l \in Link : l # <<s, t>> /\ l # <<t, s>> => LinkTurns(l, end', net', umode')
  BY <1>1, <1>2, OthersTurn
<1> QED
  BY <1>5, <1>6, <1>7 DEF AllTurn

(* What each message makes.                                                *)
LEMMA MakesIs ==
  ASSUME NEW m, NEW u, NEW M, NEW N
  PROVE  /\ m.cmd = "NUSER" => (Makes(m, u, M, N) <=> N = IF m.of = u THEN m.modes ELSE M)
         /\ m.cmd = "UMODE" =>
              (Makes(m, u, M, N) <=>
                 IF m.of = u THEN M # Unknown /\ Apt(m.changes, M) /\ N = Turn(M, m.changes)
                 ELSE N = M)
         /\ m.cmd = "QUIT" => (Makes(m, u, M, N) <=> N = IF m.of = u THEN Unknown ELSE M)
         /\ m.cmd = "NQUIT" =>
              (Makes(m, u, M, N) <=>
                 N = IF HomeOf[u] \in Behind[m.link] THEN Unknown ELSE M)
  BY DEF Makes, Begins, Ends

\* umode turns to X at s, for the user v.
Changed(s, v, X) ==
  /\ \A x \in Server : x # s => umode'[x] = umode[x]
  /\ \A u \in Client : umode'[s][u] = IF u = v THEN X ELSE umode[s][u]

(* One copy of one user changes.                                           *)
LEMMA ChangedIs ==
  ASSUME UserTypeOK, NEW s \in Server, NEW u \in Client, NEW X,
         umode' = [umode EXCEPT ![s][u] = X]
  PROVE  Changed(s, u, X)
<1>1. umode \in [Server -> [Client -> (SUBSET UMode) \cup {Unknown}]]
  BY DEF UserTypeOK
<1> QED
  BY <1>1 DEF Changed

(* It is told, by the side the user is on.                                 *)
LEMMA ChangedActs ==
  ASSUME UserTypeOK, NEW s \in Server, NEW f \in Server, f = s \/ <<s, f>> \in Link,
         NEW u \in Client, Side(s, f, HomeOf[u]), NEW X, Changed(s, u, X),
         NEW m \in UserMessage, m.cmd # "NQUIT", m.of = u, Makes(m, u, umode[s][u], X)
  PROVE  ActsByModes(s, f, <<m>>)
<1> DEFINE out == <<m>>
<1>1. out # <<>> /\ out[1] = m /\ out = <<out[1]>> /\ out \in Seq(UserMessage)
  OBVIOUS
<1> HIDE DEF out
<1>2. \A v \in Client : Makes(m, v, umode[s][v], umode'[s][v])
  <2> SUFFICES ASSUME NEW v \in Client PROVE Makes(m, v, umode[s][v], umode'[s][v])
    OBVIOUS
  <2>1. CASE v = u
    BY <2>1 DEF Changed
  <2>2. CASE v # u
    <3>1. umode'[s][v] = umode[s][v]
      BY <2>2 DEF Changed
    <3>2. m.cmd \in {"NUSER", "UMODE", "QUIT"}
      BY UserMessageIs
    <3> QED
      BY <2>2, <3>1, <3>2, MakesIs
  <2> QED
    BY <2>1, <2>2
<1>3. TurnsBy(out, s)
  BY <1>1, <1>2 DEF TurnsBy
<1>4. ActsByModes(s, f, out)
  BY <1>1, <1>3 DEF ActsByModes, Changed
<1> QED
  BY <1>4 DEF out

(* usermode_make and what is told of it.                                   *)
LEMMA PutActs ==
  ASSUME UserTypeOK, NEW s \in Server, NEW f \in Server, f = s \/ <<s, f>> \in Link,
         NEW u \in Client, Side(s, f, HomeOf[u]), umode[s][u] # Unknown, NEW R, Put(s, u, R),
         R.done \in Seq(SentChange), Apt(R.done, umode[s][u]), R.modes = Turn(umode[s][u], R.done)
  PROVE  ActsByModes(s, f, Told(u, R.done)) /\ Changed(s, u, R.modes)
<1>1. Changed(s, u, R.modes)
  BY ChangedIs DEF Put
<1> DEFINE M == umode[s][u]
           C == R.done
<1>2. M \in SUBSET UMode /\ umode \in [Server -> [Client -> (SUBSET UMode) \cup {Unknown}]]
  BY DEF UserTypeOK
<1>3. CASE C = <<>>
  <2>1. R.modes = M
    BY <1>2, <1>3, NoneTurned
  <2>2. umode' = [umode EXCEPT ![s][u] = M]
    BY <2>1 DEF Put
  <2>3. umode' = umode
    BY <1>2, <2>2
  <2> DEFINE out == Told(u, C)
  <2>4. out = <<>> /\ out \in Seq(UserMessage)
    BY <1>3 DEF Told
  <2> HIDE DEF out
  <2>5. ActsByModes(s, f, out)
    BY <2>3, <2>4 DEF ActsByModes, TurnsBy
  <2> QED
    BY <1>1, <2>5 DEF out
<1>4. CASE C # <<>>
  <2> DEFINE m == UModeMsg(u, C)
  <2>1. /\ m \in UserMessage /\ m.cmd = "UMODE" /\ m.of = u /\ m.changes = C
        /\ Told(u, C) = <<m>>
    BY <1>4, UserForms DEF Told, UModeMsg
  <2> HIDE DEF m, C
  <2>2. Makes(m, u, umode[s][u], R.modes)
    BY <2>1, MakesIs DEF C
  <2>3. ActsByModes(s, f, <<m>>)
    BY <1>1, <2>1, <2>2, ChangedActs
  <2> QED
    BY <1>1, <2>1, <2>3 DEF C
<1> QED
  BY <1>3, <1>4

(* client_release                                                          *)
LEMMA ForgottenIs ==
  ASSUME UserTypeOK, NEW s \in Server, NEW U, Forgotten(s, U)
  PROVE  /\ \A x \in Server : x # s => umode'[x] = umode[x]
         /\ \A u \in Client : umode'[s][u] = IF u \in U THEN Unknown ELSE umode[s][u]
<1>1. umode \in [Server -> [Client -> (SUBSET UMode) \cup {Unknown}]]
  BY DEF UserTypeOK
<1>2. umode' = [umode EXCEPT ![s] = [u \in Client |-> IF u \in U THEN Unknown ELSE umode[s][u]]]
  BY DEF Forgotten
<1> QED
  BY <1>1, <1>2

LEMMA LogInTurns ==
  ASSUME UserInv, UserInv', AllTurn(end, net, umode), NEW u \in Client, LogIn(u)
  PROVE  AllTurn(end', net', umode')
<1> DEFINE s == HomeOf[u]
           m == NUserMsg(u, {})
<1>1. s \in Server /\ UserTypeOK /\ Side(s, s, HomeOf[u])
  BY UserModeAssumption DEF UserModeAssumption, UserInv, Side
<1>2. /\ umode' = [umode EXCEPT ![s][u] = {}] /\ SendAll(s, s, <<m>>) /\ end' = end
  BY DEF LogIn, Put
<1>3. m \in UserMessage /\ m.cmd = "NUSER" /\ m.of = u /\ m.modes = {}
  BY UserForms DEF NUserMsg
<1> HIDE DEF s, m
<1>4. Changed(s, u, {})
  BY <1>1, <1>2, ChangedIs
<1>5. Makes(m, u, umode[s][u], {})
  BY <1>3, MakesIs
<1>6. ActsByModes(s, s, <<m>>)
  BY <1>1, <1>3, <1>4, <1>5, ChangedActs
<1> QED
  BY <1>2, <1>6, SaidTurns

LEMMA UModeLineTurns ==
  ASSUME UserInv, UserInv', AllTurn(end, net, umode), NEW u \in Client,
         NEW L \in UModeLines, UModeLine(u, L)
  PROVE  AllTurn(end', net', umode')
<1> DEFINE s == HomeOf[u]
           R == Make(s, u, L, TRUE)
<1>1. /\ s \in Server /\ UserTypeOK /\ Side(s, s, HomeOf[u]) /\ Local(s, u) /\ InOrder(s, u)
  BY UserModeAssumption DEF UserModeAssumption, UserInv, Side, Local, AllInOrder
<1>2. /\ umode[s][u] # Unknown /\ Put(s, u, R) /\ SendAll(s, s, Told(u, R.done)) /\ end' = end
  BY DEF UModeLine
<1>3. L \in Seq(UChange)
  BY UserModeAssumption DEF UserModeAssumption, UModeLines
<1>4. R.done \in Seq(SentChange)
  <2>1. Checked(s, u, L, TRUE)
    BY <1>1 DEF Checked
  <2> QED
    BY <1>1, <1>2, <1>3, <2>1, MakeFits DEF Result
<1>5. Apt(R.done, umode[s][u]) /\ R.modes = Turn(umode[s][u], R.done)
  <2>1. Made(umode[s][u], L, Local(s, u), R)
    BY <1>1, <1>2, <1>3, MakeTurns
  <2> HIDE DEF R
  <2> QED
    BY <2>1 DEF Made
<1> HIDE DEF s, R
<1>6. ActsByModes(s, s, Told(u, R.done))
  BY <1>1, <1>2, <1>4, <1>5, PutActs
<1> QED
  BY <1>2, <1>6, SaidTurns

LEMMA OpersTurns ==
  ASSUME UserInv, UserInv', AllTurn(end, net, umode), NEW u \in Client, Opers(u)
  PROVE  AllTurn(end', net', umode')
<1> DEFINE s == HomeOf[u]
           R == Apply(s, u, Up, <<[what |-> "+", mode |-> "o", arg |-> FALSE]>>, FALSE)
<1>1. /\ s \in Server /\ UserTypeOK /\ Side(s, s, HomeOf[u]) /\ Local(s, u) /\ InOrder(s, u)
  BY UserModeAssumption DEF UserModeAssumption, UserInv, Side, Local, AllInOrder
<1>2. /\ umode[s][u] # Unknown /\ Put(s, u, R) /\ SendAll(s, s, Told(u, R.done)) /\ end' = end
      /\ ~oper[u].once
  BY DEF Opers
<1>3. R.done \in Seq(SentChange)
  BY <1>1, <1>2, OperFits DEF Result
<1> HIDE DEF s
<1>4. Apt(R.done, umode[s][u]) /\ R.modes = Turn(umode[s][u], R.done)
  BY <1>1, <1>2, OperTurns
<1> HIDE DEF R
<1>5. ActsByModes(s, s, Told(u, R.done))
  BY <1>1, <1>2, <1>3, <1>4, PutActs
<1> QED
  BY <1>2, <1>5, SaidTurns

LEMMA QuitsTurns ==
  ASSUME UserInv, UserInv', AllTurn(end, net, umode), NEW u \in Client, Quits(u)
  PROVE  AllTurn(end', net', umode')
<1> DEFINE s == HomeOf[u]
           m == QuitMsg(u)
<1>1. s \in Server /\ UserTypeOK /\ Side(s, s, HomeOf[u])
  BY UserModeAssumption DEF UserModeAssumption, UserInv, Side
<1>2. Forgotten(s, {u}) /\ SendAll(s, s, <<m>>) /\ end' = end
  BY DEF Quits
<1>3. m \in UserMessage /\ m.cmd = "QUIT" /\ m.of = u
  BY UserForms
<1> HIDE DEF s, m
<1>4. Changed(s, u, Unknown)
  BY <1>1, <1>2, ForgottenIs DEF Changed
<1>5. Makes(m, u, umode[s][u], Unknown)
  BY <1>3, MakesIs
<1>6. ActsByModes(s, s, <<m>>)
  BY <1>1, <1>3, <1>4, <1>5, ChangedActs
<1> QED
  BY <1>2, <1>6, SaidTurns

(* ms_nuser, ms_umode, ms_quit, ms_nquit                                   *)
LEMMA HearsTurns ==
  ASSUME UserInv, UserInv', AllTurn(end, net, umode), NEW l \in Link, Hears(l[1], l[2])
  PROVE  AllTurn(end', net', umode')
<1> DEFINE s == l[1]
           t == l[2]
           k == <<t, s>>
           m == Head(net[k])
<1>1. /\ s \in Server /\ t \in Server /\ s # t /\ <<s, t>> \in Link /\ k \in Link /\ UserTypeOK
      /\ Rev(k) = <<s, t>> /\ k[2] = s
  BY LinkFacts DEF UserInv, Rev
<1>2. CanRead(l[1], l[2]) /\ end' = end
  BY DEF Hears
<1>3. net[k] # <<>> /\ m \in UserMessage /\ (m.cmd # "NQUIT" => ~Local(s, m.of))
  BY <1>2, HeadSays DEF CanRead
<1>4. /\ m.cmd # "NQUIT" => m.of \in Client
      /\ m.cmd = "NUSER" => m.modes \in SUBSET UMode
      /\ m.cmd = "UMODE" => m.changes \in Seq(SentChange)
      /\ m.cmd = "NQUIT" => m.link \in Link
  BY <1>3, UserMessageIs
<1>5. /\ m.cmd # "NQUIT" => Side(s, t, HomeOf[m.of])
      /\ m.cmd = "NQUIT" => Behind[m.link] \subseteq Behind[<<s, t>>]
  <2>1. net \in [Link -> Seq(UserMessage)] /\ Introduced(end, net, Users, HomeOf)
    BY DEF UserInv, LinksOK
  <2>2. m = net[k][1] /\ 1 \in 1 .. Len(net[k])
    BY <1>1, <1>3, <2>1
  <2>3. Outward(m, k, HomeOf)
    BY <1>1, <2>1, <2>2 DEF Introduced, LinkTells
  <2>4. m.cmd # "NQUIT" => m.cmd \in {"NUSER", "UMODE", "QUIT"}
    BY <1>3, UserMessageIs
  <2> QED
    BY <1>1, <2>3, <2>4 DEF Outward, Side
<1>6. ASSUME NEW u \in Client, HomeOf[u] \in Behind[<<s, t>>]
      PROVE  \E N : Makes(m, u, umode[s][u], N)
  <2>1. PICK B \in UModes : Turns(net[k], u, umode[s][u], B)
    BY <1>1, <1>6 DEF AllTurn, LinkTurns
  <2>2. net[k] \in Seq(UserMessage)
    BY <1>1 DEF UserInv, LinksOK
  <2> HIDE DEF k
  <2> QED
    BY <1>3, <2>1, <2>2, TurnsRead
<1>7. ASSUME NEW out, ReadAndSend(s, t, out, <<>>), ActsByModes(s, t, out),
             \A u \in Client : HomeOf[u] \in Behind[<<s, t>>] =>
               \A N : Makes(m, u, umode[s][u], N) => N = umode'[s][u]
      PROVE  AllTurn(end', net', umode')
  <2> HIDE DEF s, t
  <2> QED
    BY <1>1, <1>2, <1>3, <1>7, HeardTurns
<1>8. Hears(s, t) /\ Head(net[<<t, s>>]) = m
  OBVIOUS
<1> HIDE DEF s, t, k, m
<1>9. ASSUME NEW X, Changed(s, m.of, X), m.cmd # "NQUIT", Makes(m, m.of, umode[s][m.of], X),
             NEW m2 \in UserMessage, m2.cmd = m.cmd, m2.of = m.of,
             Makes(m2, m.of, umode[s][m.of], X), ReadAndSend(s, t, <<m2>>, <<>>)
      PROVE  AllTurn(end', net', umode')
  <2>1. ActsByModes(s, t, <<m2>>)
    BY <1>1, <1>4, <1>5, <1>9, ChangedActs
  <2>2. ASSUME NEW u \in Client, NEW N, Makes(m, u, umode[s][u], N)
        PROVE  N = umode'[s][u]
    <3>1. m.cmd \in {"NUSER", "UMODE", "QUIT"}
      BY <1>3, <1>9, UserMessageIs
    <3>2. CASE u = m.of
      BY <1>9, <2>2, <3>1, <3>2, MakesIs DEF Changed
    <3>3. CASE u # m.of
      BY <1>9, <2>2, <3>1, <3>3, MakesIs DEF Changed
    <3> QED
      BY <3>2, <3>3
  <2> QED
    BY <1>7, <1>9, <2>1, <2>2
<1>10. CASE m.cmd = "NUSER"
  <2> DEFINE m2 == NUserMsg(m.of, m.modes)
  <2>1. umode' = [umode EXCEPT ![s][m.of] = m.modes] /\ ReadAndSend(s, t, <<m2>>, <<>>)
    BY <1>8, <1>10 DEF Hears, ModesIn
  <2>2. /\ m2 \in UserMessage /\ m2.cmd = m.cmd /\ m2.of = m.of /\ m2.modes = m.modes
    BY <1>4, <1>10, UserForms DEF NUserMsg
  <2> HIDE DEF m2
  <2>3. Changed(s, m.of, m.modes)
    BY <1>1, <1>4, <1>10, <2>1, ChangedIs
  <2>4. Makes(m, m.of, umode[s][m.of], m.modes) /\ Makes(m2, m.of, umode[s][m.of], m.modes)
    BY <1>10, <2>2, MakesIs
  <2> QED
    BY <1>9, <1>10, <2>1, <2>2, <2>3, <2>4
<1>11. CASE m.cmd = "UMODE"
  <2> DEFINE v == m.of
             M == umode[s][v]
             R == Make(s, v, m.changes, FALSE)
  <2>1. v \in Client /\ M # Unknown /\ Apt(m.changes, M)
    <3>1. HomeOf[v] \in Behind[<<s, t>>]
      BY <1>1, <1>5, <1>11 DEF Side
    <3>2. \E N : Makes(m, v, M, N)
      BY <1>4, <1>6, <1>11, <3>1, SMTT(40)
    <3> QED
      BY <1>4, <1>11, <3>2, MakesIs
  <2>2. Put(s, v, R) /\ ReadAndSend(s, t, Told(v, R.done), <<>>)
    BY <1>8, <1>11, <2>1 DEF Hears
  <2>3. m.changes \in Seq(UChange) /\ m.changes \in Seq(SentChange)
    <3>1. SentChange \subseteq UChange
      BY DEF SentChange
    <3> QED
      BY <1>4, <1>11, <3>1
  <2>4. ~Local(s, v)
    BY <1>3, <1>11
  <2>5. /\ Apt(R.done, M) /\ R.modes = Turn(M, R.done) /\ R.done = m.changes
    <3>1. Made(umode[s][v], m.changes, Local(s, v), R)
      BY <1>1, <2>1, <2>3, MakeTurns
    <3> HIDE DEF R
    <3> QED
      BY <2>1, <2>4, <3>1 DEF Made
  <2> HIDE DEF R
  <2>6. ActsByModes(s, t, Told(v, R.done)) /\ Changed(s, v, R.modes)
    BY <1>1, <1>5, <1>11, <2>1, <2>2, <2>3, <2>5, PutActs
  <2>7. ASSUME NEW u \in Client, NEW N, Makes(m, u, umode[s][u], N)
        PROVE  N = umode'[s][u]
    <3>1. umode'[s][u] = IF u = v THEN R.modes ELSE umode[s][u]
      BY <2>6 DEF Changed
    <3>2. IF v = u THEN N = Turn(umode[s][u], m.changes) ELSE N = umode[s][u]
      BY <1>11, <2>7, MakesIs
    <3> QED
      BY <2>5, <3>1, <3>2
  <2> QED
    BY <1>7, <2>2, <2>6, <2>7
<1>12. CASE m.cmd = "QUIT"
  <2>1. m.of \in Client /\ Makes(m, m.of, umode[s][m.of], Unknown)
    BY <1>4, <1>12, MakesIs
  <2>2. CASE umode[s][m.of] # Unknown
    <3>1. Forgotten(s, {m.of}) /\ ReadAndSend(s, t, <<m>>, <<>>)
      BY <1>8, <1>12, <2>2 DEF Hears
    <3>2. Changed(s, m.of, Unknown)
      BY <1>1, <3>1, ForgottenIs DEF Changed
    <3> QED
      BY <1>3, <1>9, <1>12, <2>1, <3>1, <3>2, SMTT(40)
  <2>3. CASE umode[s][m.of] = Unknown
    <3> DEFINE out == <<>>
    <3>1. ReadAndSend(s, t, out, <<>>) /\ umode' = umode
      BY <1>8, <1>12, <2>3 DEF Hears
    <3>2. out = <<>> /\ out \in Seq(UserMessage)
      OBVIOUS
    <3> HIDE DEF out
    <3>3. ActsByModes(s, t, out)
      BY <1>1, <3>1, <3>2 DEF ActsByModes, TurnsBy
    <3>4. ASSUME NEW u \in Client, NEW N, Makes(m, u, umode[s][u], N)
          PROVE  N = umode'[s][u]
      BY <1>12, <2>3, <3>1, <3>4, MakesIs
    <3> QED
      BY <1>7, <3>1, <3>3, <3>4
  <2> QED
    BY <2>2, <2>3
<1>13. CASE m.cmd = "NQUIT"
  <2> DEFINE G == KnownOf(s, Behind[m.link])
             out == <<m>>
  <2>1. Forgotten(s, G) /\ ReadAndSend(s, t, out, <<>>)
    BY <1>8, <1>13 DEF Hears
  <2>2. /\ \A x \in Server : x # s => umode'[x] = umode[x]
        /\ \A u \in Client : umode'[s][u] = IF u \in G THEN Unknown ELSE umode[s][u]
    BY <1>1, <2>1, ForgottenIs
  <2>3. \A u \in Client : umode'[s][u] = IF HomeOf[u] \in Behind[m.link] THEN Unknown
                                        ELSE umode[s][u]
    BY <2>2 DEF KnownOf
  <2>4. out # <<>> /\ out[1] = m /\ out = <<out[1]>> /\ out \in Seq(UserMessage)
    BY <1>3
  <2> HIDE DEF G, out
  <2>5. \A u \in Client : \A N : Makes(m, u, umode[s][u], N) <=> N = umode'[s][u]
    BY <1>13, <2>3, MakesIs
  <2>6. TurnsBy(out, s)
    BY <2>4, <2>5 DEF TurnsBy
  <2>7. \A u \in Client : umode'[s][u] # umode[s][u] => Side(s, t, HomeOf[u])
    BY <1>1, <1>5, <1>13, <2>3 DEF Side
  <2>8. ActsByModes(s, t, out)
    BY <1>1, <2>2, <2>4, <2>6, <2>7 DEF ActsByModes
  <2> QED
    BY <1>7, <2>1, <2>5, <2>8
<1>14. m.cmd \in {"NUSER", "UMODE", "QUIT", "NQUIT"}
  BY <1>3, UserMessageIs
<1> QED
  BY <1>10, <1>11, <1>12, <1>13, <1>14

-----------------------------------------------------------------------------
(* Connections.                                                            *)

(* Nothing on its way: the ends have the same, or do not talk.             *)
LEMMA EmptyTurns ==
  ASSUME NEW l, NEW E, NEW N, NEW K, N[l] = <<>>,
         \A u \in Client : K[l[2]][u] \in UModes,
         Live(l, E) => \A u \in Client : K[l[2]][u] = K[l[1]][u]
  PROVE  LinkTurns(l, E, N, K)
<1> SUFFICES ASSUME NEW u \in Client
             PROVE  \E B \in UModes : /\ Turns(N[l], u, K[l[2]][u], B)
                                      /\ Live(l, E) => B = K[l[1]][u]
  BY DEF LinkTurns
<1> DEFINE B == K[l[2]][u]
<1>1. B \in UModes /\ (Live(l, E) => B = K[l[1]][u])
  OBVIOUS
<1> HIDE DEF B
<1>2. Turns(<<>>, u, B, B)
  BY <1>1, TurnsNothing
<1> QED
  BY <1>1, <1>2 DEF B

(* Links that nobody touched talk as they did.                             *)
LEMMA OthersLive ==
  ASSUME NEW E, NEW F, NEW s, NEW f, NEW l \in Link, l # <<s, f>>, l # <<f, s>>,
         \A k \in Link : k # <<s, f>> /\ k # <<f, s>> => F[k] = E[k]
  PROVE  Live(l, F) <=> Live(l, E)
<1>1. Rev(l) \in Link /\ Rev(Rev(l)) = l
  BY LinkFacts
<1>2. Rev(<<s, f>>) = <<f, s>> /\ Rev(<<f, s>>) = <<s, f>>
  BY DEF Rev
<1>3. Rev(l) # <<s, f>> /\ Rev(l) # <<f, s>>
  BY <1>1, <1>2
<1> QED
  BY <1>1, <1>3 DEF Live

LEMMA ConnectsTurns ==
  ASSUME UserInv, UserInv', AllTurn(end, net, umode), NEW l \in Link, Connects(l[1], l[2])
  PROVE  AllTurn(end', net', umode')
<1> DEFINE s == l[1]
           t == l[2]
<1>1. /\ <<s, t>> \in Link /\ <<t, s>> \in Link /\ <<s, t>> # <<t, s>>
      /\ s \in Server /\ t \in Server
      /\ Rev(<<s, t>>) = <<t, s>> /\ Rev(<<t, s>>) = <<s, t>>
  BY LinkFacts DEF Rev
<1>2. /\ end \in [Link -> {"down", "open", "up"}] /\ net \in [Link -> Seq(UserMessage)]
      /\ UserTypeOK'
  BY DEF UserInv, LinksOK
<1>3. /\ end' = [end EXCEPT ![<<s, t>>] = "open", ![<<t, s>>] = "open"]
      /\ net' = [net EXCEPT ![<<s, t>>] = <<>>, ![<<t, s>>] = <<>>]
      /\ umode' = umode
  BY DEF OpenLink, Connects
<1> HIDE DEF s, t
<1>4. ASSUME NEW k \in Link PROVE LinkTurns(k, end', net', umode')
  <2>1. CASE k \in {<<s, t>>, <<t, s>>}
    <3>1. end'[k] = "open" /\ net'[k] = <<>>
      BY <1>1, <1>2, <1>3, <2>1
    <3>2. \A u \in Client : umode'[k[2]][u] \in UModes
      BY <1>2, ModesAre, LinkFacts
    <3> QED
      BY <3>1, <3>2, EmptyTurns DEF Live
  <2>2. CASE k # <<s, t>> /\ k # <<t, s>>
    <3>1. \A j \in Link : j # <<s, t>> /\ j # <<t, s>> => end'[j] = end[j]
      BY <1>2, <1>3
    <3>2. Live(k, end') <=> Live(k, end)
      BY <2>2, <3>1, OthersLive
    <3>3. net'[k] = net[k] /\ LinkTurns(k, end, net, umode)
      BY <1>2, <1>3, <2>2 DEF AllTurn
    <3> QED
      BY <1>3, <3>2, <3>3, TurnsStay
  <2> QED
    BY <2>1, <2>2
<1> QED
  BY <1>4 DEF AllTurn

(* client_burst leaves out nobody, and says what modes they have.          *)
LEMMA BurstSays ==
  ASSUME UserTypeOK, NEW s \in Server
  PROVE  /\ UserBurst(s) \in Seq(UserMessage)
         /\ \A i \in 1 .. Len(UserBurst(s)) :
              /\ UserBurst(s)[i].cmd = "NUSER" /\ UserBurst(s)[i].of \in Users[s]
              /\ UserBurst(s)[i].modes = umode[s][UserBurst(s)[i].of]
         /\ \A u \in Users[s] : \E i \in 1 .. Len(UserBurst(s)) : UserBurst(s)[i].of = u
<1> DEFINE A == Users[s]
           S == {NUserMsg(u, umode[s][u]) : u \in A}
           b == UserBurst(s)
           n == Cardinality(S)
<1>1. A \subseteq Client /\ \A u \in A : umode[s][u] \in SUBSET UMode
  BY UsersAre DEF UserTypeOK
<1>2. b = SetToSeq(S)
  BY UsersAre DEF UserBurst
<1>3. \A x \in S : x.cmd = "NUSER" /\ x.of \in A /\ x.modes = umode[s][x.of]
  BY <1>1 DEF NUserMsg
<1>4. \A u \in A : \E x \in S : x.of = u
  <2> SUFFICES ASSUME NEW u \in A PROVE \E x \in S : x.of = u
    OBVIOUS
  <2>1. NUserMsg(u, umode[s][u]) \in S /\ NUserMsg(u, umode[s][u]).of = u
    BY DEF NUserMsg
  <2> HIDE DEF S
  <2> QED
    BY <2>1
<1>5. IsFiniteSet(S)
  <2>1. IsFiniteSet(A)
    BY <1>1, FS_Subset, UserModeAssumption DEF UserModeAssumption
  <2> DEFINE g == [u \in A |-> NUserMsg(u, umode[s][u])]
  <2>2. g \in Surjection(A, S)
    BY DEF Surjection
  <2> HIDE DEF g, S, A
  <2> QED
    BY <2>1, <2>2, FS_Surjection, Zenon
<1> HIDE DEF S, A, b
<1>6. n \in Nat /\ ExistsBijection(1 .. n, S)
  BY <1>5, FS_CardinalityType, Zenon
<1>7. \E f \in [1 .. n -> S] : IsInjective(f)
  BY <1>6 DEF ExistsBijection, Bijection, Injection
<1>8. b \in [1 .. n -> S] /\ IsInjective(b)
  BY <1>2, <1>7, Zenon DEF SetToSeq
<1>9. b \in Seq(S) /\ Len(b) = n /\ \A i \in 1 .. n : b[i] \in S
  BY <1>6, <1>8
<1>10. b \in Injection(1 .. n, S)
  BY <1>8 DEF Injection
<1>11. Cardinality(1 .. n) = n
  BY <1>6, FS_Interval
<1>12. b \in Surjection(1 .. n, S)
  BY <1>5, <1>10, <1>11, FS_Injection, Zenon
<1>13. \A x \in S : \E i \in 1 .. n : b[i] = x
  BY <1>12 DEF Surjection
<1>14. \A u \in A : \E i \in 1 .. n : b[i].of = u
  BY <1>4, <1>13
<1>15. b \in Seq(UserMessage)
  BY UserBurstIs DEF b
<1> QED
  BY <1>3, <1>9, <1>14, <1>15 DEF A, b

(* To who knows nobody the burst brings everybody's modes.                 *)
LEMMA BurstTurns ==
  ASSUME UserTypeOK, NEW s \in Server, NEW u \in Client
  PROVE  Turns(UserBurst(s), u, Unknown, umode[s][u])
<1> DEFINE b == UserBurst(s)
           n == Len(b)
           M == umode[s][u]
           V == [i \in 0 .. n |-> IF \E j \in 1 .. i : b[j].of = u THEN M ELSE Unknown]
<1>1. /\ b \in Seq(UserMessage)
      /\ \A i \in 1 .. n : /\ b[i].cmd = "NUSER" /\ b[i].of \in Users[s]
                           /\ b[i].modes = umode[s][b[i].of]
      /\ \A x \in Users[s] : \E i \in 1 .. n : b[i].of = x
  BY BurstSays
<1>2. M \in UModes /\ Unknown \in UModes
  BY ModesAre DEF UModes
<1>3. u \in Users[s] <=> M # Unknown
  BY UsersAre
<1> HIDE DEF b, M
<1>4. n \in Nat /\ 0 \in 0 .. n /\ n \in 0 .. n /\ \A j \in 1 .. 0 : FALSE
  BY <1>1
<1>5. V \in [0 .. n -> UModes] /\ V[0] = Unknown
  BY <1>2, <1>4
<1>6. V[n] = M
  <2>1. V[n] = IF \E j \in 1 .. n : b[j].of = u THEN M ELSE Unknown
    BY <1>4
  <2> QED
    BY <1>1, <1>3, <2>1
<1>7. ASSUME NEW i \in 1 .. n PROVE Makes(b[i], u, V[i - 1], V[i])
  <2>1. /\ i \in 0 .. n /\ i - 1 \in 0 .. n /\ i \in 1 .. i
        /\ \A j \in 1 .. i : j \in 1 .. i - 1 \/ j = i
        /\ \A j \in 1 .. i - 1 : j \in 1 .. i
    BY <1>4
  <2>2. /\ V[i] = IF \E j \in 1 .. i : b[j].of = u THEN M ELSE Unknown
        /\ V[i - 1] = IF \E j \in 1 .. i - 1 : b[j].of = u THEN M ELSE Unknown
    BY <2>1
  <2> HIDE DEF V, n
  <2>3. b[i].cmd = "NUSER" /\ (b[i].of = u => b[i].modes = M)
    BY <1>1 DEF M
  <2>4. CASE b[i].of = u
    <3>1. V[i] = M
      BY <2>1, <2>2, <2>4
    <3> QED
      BY <2>3, <2>4, <3>1, MakesIs
  <2>5. CASE b[i].of # u
    <3>1. V[i] = V[i - 1]
      <4>1. (\E j \in 1 .. i : b[j].of = u) <=> (\E j \in 1 .. i - 1 : b[j].of = u)
        BY <2>1, <2>5
      <4> QED
        BY <2>2, <4>1
    <3> QED
      BY <2>3, <2>5, <3>1, MakesIs
  <2> QED
    BY <2>4, <2>5
<1>8. Line(b, u, V)
  BY <1>7 DEF Line
<1> HIDE DEF V
<1>9. Turns(b, u, Unknown, M)
  BY <1>5, <1>6, <1>8 DEF Turns
<1> QED
  BY <1>9 DEF b, M

LEMMA BurstsTurns ==
  ASSUME UserInv, UserInv', AllTurn(end, net, umode), NEW l \in Link, Bursts(l[1], l[2])
  PROVE  AllTurn(end', net', umode')
<1> DEFINE s == l[1]
           t == l[2]
           b == UserBurst(s)
<1>1. /\ l = <<s, t>> /\ <<t, s>> \in Link /\ <<s, t>> # <<t, s>>
      /\ s \in Server /\ t \in Server
      /\ Rev(<<s, t>>) = <<t, s>> /\ Rev(<<t, s>>) = <<s, t>>
  BY LinkFacts DEF Rev
<1>2. /\ end \in [Link -> {"down", "open", "up"}] /\ net \in [Link -> Seq(UserMessage)]
      /\ UserTypeOK /\ UserTypeOK'
  BY DEF UserInv, LinksOK
<1>3. /\ end[<<s, t>>] = "open"
      /\ end' = [end EXCEPT ![<<s, t>>] = "up"]
      /\ net' = [net EXCEPT ![<<s, t>>] = IF end[<<t, s>>] = "down" THEN net[<<s, t>>]
                                          ELSE net[<<s, t>>] \o b]
      /\ umode' = umode
  BY DEF RegisterLink, Bursts
<1>4. b \in Seq(UserMessage) /\ \A u \in Client : Turns(b, u, Unknown, umode[s][u])
  BY <1>1, <1>2, BurstSays, BurstTurns
<1>5. /\ net[<<s, t>>] = <<>>
      /\ \A u \in Users[t] : HomeOf[u] \notin Behind[<<t, s>>]
  <2>1. LinkTells(<<s, t>>, end, net, Users, HomeOf)
    BY <1>1 DEF UserInv, Introduced
  <2> QED
    BY <1>1, <1>3, <2>1 DEF LinkTells
<1> HIDE DEF s, t, b
<1>6. \A k \in Link : k # <<s, t>> => end'[k] = end[k] /\ net'[k] = net[k]
  BY <1>1, <1>2, <1>3
<1>7. LinkTurns(<<s, t>>, end', net', umode')
  <2>1. \A u \in Client : umode'[t][u] \in UModes
    BY <1>1, <1>2, ModesAre
  <2>2. end'[<<s, t>>] = "up" /\ end'[<<t, s>>] = end[<<t, s>>]
    BY <1>1, <1>2, <1>3
  <2>3. CASE end[<<t, s>>] = "down"
    <3>1. net'[<<s, t>>] = <<>> /\ ~Live(<<s, t>>, end')
      BY <1>1, <1>2, <1>3, <1>5, <2>2, <2>3 DEF Live
    <3> QED
      BY <1>1, <2>1, <3>1, EmptyTurns
  <2>4. CASE end[<<t, s>>] # "down"
    <3>1. net'[<<s, t>>] = b
      <4>1. <<>> \o b = b
        BY <1>4
      <4> QED
        BY <1>1, <1>2, <1>3, <1>5, <2>4, <4>1
    <3>2. ASSUME NEW u \in Client, HomeOf[u] \in Behind[<<t, s>>]
          PROVE  \E B \in UModes : Turns(b, u, umode'[t][u], B) /\ B = umode'[s][u]
      <4>1. umode[t][u] = Unknown
        BY <1>1, <1>5, <3>2, UsersAre
      <4>2. Turns(b, u, umode'[t][u], umode'[s][u]) /\ umode'[s][u] \in UModes
        BY <1>1, <1>2, <1>3, <1>4, <4>1, ModesAre
      <4> QED
        BY <4>2
    <3> QED
      BY <1>1, <3>1, <3>2 DEF LinkTurns
  <2> QED
    BY <2>3, <2>4
<1>8. LinkTurns(<<t, s>>, end', net', umode')
  <2>1. Live(<<t, s>>, end') => Live(<<t, s>>, end)
    BY <1>1, <1>3, <1>6 DEF Live
  <2>2. net'[<<t, s>>] = net[<<t, s>>] /\ LinkTurns(<<t, s>>, end, net, umode)
    BY <1>1, <1>6 DEF AllTurn
  <2> QED
    BY <1>1, <1>3, <2>1, <2>2, TurnsStay
<1>9. ASSUME NEW k \in Link, k # <<s, t>>, k # <<t, s>>
      PROVE  LinkTurns(k, end', net', umode')
  <2>1. Live(k, end') <=> Live(k, end)
    BY <1>6, <1>9, OthersLive, ZenonT(60)
  <2>2. net'[k] = net[k] /\ LinkTurns(k, end, net, umode)
    BY <1>6, <1>9 DEF AllTurn
  <2> QED
    BY <1>3, <2>1, <2>2, TurnsStay
<1> QED
  BY <1>7, <1>8, <1>9 DEF AllTurn

LEMMA SplitsTurns ==
  ASSUME UserInv, UserInv', AllTurn(end, net, umode), NEW l \in Link, Splits(l[1], l[2])
  PROVE  AllTurn(end', net', umode')
<1> DEFINE s == l[1]
           t == l[2]
           G == KnownOf(s, Behind[l])
           out == IF end[l] = "up" THEN <<NQuit(l)>> ELSE <<>>
<1>1. /\ l = <<s, t>> /\ <<s, t>> \in Link /\ <<t, s>> \in Link /\ <<s, t>> # <<t, s>>
      /\ s \in Server /\ t \in Server /\ s # t /\ Behind[<<s, t>>] \cap Behind[<<t, s>>] = {}
      /\ Rev(<<s, t>>) = <<t, s>> /\ Rev(<<t, s>>) = <<s, t>>
      /\ <<s, t>>[1] = s /\ <<s, t>>[2] = t /\ <<t, s>>[1] = t /\ <<t, s>>[2] = s
  BY LinkFacts DEF Rev
<1>2. /\ end \in [Link -> {"down", "open", "up"}] /\ net \in [Link -> Seq(UserMessage)]
      /\ UserTypeOK /\ UserTypeOK'
  BY DEF UserInv, LinksOK
<1>3. /\ end' = [end EXCEPT ![<<s, t>>] = "down"]
      /\ net' = [k \in Link |-> IF k = <<t, s>> THEN <<>>
                                ELSE IF Sent(s, t, out, k) THEN net[k] \o out
                                ELSE net[k]]
      /\ Forgotten(s, G)
  BY <1>1 DEF CloseLink, Splits
<1>4. /\ \A x \in Server : x # s => umode'[x] = umode[x]
      /\ \A u \in Client : umode'[s][u] = IF HomeOf[u] \in Behind[<<s, t>>] THEN Unknown
                                         ELSE umode[s][u]
  <2>1. /\ \A x \in Server : x # s => umode'[x] = umode[x]
        /\ \A u \in Client : umode'[s][u] = IF u \in G THEN Unknown ELSE umode[s][u]
    BY <1>1, <1>2, <1>3, ForgottenIs
  <2> QED
    BY <1>1, <2>1 DEF KnownOf
<1>5. /\ end[<<s, t>>] = "up" => out = <<NQuit(<<s, t>>)>>
      /\ end[<<s, t>>] # "up" => out = <<>>
      /\ out \in Seq(UserMessage)
  BY <1>1, UserForms
<1> HIDE DEF s, t, G, out
<1>6. TurnsBy(out, s)
  <2>1. CASE end[<<s, t>>] = "up"
    <3> DEFINE m == NQuit(<<s, t>>)
    <3>1. m.cmd = "NQUIT" /\ m.link = <<s, t>>
      BY DEF NQuit
    <3>0. out = <<m>>
      BY <1>5, <2>1
    <3> HIDE DEF m
    <3>2. out = <<m>> /\ out # <<>> /\ out[1] = m
      BY <3>0
    <3>3. \A u \in Client : Makes(m, u, umode[s][u], umode'[s][u])
      BY <1>4, <3>1, MakesIs
    <3> QED
      BY <3>2, <3>3 DEF TurnsBy
  <2>2. CASE end[<<s, t>>] # "up"
    <3>1. LinkTells(<<t, s>>, end, net, Users, HomeOf)
      BY <1>1 DEF UserInv, Introduced
    <3>2. \A u \in Users[s] : HomeOf[u] \notin Behind[<<s, t>>]
      BY <1>1, <2>2, <3>1 DEF LinkTells
    <3>3. \A u \in Client : umode'[s][u] = umode[s][u]
      BY <1>1, <1>4, <3>2, UsersAre
    <3>4. umode'[s] = umode[s]
      <4>1. /\ umode[s] \in [Client -> (SUBSET UMode) \cup {Unknown}]
            /\ umode'[s] \in [Client -> (SUBSET UMode) \cup {Unknown}]
        BY <1>1, <1>2 DEF UserTypeOK
      <4> QED
        BY <3>3, <4>1
    <3> QED
      BY <1>5, <2>2, <3>4 DEF TurnsBy
  <2> QED
    BY <2>1, <2>2
<1>7. ActsByModes(s, t, out)
  <2>1. \A u \in Client : umode'[s][u] # umode[s][u] => Side(s, t, HomeOf[u])
    BY <1>1, <1>4 DEF Side
  <2> QED
    BY <1>1, <1>4, <1>5, <1>6, <2>1 DEF ActsByModes
<1>8. \A k \in Link : Sent(s, t, out, k) <=> out # <<>> /\ k[1] = s /\ k[2] # t /\ Live(k, end)
  BY DEF Sent, Live
<1>9. Relays(end, net, net', s, t, out)
  <2> SUFFICES ASSUME NEW k \in Link, k # <<s, t>>, k # <<t, s>>
               PROVE  net'[k] = IF out # <<>> /\ k[1] = s /\ Live(k, end)
                                THEN net[k] \o out ELSE net[k]
    BY DEF Relays
  <2>1. k[1] = s => k[2] # t
    BY LinkFacts
  <2> QED
    BY <1>3, <1>8, <2>1
<1>10. /\ \A k \in Link : k # <<s, t>> => end'[k] = end[k]
       /\ end'[<<s, t>>] = "down"
  BY <1>1, <1>2, <1>3
<1>11. LinkTurns(<<t, s>>, end', net', umode')
  <2>1. net'[<<t, s>>] = <<>> /\ ~Live(<<t, s>>, end')
    BY <1>1, <1>3, <1>10 DEF Live
  <2>2. \A u \in Client : umode'[s][u] \in UModes
    BY <1>1, <1>2, ModesAre
  <2> QED
    BY <1>1, <2>1, <2>2, EmptyTurns
<1>12. LinkTurns(<<s, t>>, end', net', umode')
  <2>1. net'[<<s, t>>] = net[<<s, t>>] /\ ~Live(<<s, t>>, end')
    BY <1>1, <1>3, <1>8, <1>10 DEF Live
  <2>2. LinkTurns(<<s, t>>, end, net, umode)
    BY <1>1 DEF AllTurn
  <2>3. ASSUME NEW u \in Client, HomeOf[u] \in Behind[<<t, s>>]
        PROVE  umode'[t][u] = umode[t][u] /\ umode'[s][u] = umode[s][u]
    BY <1>1, <1>4, <2>3
  <2> QED
    BY <1>1, <2>1, <2>2, <2>3, TurnsStay
<1>13. ASSUME NEW k \in Link, k # <<s, t>>, k # <<t, s>>
       PROVE  LinkTurns(k, end', net', umode')
  <2>1. Live(k, end') <=> Live(k, end)
    BY <1>10, <1>13, OthersLive, ZenonT(60)
  <2> QED
    BY <1>2, <1>7, <1>9, <1>13, <2>1, OthersTurn
<1> QED
  BY <1>11, <1>12, <1>13 DEF AllTurn

-----------------------------------------------------------------------------
(* Always.                                                                 *)

ModeInv == UserInv /\ AllTurn(end, net, umode)

LEMMA ModeInitKeeps ==
  ASSUME UserInit, LinkInit
  PROVE  ModeInv
<1>1. UserInv
  BY UserInitKeeps
<1>2. ASSUME NEW l \in Link PROVE LinkTurns(l, end, net, umode)
  <2>1. /\ net[l] = <<>>
        /\ \A u \in Client : umode[l[1]][u] = Unknown /\ umode[l[2]][u] = Unknown
    BY LinkFacts DEF UserInit, LinkInit
  <2>2. Unknown \in UModes
    BY DEF UModes
  <2> QED
    BY <2>1, <2>2, EmptyTurns
<1> QED
  BY <1>1, <1>2 DEF ModeInv, AllTurn

LEMMA ModeStepKeeps ==
  ASSUME ModeInv, [UserNext]_userVars
  PROVE  ModeInv'
<1>1. UserInv /\ AllTurn(end, net, umode) /\ UserInv'
  BY UserStepKeeps DEF ModeInv
<1>2. CASE UNCHANGED userVars
  <2>1. umode' = umode /\ end' = end /\ net' = net
    BY <1>2 DEF userVars, links
  <2> QED
    BY <1>1, <2>1 DEF ModeInv
<1>3. ASSUME NEW u \in Client,
             LogIn(u) \/ Opers(u) \/ Quits(u) \/ \E L \in UModeLines : UModeLine(u, L)
      PROVE  AllTurn(end', net', umode')
  BY <1>1, <1>3, LogInTurns, OpersTurns, QuitsTurns, UModeLineTurns
<1>4. ASSUME NEW l \in Link,
             \/ Hears(l[1], l[2]) \/ Connects(l[1], l[2])
             \/ Bursts(l[1], l[2]) \/ Splits(l[1], l[2])
      PROVE  AllTurn(end', net', umode')
  BY <1>1, <1>4, HearsTurns, ConnectsTurns, BurstsTurns, SplitsTurns
<1>5. UserNext => AllTurn(end', net', umode')
  BY <1>3, <1>4 DEF UserNext
<1> QED
  BY <1>1, <1>2, <1>5 DEF ModeInv

(* With a link up, its ends know no users but those on the two sides.      *)
LEMMA NobodyBeyond ==
  ASSUME UserInv, NEW l \in Link, NEW u \in Client, umode[l[1]][u] # Unknown
  PROVE  HomeOf[u] \in Behind[l] \/ HomeOf[u] \in Behind[Rev(l)]
<1> DEFINE s == l[1]
<1>1. /\ s \in Server /\ l = <<s, l[2]>> /\ Rev(l) \in Link /\ Rev(l)[1] = l[2] /\ Rev(l)[2] = s
      /\ s \in Behind[Rev(l)]
  BY LinkFacts
<1>2. \A k \in Link : k[1] = s /\ k[2] # l[2] => Behind[k] \subseteq Behind[Rev(l)]
  BY <1>1, LinkFacts, Zenon
<1>3. u \in Users[s]
  BY <1>1, UsersAre
<1>4. HomeOf[u] = s \/ \E k \in Link : k[1] = s /\ HomeOf[u] \in Behind[k]
  BY <1>1, <1>3 DEF UserInv, Introduced, Reached
<1>5. ASSUME NEW k \in Link, k[1] = s, HomeOf[u] \in Behind[k]
      PROVE  HomeOf[u] \in Behind[l] \/ HomeOf[u] \in Behind[Rev(l)]
  <2>1. k = <<k[1], k[2]>>
    BY LinkFacts
  <2>2. k[2] = l[2] => k = l
    BY <1>1, <1>5, <2>1
  <2> QED
    BY <1>2, <1>5, <2>2
<1> QED
  BY <1>1, <1>4, <1>5

LEMMA ModesAgreeThen == ModeInv => ModesAgree
<1> SUFFICES ASSUME ModeInv, NEW l \in Link, Settled(l)
             PROVE  umode[l[1]] = umode[l[2]]
  BY DEF ModesAgree
<1>1. UserInv /\ UserTypeOK /\ AllTurn(end, net, umode)
  BY DEF ModeInv, UserInv
<1>2. /\ l[1] \in Server /\ l[2] \in Server /\ Rev(l) \in Link
      /\ Rev(Rev(l)) = l /\ Rev(l)[1] = l[2] /\ Rev(l)[2] = l[1]
  BY LinkFacts
<1>3. net[l] = <<>> /\ net[Rev(l)] = <<>> /\ Live(l, end) /\ Live(Rev(l), end)
  BY <1>2 DEF Settled, Idle, Live
<1>4. ASSUME NEW k \in Link, net[k] = <<>>, Live(k, end),
             NEW u \in Client, HomeOf[u] \in Behind[Rev(k)]
      PROVE  umode[k[2]][u] = umode[k[1]][u]
  <2>1. PICK B \in UModes : Turns(<<>>, u, umode[k[2]][u], B) /\ B = umode[k[1]][u]
    BY <1>1, <1>4 DEF AllTurn, LinkTurns
  <2> QED
    BY <2>1, TurnsNothing
<1>5. ASSUME NEW u \in Client PROVE umode[l[1]][u] = umode[l[2]][u]
  <2>1. CASE HomeOf[u] \in Behind[Rev(l)]
    BY <1>3, <1>4, <2>1
  <2>2. CASE HomeOf[u] \in Behind[l]
    BY <1>2, <1>3, <1>4, <2>2
  <2>3. CASE HomeOf[u] \notin Behind[l] /\ HomeOf[u] \notin Behind[Rev(l)]
    <3>1. umode[l[1]][u] = Unknown
      BY <1>1, <2>3, NobodyBeyond
    <3>2. umode[l[2]][u] = Unknown
      BY <1>1, <1>2, <2>3, NobodyBeyond
    <3> QED
      BY <3>1, <3>2
  <2> QED
    BY <2>1, <2>2, <2>3
<1>6. /\ umode[l[1]] \in [Client -> (SUBSET UMode) \cup {Unknown}]
      /\ umode[l[2]] \in [Client -> (SUBSET UMode) \cup {Unknown}]
  BY <1>1, <1>2 DEF UserTypeOK
<1> QED
  BY <1>5, <1>6

(* When nothing is under way, the two servers at the ends of a link have   *)
(* the same users with the same modes: client_burst says all modes,        *)
(* usermode_parse drops what changes nothing before a change is applied    *)
(* and told, so each server down the line (ms_umode) makes of its copy     *)
(* what the one before made of its own.                                    *)
THEOREM ModesAlwaysAgree == UserSpec => []ModesAgree
<1>1. UserInit /\ LinkInit => ModeInv
  BY ModeInitKeeps
<1>2. ModeInv /\ [UserNext]_userVars => ModeInv'
  BY ModeStepKeeps
<1>3. ModeInv => ModesAgree
  BY ModesAgreeThen
<1> QED
  BY <1>1, <1>2, <1>3, PTL DEF UserSpec
=============================================================================
