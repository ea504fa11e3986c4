---------------------------- MODULE RoutingProofs ----------------------------
(***************************************************************************)
(* Routing for every topology: the search finds all shortest paths, the    *)
(* tables and the NICs of the queue pairs follow every failure, and the    *)
(* assertion of GetNicIdxOfQp fails only when two hosts are separated.     *)
(***************************************************************************)
EXTENDS Routing, FiniteSetTheorems, WellFoundedInduction, SequenceTheorems, TLAPS

\* Who forwards in the search from host h.
Via(h) == Switch \cup {h}

\* A link that is up is up from both ends.
Symmetric(links) ==
  /\ links \in SUBSET (Node \X Node)
  /\ \A a, b \in Node : <<a, b>> \in links => <<b, a>> \in links

\* A search in which the neighbours of the first i nodes of the queue have been
\* looked at.  The queue is sorted by distance, and no distance is beyond that
\* of the node that is next by more than one.
Done(s, i) == {s.q[j] : j \in 1..i}

New(links, s, m) == {n \in Node : <<m, n>> \in links} \ DOMAIN s.dis

Hop(links, s, m, n) == <<m, n>> \in links /\ n \in DOMAIN s.dis /\ s.dis[n] = s.dis[m] + 1

Searches ==
  {s \in [q : Seq(Node), dis : UNION {[D -> Nat] : D \in SUBSET Node},
          hops : [Node -> Seq(Node)]] :
    \A j \in 1..Len(s.q) : s.q[j] \in DOMAIN s.dis}

Queued(h, s) ==
  /\ Len(s.q) >= 1 /\ s.q[1] = h
  /\ \A j, k \in 1..Len(s.q) : s.q[j] = s.q[k] => j = k
  /\ \A j \in 1..Len(s.q) : s.q[j] \in DOMAIN s.dis \cap Via(h)
  /\ \A n \in DOMAIN s.dis \cap Via(h) : \E j \in 1..Len(s.q) : s.q[j] = n

Sorted(h, s, i) ==
  /\ \A n \in DOMAIN s.dis : s.dis[n] = 0 <=> n = h
  /\ \A j, k \in 1..Len(s.q) : j <= k => s.dis[s.q[j]] <= s.dis[s.q[k]]
  /\ \A j \in 1..Len(s.q) : s.dis[s.q[j]] < j
  /\ i < Len(s.q) => \A n \in DOMAIN s.dis : s.dis[n] <= s.dis[s.q[i + 1]] + 1

Closed(links, s, i) ==
  \A m \in Done(s, i), n \in Node :
    <<m, n>> \in links => n \in DOMAIN s.dis /\ s.dis[n] <= s.dis[m] + 1

Found(links, h, s, i) ==
  /\ \A n \in DOMAIN s.dis \ {h} : \E m \in Done(s, i) : Hop(links, s, m, n)
  /\ \A n \in Node : /\ IsInjective(s.hops[n])
                     /\ ToSet(s.hops[n]) = {m \in Done(s, i) : Hop(links, s, m, n)}

SearchInv(links, h, s, i) ==
  /\ i \in 0..Len(s.q)
  /\ s \in Searches /\ Queued(h, s) /\ Sorted(h, s, i)
  /\ Closed(links, s, i) /\ Found(links, h, s, i)

\* The tables are those of the links that are up.
Routes(links) == [n \in Node |-> [h \in Host |-> CalculateRoute(links, h)[n]]]

TablesFollow == rtTable = Routes(up)

\* The NIC of a live queue pair is the one its hash selects, and there is one.
Nic(f) == GetNicIdxOfQp(rtTable[f.src][f.dst], f.hash)

GroupsFollow ==
  \A f \in Qp :
    /\ status[f] = "live" => rtTable[f.src][f.dst] # <<>>
    /\ \A n \in Node : f \in qpGrp[f.src][n] <=> status[f] = "live" /\ n = Nic(f)

\* A packet under way reaches a switch or its receiver next.
PacketsFollow ==
  /\ DOMAIN net = PktId
  /\ \A i \in PktId : net[i] # None =>
       net[i].qp \in Qp /\ net[i].to \in Switch \cup {net[i].qp.dst}

RoutingType ==
  /\ Symmetric(up)
  /\ status \in [Qp -> {"new", "live", "done"}]
  /\ qpGrp \in [Host -> [Node -> SUBSET Qp]]
  /\ aborted \in BOOLEAN

Inv == /\ RoutingType /\ TablesFollow /\ PacketsFollow
       /\ ~ aborted => GroupsFollow
       /\ AbortOnlyWhenCut
-----------------------------------------------------------------------------
(***************************************************************************)
(* Numbers, and what a recursive function is.                              *)
(***************************************************************************)
\* A nonempty set of natural numbers has a least element.
LEMMA LeastNat ==
  ASSUME NEW S \in SUBSET Nat, S # {}
  PROVE  \E x \in S : \A y \in S : x <= y
  <1> DEFINE R == OpToRel(<, Nat)
  <1>1. \E x \in S : \A y \in S : <<y, x>> \notin R
    BY NatLessThanWellFounded, WFMin
  <1>2. PICK x \in S : \A y \in S : <<y, x>> \notin R
    BY <1>1
  <1>3. ASSUME NEW y \in S PROVE x <= y
    <2>1. ~ (y < x)
      BY <1>2 DEF OpToRel
    <2> QED BY <2>1
  <1> QED BY <1>3

\* A set that holds 0 and the successor of each of its elements is Nat.
LEMMA SetInduction ==
  ASSUME NEW G \in SUBSET Nat, 0 \in G, \A n \in G : n + 1 \in G
  PROVE  G = Nat
  <1> DEFINE X == Nat \ G
  <1> SUFFICES ASSUME X # {} PROVE FALSE
    OBVIOUS
  <1>1. PICK x \in X : \A y \in X : x <= y
    BY LeastNat
  <1>2. x \in Nat /\ x # 0 /\ x \notin G
    OBVIOUS
  <1>3. x - 1 \in Nat /\ ~ (x <= x - 1) /\ (x - 1) + 1 = x
    BY <1>2
  <1>4. x - 1 \in G
    BY <1>1, <1>3
  <1>5. (x - 1) + 1 \in G
    BY <1>4
  <1> QED BY <1>2, <1>3, <1>5

Iteration(f, S, a, F) ==
  f \in [Nat -> S] /\ f[0] = a /\ \A n \in Nat : f[n + 1] = F[n + 1][f[n]]

\* A start in S and the steps F of S define a sequence of elements of S.
LEMMA Iterate ==
  ASSUME NEW S, NEW a \in S, NEW F \in [Nat -> [S -> S]]
  PROVE  \E f : Iteration(f, S, a, F)
  <1> DEFINE Part(k, g) == /\ g \in [0..k -> S] /\ g[0] = a
                           /\ \A n \in 0..(k - 1) : g[n + 1] = F[n + 1][g[n]]
  <1>1. \A n \in Nat : \A x \in S : F[n + 1][x] \in S
    OBVIOUS
  <1>2. \A k \in Nat : \E g : Part(k, g)
    <2> DEFINE G == {k \in Nat : \E g : Part(k, g)}
    <2>1. 0 \in G
      <3> DEFINE g0 == [n \in 0..0 |-> a]
      <3>1. Part(0, g0)
        OBVIOUS
      <3> QED BY <3>1
    <2>2. ASSUME NEW k \in G PROVE k + 1 \in G
      <3>1. PICK g : Part(k, g)
        OBVIOUS
      <3> DEFINE e == [n \in 0..(k + 1) |-> IF n = k + 1 THEN F[k + 1][g[k]] ELSE g[n]]
      <3>2. k \in Nat /\ g[k] \in S
        BY <3>1
      <3>3. F[k + 1][g[k]] \in S
        BY <1>1, <3>2
      <3>4. \A n \in 0..(k + 1) : n # k + 1 => n \in 0..k
        BY <3>2
      <3>5. e \in [0..(k + 1) -> S]
        BY <3>1, <3>3, <3>4
      <3>6. e[0] = a
        BY <3>1, <3>2
      <3>7. ASSUME NEW n \in 0..((k + 1) - 1) PROVE e[n + 1] = F[n + 1][e[n]]
        <4>1. n \in 0..k /\ n # k + 1 /\ n \in 0..(k + 1) /\ n + 1 \in 0..(k + 1)
          BY <3>2
        <4>2. e[n] = g[n]
          BY <4>1
        <4>3. CASE n = k
          BY <4>1, <4>2, <4>3
        <4>4. CASE n # k
          <5>1. n \in 0..(k - 1) /\ n + 1 # k + 1
            BY <3>2, <4>1, <4>4
          <5>2. e[n + 1] = g[n + 1]
            BY <4>1, <5>1
          <5> QED BY <3>1, <4>2, <5>1, <5>2
        <4> QED BY <4>3, <4>4
      <3> HIDE DEF e
      <3>8. Part(k + 1, e)
        BY <3>5, <3>6, <3>7
      <3> QED BY <3>2, <3>8
    <2>3. G = Nat
      <3> HIDE DEF G
      <3>1. G \in SUBSET Nat
        BY DEF G
      <3> QED BY <2>1, <2>2, <3>1, SetInduction
    <2> QED BY <2>3
  <1>3. ASSUME NEW k \in Nat, NEW g, Part(k, g), NEW l \in Nat, NEW e, Part(l, e)
        PROVE  \A n \in Nat : n <= k /\ n <= l => g[n] = e[n]
    <2> DEFINE G == {n \in Nat : n <= k /\ n <= l => g[n] = e[n]}
    <2>1. 0 \in G
      BY <1>3
    <2>2. ASSUME NEW n \in G PROVE n + 1 \in G
      <3> SUFFICES ASSUME n + 1 <= k, n + 1 <= l PROVE g[n + 1] = e[n + 1]
        OBVIOUS
      <3>1. n \in 0..(k - 1) /\ n \in 0..(l - 1) /\ g[n] = e[n]
        OBVIOUS
      <3> QED BY <1>3, <3>1
    <2>3. G = Nat
      <3> HIDE DEF G
      <3>1. G \in SUBSET Nat
        BY DEF G
      <3> QED BY <2>1, <2>2, <3>1, SetInduction
    <2> QED BY <2>3
  <1> DEFINE P(n) == CHOOSE g : Part(n, g)
             f == [n \in Nat |-> P(n)[n]]
  <1>4. \A n \in Nat : Part(n, P(n))
    <2> HIDE DEF Part
    <2> QED BY <1>2, Zenon
  <1> HIDE DEF P
  <1>5. \A n \in Nat : P(n)[n] \in S
    BY <1>4
  <1>6. f \in [Nat -> S]
    BY <1>5
  <1>7. f[0] = a
    BY <1>4
  <1>8. ASSUME NEW n \in Nat PROVE f[n + 1] = F[n + 1][f[n]]
    <2>1. n + 1 \in Nat /\ n <= n + 1 /\ n <= n /\ n \in 0..((n + 1) - 1)
      OBVIOUS
    <2>2. P(n + 1)[n] = P(n)[n]
      <3> HIDE DEF Part
      <3>1. Part(n + 1, P(n + 1)) /\ Part(n, P(n))
        BY <1>4, <2>1
      <3> QED BY <1>3, <2>1, <3>1
    <2>3. P(n + 1)[n + 1] = F[n + 1][P(n + 1)[n]]
      BY <1>4, <2>1
    <2> QED BY <2>1, <2>2, <2>3
  <1> HIDE DEF f
  <1>9. Iteration(f, S, a, F)
    BY <1>6, <1>7, <1>8 DEF Iteration
  <1> QED BY <1>9
-----------------------------------------------------------------------------
(***************************************************************************)
(* The reference, the order of a map, and one round of the search.         *)
(***************************************************************************)
\* What the reference computes: h alone, and then one hop more each time.
LEMMA BallDef ==
  ASSUME NEW links, NEW h \in Node
  PROVE  /\ Ball(links, h)[0] = {h}
         /\ \A k \in Nat :
              /\ Ball(links, h)[k] \in SUBSET Node
              /\ Ball(links, h)[k + 1] = Ball(links, h)[k] \cup
                   {n \in Node : \E m \in Ball(links, h)[k] \cap (Switch \cup {h}) :
                                   <<n, m>> \in links}
  <1> DEFINE S == SUBSET Node
             st(b) == b \cup {n \in Node : \E m \in b \cap (Switch \cup {h}) : <<n, m>> \in links}
             F == [k \in Nat |-> [b \in S |-> st(b)]]
             B == Ball(links, h)
  <1>1. F \in [Nat -> [S -> S]] /\ {h} \in S
    OBVIOUS
  <1>2. \A n \in Nat, b \in S : F[n + 1][b] = st(b)
    <2> HIDE DEF S, st
    <2>1. ASSUME NEW k \in Nat, NEW b \in S PROVE F[k][b] = st(b)
      OBVIOUS
    <2>2. \A n \in Nat : n + 1 \in Nat
      OBVIOUS
    <2> HIDE DEF F
    <2> QED BY <2>1, <2>2
  <1> HIDE DEF S, F, st, B
  <1>3. PICK f : f \in [Nat -> S] /\ f[0] = {h} /\ \A n \in Nat : f[n + 1] = F[n + 1][f[n]]
    <2>1. \E f : Iteration(f, S, {h}, F)
      BY <1>1, Iterate
    <2> QED BY <2>1, Zenon DEF Iteration
  <1>4. \A n \in Nat : f[n] \in S /\ f[n + 1] = st(f[n])
    BY <1>2, <1>3
  <1>5. \A j \in Nat : f[j] = IF j = 0 THEN {h} ELSE st(f[j - 1])
    BY <1>3, <1>4
  <1>6. f = [j \in Nat |-> IF j = 0 THEN {h} ELSE st(f[j - 1])]
    BY <1>3, <1>5
  <1>7. \E g : g = [j \in Nat |-> IF j = 0 THEN {h} ELSE st(g[j - 1])]
    BY <1>6
  <1>8. B = [j \in Nat |-> IF j = 0 THEN {h} ELSE st(B[j - 1])]
    BY <1>7, Zenon DEF Ball, st, B
  <1>9. B[0] = {h} /\ \A k \in Nat : B[k + 1] = st(B[k])
    <2>1. \A k \in Nat : k + 1 \in Nat /\ k + 1 # 0 /\ (k + 1) - 1 = k
      OBVIOUS
    <2> QED BY <1>8, <2>1
  <1>10. \A k \in Nat : B[k] \in S
    <2> DEFINE G == {k \in Nat : B[k] \in S}
    <2>1. 0 \in G
      BY <1>1, <1>9
    <2>2. ASSUME NEW k \in G PROVE k + 1 \in G
      <3>1. st(B[k]) \in S
        BY DEF S, st
      <3> QED BY <1>9, <3>1
    <2>3. G = Nat
      <3> HIDE DEF G
      <3>1. G \in SUBSET Nat
        BY DEF G
      <3> QED BY <2>1, <2>2, <3>1, SetInduction
    <2> QED BY <2>3
  <1> QED BY <1>9, <1>10 DEF S, st, B

\* InOrder(S) is S as a sequence, each element once.
LEMMA InOrderOf ==
  ASSUME NEW S \in SUBSET Node
  PROVE  /\ InOrder(S) \in Seq(S)
         /\ \A p, r \in 1..Len(InOrder(S)) : InOrder(S)[p] = InOrder(S)[r] => p = r
         /\ \A n \in S : \E p \in 1..Len(InOrder(S)) : InOrder(S)[p] = n
  <1> DEFINE c == Cardinality(S)
             P(i) == {j \in S : j <= i}
             f == [i \in S |-> Cardinality(P(i))]
  <1>1. IsFiniteSet(S) /\ c \in Nat /\ \A i \in S : i \in Int
    <2>1. IsFiniteSet(Node) /\ Node \subseteq Nat
      BY NodeAssumption
    <2> HIDE DEF Node
    <2>2. IsFiniteSet(S)
      BY <2>1, FS_Subset
    <2> QED BY <2>1, <2>2, FS_CardinalityType
  <1>2. \A i \in S : /\ IsFiniteSet(P(i)) /\ Cardinality(P(i)) \in Nat
                     /\ Cardinality(P(i)) <= c
    BY <1>1, FS_Subset, FS_CardinalityType
  <1>3. \A i \in S : P(i) # {}
    BY <1>1
  <1>4. \A i \in S : Cardinality(P(i)) # 0
    BY <1>2, <1>3, FS_EmptySet
  <1>5. f \in [S -> 1..c]
    BY <1>1, <1>2, <1>4
  <1>6. ASSUME NEW i \in S, NEW j \in S, i < j PROVE f[i] # f[j]
    <2>1. P(i) \in SUBSET P(j) /\ j \in P(j) /\ j \notin P(i)
      <3>1. \A k \in S : k <= i => k <= j
        BY <1>1, <1>6
      <3>2. j <= j /\ ~ (j <= i)
        BY <1>1, <1>6
      <3> QED BY <3>1, <3>2, Zenon
    <2>2. Cardinality(P(i)) # Cardinality(P(j))
      BY <1>2, <2>1, FS_Subset
    <2> QED BY <2>2
  <1> HIDE DEF c
  <1>7. \A i, j \in S : f[i] = f[j] => i = j
    <2> HIDE DEF f
    <2> SUFFICES ASSUME NEW i \in S, NEW j \in S, i # j PROVE f[i] # f[j]
      OBVIOUS
    <2>1. i < j \/ j < i
      BY <1>1
    <2> QED BY <1>6, <2>1
  <1>8. IsFiniteSet(1..c) /\ Cardinality(1..c) = c
    BY <1>1, FS_Interval
  <1>9. f \in Injection(S, 1..c)
    <2> HIDE DEF f
    <2> QED BY <1>5, <1>7 DEF Injection, IsInjective
  <1>10. f \in Surjection(S, 1..c)
    <2> HIDE DEF f
    <2> QED BY <1>1, <1>8, <1>9, FS_Injection DEF c
  <1>11. \A p \in 1..c : \E i \in S : f[i] = p
    BY <1>10 DEF Surjection
  <1> DEFINE At(p) == CHOOSE n \in S : Cardinality({m \in S : m <= n}) = p
             o == InOrder(S)
  <1>12. \A p \in 1..c : At(p) \in S /\ f[At(p)] = p
    BY <1>11
  <1>13. o = [p \in 1..c |-> At(p)]
    BY DEF InOrder, c
  <1> HIDE DEF f, At, o
  <1>14. o \in [1..c -> S] /\ \A p \in 1..c : o[p] \in S /\ f[o[p]] = p
    BY <1>12, <1>13
  <1>15. o \in Seq(S) /\ Len(o) = c
    BY <1>1, <1>14
  <1>16. \A p, r \in 1..c : o[p] = o[r] => p = r
    BY <1>14
  <1>17. \A n \in S : f[n] \in 1..c /\ o[f[n]] = n
    BY <1>5, <1>7, <1>14
  <1> QED BY <1>15, <1>16, <1>17 DEF o

LEMMA SeqWithin ==
  ASSUME NEW S, NEW T, NEW x \in Seq(S), \A j \in 1..Len(x) : x[j] \in T
  PROVE  x \in Seq(T)
  <1>1. x \in [1..Len(x) -> S] /\ Len(x) \in Nat
    OBVIOUS
  <1>2. x \in [1..Len(x) -> T]
    BY <1>1
  <1> QED BY <1>1, <1>2

\* The fields of a search.
LEMMA SearchFields ==
  ASSUME NEW s \in Searches
  PROVE  /\ s.q \in Seq(Node) /\ Len(s.q) \in Nat
         /\ DOMAIN s.dis \in SUBSET Node /\ s.dis \in [DOMAIN s.dis -> Nat]
         /\ s.hops \in [Node -> Seq(Node)]
         /\ \A j \in 1..Len(s.q) : s.q[j] \in DOMAIN s.dis
  <1>1. /\ s.q \in Seq(Node) /\ s.hops \in [Node -> Seq(Node)]
        /\ s.dis \in UNION {[D -> Nat] : D \in SUBSET Node}
        /\ \A j \in 1..Len(s.q) : s.q[j] \in DOMAIN s.dis
    BY DEF Searches
  <1>2. PICK D \in SUBSET Node : s.dis \in [D -> Nat]
    BY <1>1
  <1>3. DOMAIN s.dis = D
    BY <1>2
  <1> QED BY <1>1, <1>2, <1>3

\* One round of the search: the new nodes are one hop further than the node it
\* looks at, and the new switches are queued.
Round(links, s, now, e) ==
  /\ e \in Searches
  /\ e.q = s.q \o InOrder(New(links, s, now) \cap Switch)
  /\ DOMAIN e.dis = DOMAIN s.dis \cup New(links, s, now)
  /\ \A n \in New(links, s, now) : e.dis[n] = s.dis[now] + 1
  /\ \A n \in DOMAIN s.dis : e.dis[n] = s.dis[n]
  /\ \A n \in Node :
       e.hops[n] = IF <<now, n>> \in links /\ e.dis[n] = s.dis[now] + 1
                   THEN Append(s.hops[n], now) ELSE s.hops[n]

LEMMA Expanded ==
  ASSUME NEW links, NEW s \in Searches, NEW now \in DOMAIN s.dis,
         NEW e, e = Expand(links, s, now)
  PROVE  Round(links, s, now, e)
  <1>1. /\ s.q \in Seq(Node) /\ Len(s.q) \in Nat
        /\ DOMAIN s.dis \in SUBSET Node /\ s.dis \in [DOMAIN s.dis -> Nat]
        /\ s.hops \in [Node -> Seq(Node)]
        /\ \A j \in 1..Len(s.q) : s.q[j] \in DOMAIN s.dis
    BY SearchFields
  <1> DEFINE new == New(links, s, now)
             D == DOMAIN s.dis
             d == s.dis[now] + 1
             dis == [n \in D \cup new |-> IF n \in new THEN d ELSE s.dis[n]]
             o == InOrder(new \cap Switch)
             hops == [n \in Node |-> IF n \in {m \in Node : <<now, m>> \in links} /\ dis[n] = d
                                     THEN Append(s.hops[n], now) ELSE s.hops[n]]
  <1>2. e = [q |-> s.q \o o, dis |-> dis, hops |-> hops]
    BY DEF Expand, New
  <1>3. new \in SUBSET Node /\ new \cap D = {} /\ d \in Nat /\ now \in Node
    BY <1>1 DEF New
  <1>4. /\ o \in Seq(new \cap Switch) /\ Len(o) \in Nat
    <2>1. o \in Seq(new \cap Switch)
      BY <1>3, InOrderOf
    <2> QED BY <2>1
  <1> HIDE DEF Round, o, new
  <1>5. dis \in [D \cup new -> Nat]
    BY <1>1, <1>3
  <1>6. \A n \in Node : Append(s.hops[n], now) \in Seq(Node) /\ s.hops[n] \in Seq(Node)
    BY <1>1, <1>3
  <1>7. hops \in [Node -> Seq(Node)]
    BY <1>6
  <1>8. \A n \in Node : hops[n] = IF <<now, n>> \in links /\ dis[n] = d
                                  THEN Append(s.hops[n], now) ELSE s.hops[n]
    OBVIOUS
  <1>9. /\ DOMAIN dis = D \cup new /\ \A n \in new : dis[n] = d
        /\ \A n \in D : dis[n] = s.dis[n]
    BY <1>3
  <1> HIDE DEF dis, hops
  <1>10. s.q \o o \in Seq(Node) /\ \A j \in 1..Len(s.q \o o) : (s.q \o o)[j] \in D \cup new
    <2>1. s.q \in Seq(D \cup new) /\ o \in Seq(D \cup new)
      <3>1. \A j \in 1..Len(s.q) : s.q[j] \in D \cup new
        BY <1>1
      <3>2. \A j \in 1..Len(o) : o[j] \in D \cup new
        BY <1>4
      <3> HIDE DEF D
      <3> QED BY <1>1, <1>4, <3>1, <3>2, SeqWithin
    <2>2. s.q \o o \in Seq(D \cup new)
      BY <2>1
    <2>3. D \cup new \in SUBSET Node
      BY <1>1, <1>3
    <2> HIDE DEF D
    <2> QED BY <2>2, <2>3
  <1>11. D \cup new \in SUBSET Node
    BY <1>1, <1>3
  <1>12. dis \in UNION {[E -> Nat] : E \in SUBSET Node}
    BY <1>5, <1>11
  <1>13. e.q = s.q \o o /\ e.dis = dis /\ e.hops = hops
    BY <1>2
  <1>14. e \in Searches
    <2>1. e \in [q : Seq(Node), dis : UNION {[E -> Nat] : E \in SUBSET Node},
                 hops : [Node -> Seq(Node)]]
      BY <1>2, <1>7, <1>10, <1>12
    <2>2. \A j \in 1..Len(e.q) : e.q[j] \in DOMAIN e.dis
      BY <1>9, <1>10, <1>13
    <2> QED BY <2>1, <2>2 DEF Searches
  <1> QED BY <1>8, <1>9, <1>13, <1>14 DEF Round, o, new

Start(h) == [q |-> <<h>>, dis |-> [n \in {h} |-> 0], hops |-> [n \in Node |-> <<>>]]

LEMMA StartIsSearch ==
  ASSUME NEW h \in Node
  PROVE  Start(h) \in Searches
  <1> DEFINE z == [n \in {h} |-> 0]
  <1>1. <<h>> \in Seq(Node) /\ [n \in Node |-> <<>>] \in [Node -> Seq(Node)]
    OBVIOUS
  <1>2. z \in [{h} -> Nat] /\ {h} \in SUBSET Node /\ DOMAIN z = {h}
    OBVIOUS
  <1>3. z \in UNION {[D -> Nat] : D \in SUBSET Node}
    BY <1>2
  <1>4. \A j \in 1..Len(<<h>>) : <<h>>[j] = h
    OBVIOUS
  <1> HIDE DEF z
  <1>5. Start(h) = [q |-> <<h>>, dis |-> z, hops |-> [n \in Node |-> <<>>]]
    BY DEF Start, z
  <1>6. Start(h) \in [q : Seq(Node), dis : UNION {[D -> Nat] : D \in SUBSET Node},
                      hops : [Node -> Seq(Node)]]
    BY <1>1, <1>3, <1>5
  <1>7. Start(h).q = <<h>> /\ Start(h).dis = z
    BY <1>5
  <1> QED BY <1>2, <1>4, <1>6, <1>7 DEF Searches

\* What the search of the model computes, round by round.
LEMMA SearchDef ==
  ASSUME NEW links, NEW h \in Node
  PROVE  /\ Search(links, h)[0] = Start(h)
         /\ \A k \in Nat :
              LET s == Search(links, h)[k]
              IN  /\ s \in Searches
                  /\ Search(links, h)[k + 1] =
                       IF k + 1 <= Len(s.q) THEN Expand(links, s, s.q[k + 1]) ELSE s
  <1> DEFINE st(k, s) == IF k <= Len(s.q) THEN Expand(links, s, s.q[k]) ELSE s
             B == Search(links, h)
  <1>1. ASSUME NEW k \in Nat, k # 0, NEW s \in Searches PROVE st(k, s) \in Searches
    <2>1. CASE k <= Len(s.q)
      <3>1. Len(s.q) \in Nat /\ k \in 1..Len(s.q)
        BY <1>1, <2>1, SearchFields
      <3>2. s.q[k] \in DOMAIN s.dis
        BY <3>1, SearchFields
      <3>3. Expand(links, s, s.q[k]) \in Searches
        BY <3>2, Expanded DEF Round
      <3> QED BY <2>1, <3>3
    <2>2. CASE ~ (k <= Len(s.q))
      BY <2>2
    <2> QED BY <2>1, <2>2
  <1> DEFINE E == [k \in Nat |-> [s \in Searches |-> IF k = 0 THEN s ELSE st(k, s)]]
  <1> HIDE DEF st
  <1>2. E \in [Nat -> [Searches -> Searches]]
    BY <1>1
  <1>3. \A n \in Nat, s \in Searches : E[n + 1][s] = st(n + 1, s)
    OBVIOUS
  <1> HIDE DEF E, B
  <1>4. PICK f : /\ f \in [Nat -> Searches] /\ f[0] = Start(h)
                 /\ \A n \in Nat : f[n + 1] = E[n + 1][f[n]]
    <2>1. \E f : Iteration(f, Searches, Start(h), E)
      BY <1>2, StartIsSearch, Iterate
    <2> QED BY <2>1, Zenon DEF Iteration
  <1>5. \A n \in Nat : f[n] \in Searches /\ f[n + 1] = st(n + 1, f[n])
    BY <1>3, <1>4
  <1>6. \A j \in Nat : f[j] = IF j = 0 THEN Start(h) ELSE st(j, f[j - 1])
    <2> SUFFICES ASSUME NEW j \in Nat, j # 0 PROVE f[j] = st(j, f[j - 1])
      BY <1>4
    <2>1. j - 1 \in Nat /\ (j - 1) + 1 = j
      OBVIOUS
    <2> QED BY <1>5, <2>1
  <1>7. f = [j \in Nat |-> IF j = 0 THEN Start(h) ELSE st(j, f[j - 1])]
    BY <1>4, <1>6
  <1>8. \E g : g = [j \in Nat |-> IF j = 0 THEN Start(h) ELSE st(j, g[j - 1])]
    BY <1>7
  <1>9. B = [j \in Nat |-> IF j = 0 THEN Start(h) ELSE st(j, B[j - 1])]
    BY <1>8, Zenon DEF Search, Start, st, B
  <1>10. B[0] = Start(h) /\ \A k \in Nat : B[k + 1] = st(k + 1, B[k])
    <2>1. \A k \in Nat : k + 1 \in Nat /\ k + 1 # 0 /\ (k + 1) - 1 = k
      OBVIOUS
    <2> QED BY <1>9, <2>1
  <1>11. \A k \in Nat : B[k] \in Searches
    <2> DEFINE G == {k \in Nat : B[k] \in Searches}
    <2>1. 0 \in G
      BY <1>10, StartIsSearch
    <2>2. ASSUME NEW k \in G PROVE k + 1 \in G
      <3>1. k + 1 \in Nat /\ k + 1 # 0
        OBVIOUS
      <3>2. st(k + 1, B[k]) \in Searches
        BY <1>1, <3>1
      <3> QED BY <1>10, <3>1, <3>2
    <2>3. G = Nat
      <3> HIDE DEF G
      <3>1. G \in SUBSET Nat
        BY DEF G
      <3> QED BY <2>1, <2>2, <3>1, SetInduction
    <2> QED BY <2>3
  <1> QED BY <1>10, <1>11 DEF st, B
-----------------------------------------------------------------------------
(***************************************************************************)
(* The invariant of the search.                                            *)
(***************************************************************************)
LEMMA StartInv ==
  ASSUME NEW links, NEW h \in Node
  PROVE  SearchInv(links, h, Start(h), 0)
  <1> DEFINE s == Start(h)
  <1>1. /\ s.q = <<h>> /\ s.dis = [n \in {h} |-> 0] /\ s.hops = [n \in Node |-> <<>>]
    BY DEF Start
  <1> HIDE DEF s
  <1>2. /\ Len(s.q) = 1 /\ s.q[1] = h /\ DOMAIN s.dis = {h} /\ s.dis[h] = 0
        /\ \A n \in Node : s.hops[n] = <<>>
    BY <1>1
  <1>3. s \in Searches
    BY StartIsSearch DEF s
  <1>4. Done(s, 0) = {}
    BY DEF Done
  <1>5. Queued(h, s)
    BY <1>2 DEF Queued, Via
  <1>6. Sorted(h, s, 0)
    BY <1>2 DEF Sorted
  <1>7. Closed(links, s, 0)
    BY <1>4 DEF Closed
  <1>8. Found(links, h, s, 0)
    <2>1. IsInjective(<<>>) /\ ToSet(<<>>) = {}
      BY DEF IsInjective, ToSet
    <2> QED BY <1>2, <1>4, <2>1 DEF Found
  <1>9. 0 \in 0..Len(s.q)
    BY <1>2
  <1> QED BY <1>3, <1>5, <1>6, <1>7, <1>8, <1>9 DEF SearchInv, s

\* The queue of the next round.
Longer(links, s, now, e) ==
  /\ Len(e.q) \in Nat /\ Len(s.q) <= Len(e.q)
  /\ \A j \in 1..Len(s.q) : e.q[j] = s.q[j]
  /\ \A j \in 1..Len(e.q) : j > Len(s.q) => e.q[j] \in New(links, s, now) \cap Switch
  /\ \A j, k \in 1..Len(e.q) : j > Len(s.q) /\ k > Len(s.q) /\ e.q[j] = e.q[k] => j = k
  /\ \A n \in New(links, s, now) \cap Switch : \E j \in 1..Len(e.q) : e.q[j] = n

LEMMA LongerQueue ==
  ASSUME NEW links, NEW s \in Searches, NEW now \in DOMAIN s.dis,
         NEW e, e = Expand(links, s, now)
  PROVE  Longer(links, s, now, e)
  <1> DEFINE new == New(links, s, now) \cap Switch
             o == InOrder(new)
  <1>1. s.q \in Seq(Node) /\ Len(s.q) \in Nat
    BY SearchFields
  <1>2. new \in SUBSET Node
    BY DEF New
  <1>3. e.q = s.q \o o
    <2> HIDE DEF new, o
    <2>1. Round(links, s, now, e)
      BY Expanded
    <2> QED BY <2>1 DEF Round, new, o
  <1> HIDE DEF new
  <1>4. /\ o \in Seq(new)
        /\ \A p, r \in 1..Len(o) : o[p] = o[r] => p = r
        /\ \A n \in new : \E p \in 1..Len(o) : o[p] = n
    BY <1>2, InOrderOf
  <1> HIDE DEF o
  <1>5. Len(o) \in Nat /\ \A p \in 1..Len(o) : o[p] \in new
    BY <1>4
  <1>6. o \in Seq(Node)
    BY <1>2, <1>4, <1>5, SeqWithin
  <1>7. /\ Len(e.q) = Len(s.q) + Len(o)
        /\ \A j \in 1..Len(e.q) : e.q[j] = IF j <= Len(s.q) THEN s.q[j] ELSE o[j - Len(s.q)]
    BY <1>1, <1>3, <1>6
  <1>8. \A j \in 1..Len(s.q) : j \in 1..Len(e.q) /\ e.q[j] = s.q[j]
    BY <1>1, <1>5, <1>7
  <1>9. \A j \in 1..Len(e.q) : j > Len(s.q) => j - Len(s.q) \in 1..Len(o) /\ e.q[j] = o[j - Len(s.q)]
    BY <1>1, <1>5, <1>7
  <1>10. ASSUME NEW n \in new PROVE \E j \in 1..Len(e.q) : e.q[j] = n
    <2>1. PICK p \in 1..Len(o) : o[p] = n
      BY <1>4
    <2>2. /\ Len(s.q) + p \in 1..Len(e.q) /\ Len(s.q) + p > Len(s.q)
          /\ (Len(s.q) + p) - Len(s.q) = p
      BY <1>1, <1>5, <1>7
    <2> QED BY <1>9, <2>1, <2>2
  <1>11. ASSUME NEW j \in 1..Len(e.q), NEW k \in 1..Len(e.q),
                j > Len(s.q), k > Len(s.q), e.q[j] = e.q[k]
         PROVE  j = k
    <2> DEFINE p == j - Len(s.q)
               r == k - Len(s.q)
    <2>0. p \in 1..Len(o) /\ r \in 1..Len(o) /\ o[p] = o[r]
      BY <1>9, <1>11
    <2>1. p = r
      <3> HIDE DEF p, r
      <3> QED BY <1>4, <2>0
    <2>2. Len(e.q) \in Nat
      BY <1>1, <1>5, <1>7
    <2> QED BY <1>1, <2>1, <2>2
  <1>12. \A j \in 1..Len(e.q) : j > Len(s.q) => e.q[j] \in new
    BY <1>5, <1>9
  <1>13. Len(e.q) \in Nat /\ Len(s.q) <= Len(e.q)
    BY <1>1, <1>5, <1>7
  <1> QED BY <1>8, <1>10, <1>11, <1>12, <1>13 DEF Longer, new

\* What a round starts from: facts that its parts share.
Rounds(links, h, s, i, e) ==
  /\ s \in Searches /\ e \in Searches
  /\ i < Len(s.q) /\ i + 1 \in 1..Len(s.q)
  /\ s.q[i + 1] \in DOMAIN s.dis
  /\ SearchInv(links, h, s, i)
  /\ Round(links, s, s.q[i + 1], e)

LEMMA RoundFacts ==
  ASSUME NEW links, NEW h \in Node, NEW s, NEW i \in Nat, SearchInv(links, h, s, i),
         i < Len(s.q), NEW e, e = Expand(links, s, s.q[i + 1])
  PROVE  Rounds(links, h, s, i, e)
  <1>1. s \in Searches
    BY DEF SearchInv
  <1>2. Len(s.q) \in Nat /\ \A j \in 1..Len(s.q) : s.q[j] \in DOMAIN s.dis
    BY <1>1, SearchFields
  <1>3. i + 1 \in 1..Len(s.q)
    BY <1>2
  <1>4. s.q[i + 1] \in DOMAIN s.dis
    BY <1>2, <1>3
  <1>5. Round(links, s, s.q[i + 1], e)
    BY <1>1, <1>4, Expanded
  <1>6. e \in Searches
    BY <1>5 DEF Round
  <1> QED BY <1>1, <1>3, <1>4, <1>5, <1>6 DEF Rounds

LEMMA QueuedNext ==
  ASSUME NEW links, NEW h \in Node, NEW s, NEW i \in Nat, SearchInv(links, h, s, i),
         i < Len(s.q), NEW e, e = Expand(links, s, s.q[i + 1])
  PROVE  Queued(h, e)
  <1> DEFINE now == s.q[i + 1]
             new == New(links, s, now)
  <1>1. Rounds(links, h, s, i, e)
    BY RoundFacts
  <1>2. s \in Searches /\ now \in DOMAIN s.dis /\ Queued(h, s) /\ Round(links, s, now, e)
    BY <1>1 DEF Rounds, SearchInv
  <1>3. Len(s.q) \in Nat
    BY <1>2, SearchFields
  <1>4. /\ Len(e.q) \in Nat /\ Len(s.q) <= Len(e.q)
        /\ \A j \in 1..Len(s.q) : e.q[j] = s.q[j]
        /\ \A j \in 1..Len(e.q) : j > Len(s.q) => e.q[j] \in new \cap Switch
        /\ \A j, k \in 1..Len(e.q) : j > Len(s.q) /\ k > Len(s.q) /\ e.q[j] = e.q[k] => j = k
        /\ \A n \in new \cap Switch : \E j \in 1..Len(e.q) : e.q[j] = n
    <2>1. Longer(links, s, now, e)
      BY <1>2, LongerQueue
    <2> QED BY <2>1 DEF Longer
  <1>5. DOMAIN e.dis = DOMAIN s.dis \cup new
    BY <1>2 DEF Round
  <1>6. new \cap DOMAIN s.dis = {}
    BY DEF New
  <1>7. /\ Len(s.q) >= 1 /\ s.q[1] = h
        /\ \A j, k \in 1..Len(s.q) : s.q[j] = s.q[k] => j = k
        /\ \A j \in 1..Len(s.q) : s.q[j] \in DOMAIN s.dis \cap Via(h)
        /\ \A n \in DOMAIN s.dis \cap Via(h) : \E j \in 1..Len(s.q) : s.q[j] = n
    BY <1>2 DEF Queued
  <1> HIDE DEF new, now
  <1>8. Len(e.q) >= 1 /\ e.q[1] = h
    BY <1>3, <1>4, <1>7
  <1>9. \A j \in 1..Len(e.q) : \/ j \in 1..Len(s.q) /\ e.q[j] \in DOMAIN s.dis \cap Via(h)
                               \/ j > Len(s.q) /\ e.q[j] \in new \cap Switch
    <2>1. \A j \in 1..Len(e.q) : j \in 1..Len(s.q) \/ j > Len(s.q)
      BY <1>3, <1>4
    <2> QED BY <1>4, <1>7, <2>1
  <1>10. \A j, k \in 1..Len(e.q) : e.q[j] = e.q[k] => j = k
    <2> SUFFICES ASSUME NEW j \in 1..Len(e.q), NEW k \in 1..Len(e.q), e.q[j] = e.q[k]
                 PROVE  j = k
      OBVIOUS
    <2>1. CASE j \in 1..Len(s.q) /\ k \in 1..Len(s.q)
      BY <1>4, <1>7, <2>1
    <2>2. CASE j > Len(s.q) /\ k > Len(s.q)
      BY <1>4, <2>2
    <2> QED BY <1>6, <1>9, <2>1, <2>2
  <1>11. \A j \in 1..Len(e.q) : e.q[j] \in DOMAIN e.dis \cap Via(h)
    BY <1>5, <1>9 DEF Via
  <1>12. ASSUME NEW n \in DOMAIN e.dis \cap Via(h) PROVE \E j \in 1..Len(e.q) : e.q[j] = n
    <2>1. CASE n \in DOMAIN s.dis
      <3>1. PICK j \in 1..Len(s.q) : s.q[j] = n
        BY <1>7, <2>1
      <3>2. j \in 1..Len(e.q) /\ e.q[j] = n
        BY <1>3, <1>4, <3>1
      <3> QED BY <3>2
    <2>2. CASE n \notin DOMAIN s.dis
      <3>1. h \in DOMAIN s.dis
        BY <1>3, <1>7
      <3>2. n \in new \cap Switch
        BY <1>5, <2>2, <3>1 DEF Via
      <3> QED BY <1>4, <3>2
    <2> QED BY <2>1, <2>2
  <1> QED BY <1>8, <1>10, <1>11, <1>12 DEF Queued

LEMMA SortedNext ==
  ASSUME NEW links, NEW h \in Node, NEW s, NEW i \in Nat, SearchInv(links, h, s, i),
         i < Len(s.q), NEW e, e = Expand(links, s, s.q[i + 1])
  PROVE  Sorted(h, e, i + 1) /\ \A n \in DOMAIN e.dis : e.dis[n] <= s.dis[s.q[i + 1]] + 1
  <1> DEFINE now == s.q[i + 1]
             new == New(links, s, now)
             L == Len(s.q)
  <1>1. Rounds(links, h, s, i, e)
    BY RoundFacts
  <1>2. /\ s \in Searches /\ e \in Searches /\ now \in DOMAIN s.dis
        /\ Queued(h, s) /\ Sorted(h, s, i) /\ Round(links, s, now, e)
    BY <1>1 DEF Rounds, SearchInv
  <1>3. /\ L \in Nat /\ \A n \in DOMAIN s.dis : s.dis[n] \in Nat
        /\ \A j \in 1..L : s.q[j] \in DOMAIN s.dis
    BY <1>2, SearchFields
  <1>4. /\ \A n \in DOMAIN e.dis : e.dis[n] \in Nat
        /\ \A j \in 1..Len(e.q) : e.q[j] \in DOMAIN e.dis
    BY <1>2, SearchFields
  <1>5. /\ Len(e.q) \in Nat /\ L <= Len(e.q)
        /\ \A j \in 1..L : e.q[j] = s.q[j]
        /\ \A j \in 1..Len(e.q) : j > L => e.q[j] \in new \cap Switch
    <2>1. Longer(links, s, now, e)
      BY <1>2, LongerQueue
    <2> QED BY <2>1 DEF Longer
  <1>6. /\ DOMAIN e.dis = DOMAIN s.dis \cup new
        /\ \A n \in new : e.dis[n] = s.dis[now] + 1
        /\ \A n \in DOMAIN s.dis : e.dis[n] = s.dis[n]
    BY <1>2 DEF Round
  <1>7. /\ \A n \in DOMAIN s.dis : s.dis[n] = 0 <=> n = h
        /\ \A j, k \in 1..L : j <= k => s.dis[s.q[j]] <= s.dis[s.q[k]]
        /\ \A j \in 1..L : s.dis[s.q[j]] < j
        /\ \A n \in DOMAIN s.dis : s.dis[n] <= s.dis[now] + 1
    BY <1>2 DEF Sorted
  <1>8. h \in DOMAIN s.dis /\ new \cap DOMAIN s.dis = {} /\ s.dis[now] < i + 1
    <2>1. h \in DOMAIN s.dis
      BY <1>2, <1>3 DEF Queued
    <2>2. i + 1 \in 1..L
      BY <1>3
    <2>3. s.dis[now] < i + 1
      BY <1>7, <2>2
    <2> QED BY <2>1, <2>3 DEF New
  <1>9. s.dis[now] \in Nat
    BY <1>2, <1>3
  <1> HIDE DEF new, now, L
  <1>10. \A n \in DOMAIN e.dis : e.dis[n] = 0 <=> n = h
    <2> SUFFICES ASSUME NEW n \in DOMAIN e.dis PROVE e.dis[n] = 0 <=> n = h
      OBVIOUS
    <2>1. CASE n \in DOMAIN s.dis
      BY <1>6, <1>7, <2>1
    <2>2. CASE n \in new
      BY <1>6, <1>8, <1>9, <2>2
    <2> QED BY <1>6, <2>1, <2>2
  <1>11. \A n \in DOMAIN e.dis : e.dis[n] <= s.dis[now] + 1
    <2> SUFFICES ASSUME NEW n \in DOMAIN e.dis PROVE e.dis[n] <= s.dis[now] + 1
      OBVIOUS
    <2>1. CASE n \in DOMAIN s.dis
      BY <1>6, <1>7, <2>1
    <2>2. CASE n \in new
      BY <1>6, <1>9, <2>2
    <2> QED BY <1>6, <2>1, <2>2
  <1>12. \A j \in 1..Len(e.q) :
           \/ j \in 1..L /\ e.q[j] = s.q[j] /\ e.dis[e.q[j]] = s.dis[s.q[j]]
           \/ j > L /\ e.dis[e.q[j]] = s.dis[now] + 1
    <2> SUFFICES ASSUME NEW j \in 1..Len(e.q)
                 PROVE  \/ j \in 1..L /\ e.q[j] = s.q[j] /\ e.dis[e.q[j]] = s.dis[s.q[j]]
                        \/ j > L /\ e.dis[e.q[j]] = s.dis[now] + 1
      OBVIOUS
    <2>1. j \in 1..L \/ j > L
      BY <1>3, <1>5
    <2> QED BY <1>3, <1>5, <1>6, <2>1
  <1>13. \A j \in 1..Len(e.q) : e.dis[e.q[j]] \in Nat /\ e.dis[e.q[j]] <= s.dis[now] + 1
    BY <1>4, <1>11
  <1>14. ASSUME NEW j \in 1..Len(e.q), NEW k \in 1..Len(e.q), j <= k
         PROVE  e.dis[e.q[j]] <= e.dis[e.q[k]]
    <2>1. CASE k \in 1..L /\ j \in 1..L
      <3>1. e.q[j] = s.q[j] /\ e.q[k] = s.q[k] /\ s.q[j] \in DOMAIN s.dis /\ s.q[k] \in DOMAIN s.dis
        BY <1>3, <1>5, <2>1
      <3>2. s.dis[s.q[j]] <= s.dis[s.q[k]]
        BY <1>7, <1>14, <2>1
      <3> QED BY <1>6, <3>1, <3>2
    <2>2. CASE ~ (k \in 1..L)
      BY <1>12, <1>13, <2>2
    <2>3. k \in 1..L => j \in 1..L
      BY <1>3, <1>5, <1>14
    <2> QED BY <2>1, <2>2, <2>3
  <1>15. ASSUME NEW j \in 1..Len(e.q) PROVE e.dis[e.q[j]] < j
    <2>1. CASE j \in 1..L /\ e.dis[e.q[j]] = s.dis[s.q[j]]
      BY <1>7, <2>1
    <2>2. CASE j > L /\ e.dis[e.q[j]] = s.dis[now] + 1
      BY <1>3, <1>5, <1>8, <1>9, <2>2 DEF L
    <2> QED BY <1>12, <2>1, <2>2
  <1>16. ASSUME i + 1 < Len(e.q), NEW n \in DOMAIN e.dis
         PROVE  e.dis[n] <= e.dis[e.q[(i + 1) + 1]] + 1
    <2>1. i + 1 \in 1..L /\ i + 1 \in 1..Len(e.q) /\ (i + 1) + 1 \in 1..Len(e.q) /\ i + 1 <= (i + 1) + 1
      BY <1>3, <1>5, <1>16 DEF L
    <2>2. e.q[i + 1] = now /\ e.dis[now] = s.dis[now]
      BY <1>2, <1>5, <1>6, <2>1 DEF now
    <2>3. s.dis[now] <= e.dis[e.q[(i + 1) + 1]]
      BY <1>14, <2>1, <2>2
    <2>4. e.dis[n] <= s.dis[now] + 1 /\ e.dis[n] \in Nat /\ e.dis[e.q[(i + 1) + 1]] \in Nat
      BY <1>4, <1>11, <1>13, <2>1
    <2> QED BY <1>9, <2>3, <2>4
  <1>17. Sorted(h, e, i + 1)
    BY <1>10, <1>14, <1>15, <1>16 DEF Sorted
  <1> QED BY <1>11, <1>17 DEF now

\* What a round adds: one node is done, and the others are as before.
OneMore(s, e, i) ==
  /\ Done(e, i + 1) = Done(s, i) \cup {s.q[i + 1]}
  /\ Done(s, i) \in SUBSET DOMAIN s.dis
  /\ s.q[i + 1] \notin Done(s, i)

LEMMA RoundDone ==
  ASSUME NEW links, NEW h \in Node, NEW s, NEW i \in Nat, SearchInv(links, h, s, i),
         i < Len(s.q), NEW e, e = Expand(links, s, s.q[i + 1])
  PROVE  OneMore(s, e, i)
  <1> DEFINE now == s.q[i + 1]
  <1>1. Rounds(links, h, s, i, e)
    BY RoundFacts
  <1>2. /\ s \in Searches /\ now \in DOMAIN s.dis /\ i + 1 \in 1..Len(s.q)
        /\ Queued(h, s) /\ Round(links, s, now, e)
    BY <1>1 DEF Rounds, SearchInv
  <1>3. /\ Len(s.q) \in Nat /\ \A j \in 1..Len(s.q) : s.q[j] \in DOMAIN s.dis
    BY <1>2, SearchFields
  <1>4. \A j \in 1..Len(s.q) : e.q[j] = s.q[j]
    <2>1. Longer(links, s, now, e)
      BY <1>2, LongerQueue
    <2> QED BY <2>1 DEF Longer
  <1>5. Done(e, i + 1) = Done(s, i) \cup {now}
    <2>1. \A j \in 1..(i + 1) : e.q[j] = s.q[j]
      BY <1>3, <1>4
    <2>2. \A j \in 1..(i + 1) : j \in 1..i \/ j = i + 1
      OBVIOUS
    <2>3. i + 1 \in 1..(i + 1) /\ \A j \in 1..i : j \in 1..(i + 1)
      OBVIOUS
    <2> HIDE DEF now
    <2>4. Done(e, i + 1) \in SUBSET (Done(s, i) \cup {now})
      BY <2>1, <2>2, <2>3 DEF Done, now
    <2>5. Done(s, i) \cup {now} \in SUBSET Done(e, i + 1)
      BY <2>1, <2>3 DEF Done, now
    <2> QED BY <2>4, <2>5
  <1>6. Done(s, i) \in SUBSET DOMAIN s.dis
    BY <1>3 DEF Done
  <1>7. now \notin Done(s, i)
    <2> SUFFICES ASSUME NEW j \in 1..i, s.q[j] = now PROVE FALSE
      BY DEF Done
    <2>1. j \in 1..Len(s.q) /\ j # i + 1
      BY <1>3
    <2> QED BY <1>2, <2>1 DEF Queued
  <1> QED BY <1>5, <1>6, <1>7 DEF OneMore

LEMMA ClosedNext ==
  ASSUME NEW links, NEW h \in Node, NEW s, NEW i \in Nat, SearchInv(links, h, s, i),
         i < Len(s.q), NEW e, e = Expand(links, s, s.q[i + 1])
  PROVE  Closed(links, e, i + 1)
  <1> DEFINE now == s.q[i + 1]
             new == New(links, s, now)
  <1>1. Rounds(links, h, s, i, e)
    BY RoundFacts
  <1>2. /\ s \in Searches /\ now \in DOMAIN s.dis
        /\ Closed(links, s, i) /\ Round(links, s, now, e)
    BY <1>1 DEF Rounds, SearchInv
  <1>3. /\ DOMAIN e.dis = DOMAIN s.dis \cup new
        /\ \A n \in DOMAIN s.dis : e.dis[n] = s.dis[n]
    BY <1>2 DEF Round
  <1>4. \A n \in DOMAIN e.dis : e.dis[n] <= s.dis[now] + 1
    BY SortedNext
  <1>5. Done(e, i + 1) = Done(s, i) \cup {now} /\ Done(s, i) \in SUBSET DOMAIN s.dis
    <2>1. OneMore(s, e, i)
      BY RoundDone
    <2> QED BY <2>1 DEF OneMore
  <1>6. \A n \in Node : <<now, n>> \in links => n \in DOMAIN s.dis \cup new
    BY DEF New
  <1> HIDE DEF new, now
  <1> SUFFICES ASSUME NEW m \in Done(e, i + 1), NEW n \in Node, <<m, n>> \in links
               PROVE  n \in DOMAIN e.dis /\ e.dis[n] <= e.dis[m] + 1
    BY DEF Closed
  <1>7. CASE m \in Done(s, i)
    <2>1. n \in DOMAIN s.dis /\ s.dis[n] <= s.dis[m] + 1
      BY <1>2, <1>7 DEF Closed
    <2> QED BY <1>3, <1>5, <1>7, <2>1
  <1>8. CASE m = now
    <2>1. n \in DOMAIN e.dis
      BY <1>3, <1>6, <1>8
    <2> QED BY <1>2, <1>3, <1>4, <1>8, <2>1
  <1> QED BY <1>5, <1>7, <1>8

\* A sequence without repetitions, with a new element.
LEMMA AppendNew ==
  ASSUME NEW S, NEW x \in Seq(S), IsInjective(x), NEW a \in S, a \notin ToSet(x)
  PROVE  IsInjective(Append(x, a)) /\ ToSet(Append(x, a)) = ToSet(x) \cup {a}
  <1> DEFINE y == Append(x, a)
             L == Len(x)
  <1>1. /\ L \in Nat /\ DOMAIN x = 1..L /\ DOMAIN y = 1..(L + 1)
        /\ \A j \in 1..L : y[j] = x[j]
        /\ y[L + 1] = a
    OBVIOUS
  <1> HIDE DEF y, L
  <1>2. \A j \in 1..(L + 1) : j \in 1..L \/ j = L + 1
    BY <1>1
  <1>3. L + 1 \in 1..(L + 1) /\ \A j \in 1..L : j \in 1..(L + 1)
    BY <1>1
  <1>4. \A j \in 1..L : x[j] # a
    BY <1>1 DEF ToSet
  <1>5. \A j, k \in 1..L : x[j] = x[k] => j = k
    BY <1>1 DEF IsInjective
  <1>6. ASSUME NEW j \in 1..(L + 1), NEW k \in 1..(L + 1), y[j] = y[k] PROVE j = k
    BY <1>1, <1>2, <1>4, <1>5, <1>6
  <1>7. IsInjective(y)
    BY <1>1, <1>6 DEF IsInjective
  <1>8. ToSet(y) = ToSet(x) \cup {a}
    BY <1>1, <1>2, <1>3 DEF ToSet
  <1> QED BY <1>7, <1>8 DEF y

LEMMA FoundNext ==
  ASSUME NEW links, NEW h \in Node, NEW s, NEW i \in Nat, SearchInv(links, h, s, i),
         i < Len(s.q), NEW e, e = Expand(links, s, s.q[i + 1])
  PROVE  Found(links, h, e, i + 1)
  <1> DEFINE now == s.q[i + 1]
             new == New(links, s, now)
             D == DOMAIN s.dis
             A == Done(s, i)
  <1>1. Rounds(links, h, s, i, e)
    BY RoundFacts
  <1>2. /\ s \in Searches /\ now \in D
        /\ Closed(links, s, i) /\ Found(links, h, s, i) /\ Round(links, s, now, e)
    BY <1>1 DEF Rounds, SearchInv
  <1>3. /\ DOMAIN e.dis = D \cup new
        /\ \A n \in new : e.dis[n] = s.dis[now] + 1
        /\ \A n \in D : e.dis[n] = s.dis[n]
        /\ \A n \in Node :
             e.hops[n] = IF <<now, n>> \in links /\ e.dis[n] = s.dis[now] + 1
                         THEN Append(s.hops[n], now) ELSE s.hops[n]
    BY <1>2 DEF Round
  <1>4. Done(e, i + 1) = A \cup {now} /\ A \in SUBSET D /\ now \notin A
    <2>1. OneMore(s, e, i)
      BY RoundDone
    <2> QED BY <2>1 DEF OneMore
  <1>5. \A n \in Node : <<now, n>> \in links <=> n \in new \/ (n \in D /\ <<now, n>> \in links)
    BY DEF New
  <1>6. D \in SUBSET Node /\ s.hops \in [Node -> Seq(Node)] /\ new \cap D = {} /\ new \in SUBSET Node
    BY <1>2, SearchFields DEF New
  <1>7. /\ \A n \in D \ {h} : \E m \in A : Hop(links, s, m, n)
        /\ \A n \in Node : /\ IsInjective(s.hops[n])
                           /\ ToSet(s.hops[n]) = {m \in A : Hop(links, s, m, n)}
    BY <1>2 DEF Found
  <1>8. \A m \in A, n \in Node : <<m, n>> \in links => n \in D
    BY <1>2 DEF Closed
  <1>0. \A n \in new : <<now, n>> \in links
    BY DEF New
  <1> HIDE DEF new, now, D, A
  <1>9. \A m \in A, n \in Node : Hop(links, e, m, n) <=> Hop(links, s, m, n)
    <2> SUFFICES ASSUME NEW m \in A, NEW n \in Node, <<m, n>> \in links
                 PROVE  Hop(links, e, m, n) <=> Hop(links, s, m, n)
      BY DEF Hop
    <2>1. n \in D /\ m \in D
      BY <1>4, <1>8
    <2> QED BY <1>3, <2>1 DEF Hop, D
  <1>10. \A n \in Node : Hop(links, e, now, n) <=> <<now, n>> \in links /\ e.dis[n] = s.dis[now] + 1
    <2>1. e.dis[now] = s.dis[now]
      BY <1>2, <1>3
    <2>2. \A n \in Node : <<now, n>> \in links => n \in DOMAIN e.dis
      BY <1>3, <1>5
    <2> QED BY <2>1, <2>2 DEF Hop
  <1>11. ASSUME NEW n \in DOMAIN e.dis \ {h} PROVE \E m \in Done(e, i + 1) : Hop(links, e, m, n)
    <2>1. CASE n \in D
      BY <1>4, <1>6, <1>7, <1>9, <2>1
    <2>2. CASE n \in new
      <3>1. Hop(links, e, now, n)
        BY <1>3, <1>6, <1>10, <1>0, <2>2
      <3> QED BY <1>4, <3>1
    <2> QED BY <1>3, <2>1, <2>2
  <1>12. ASSUME NEW n \in Node
         PROVE  /\ IsInjective(e.hops[n])
                /\ ToSet(e.hops[n]) = {m \in Done(e, i + 1) : Hop(links, e, m, n)}
    <2>1. /\ s.hops[n] \in Seq(Node) /\ IsInjective(s.hops[n]) /\ now \in Node
          /\ ToSet(s.hops[n]) = {m \in A : Hop(links, e, m, n)}
      <3>1. {m \in A : Hop(links, e, m, n)} = {m \in A : Hop(links, s, m, n)}
        BY <1>9
      <3> QED BY <1>2, <1>6, <1>7, <3>1
    <2>2. CASE Hop(links, e, now, n)
      <3>1. e.hops[n] = Append(s.hops[n], now)
        BY <1>3, <1>10, <2>2
      <3>2. now \notin ToSet(s.hops[n])
        BY <1>4, <2>1
      <3>3. /\ IsInjective(Append(s.hops[n], now))
            /\ ToSet(Append(s.hops[n], now)) = ToSet(s.hops[n]) \cup {now}
        BY <2>1, <3>2, AppendNew
      <3> QED BY <1>4, <2>1, <2>2, <3>1, <3>3
    <2>3. CASE ~ Hop(links, e, now, n)
      <3>1. e.hops[n] = s.hops[n]
        BY <1>3, <1>10, <2>3
      <3> QED BY <1>4, <2>1, <2>3, <3>1
    <2> QED BY <2>2, <2>3
  <1> QED BY <1>11, <1>12 DEF Found

LEMMA StepInv ==
  ASSUME NEW links, NEW h \in Node, NEW s, NEW i \in Nat, SearchInv(links, h, s, i),
         i < Len(s.q), NEW e, e = Expand(links, s, s.q[i + 1])
  PROVE  SearchInv(links, h, e, i + 1)
  <1>1. e \in Searches
    BY RoundFacts DEF Rounds
  <1>2. i + 1 \in 0..Len(e.q)
    <2>1. Rounds(links, h, s, i, e)
      BY RoundFacts
    <2>2. s \in Searches /\ s.q[i + 1] \in DOMAIN s.dis
      BY <2>1 DEF Rounds
    <2>3. Longer(links, s, s.q[i + 1], e)
      BY <2>2, LongerQueue
    <2>4. Len(e.q) \in Nat /\ Len(s.q) <= Len(e.q) /\ Len(s.q) \in Nat
      BY <2>2, <2>3, SearchFields DEF Longer
    <2> QED BY <2>4
  <1> QED BY <1>1, <1>2, QueuedNext, SortedNext, ClosedNext, FoundNext DEF SearchInv

\* The search when its loop has ended: the distances are those of shortest
\* paths through switches, and the next hops are all that are one hop closer.
Searched(links, h, s) ==
  /\ DOMAIN s.dis \in SUBSET Node /\ h \in DOMAIN s.dis
  /\ \A n \in DOMAIN s.dis : /\ s.dis[n] \in Nat /\ s.dis[n] <= Cardinality(Node)
                             /\ s.dis[n] = 0 <=> n = h
  /\ \A m \in DOMAIN s.dis \cap Via(h), n \in Node :
       <<m, n>> \in links => n \in DOMAIN s.dis /\ s.dis[n] <= s.dis[m] + 1
  /\ \A n \in DOMAIN s.dis \ {h} : \E m \in DOMAIN s.dis \cap Via(h) : Hop(links, s, m, n)
  /\ \A n \in Node : /\ s.hops[n] \in Seq(Node) /\ IsInjective(s.hops[n])
                     /\ ToSet(s.hops[n]) = {m \in DOMAIN s.dis \cap Via(h) : Hop(links, s, m, n)}

\* A queue without repetitions is no longer than there are nodes.
LEMMA ShortQueue ==
  ASSUME NEW q \in Seq(Node), \A j, k \in 1..Len(q) : q[j] = q[k] => j = k
  PROVE  Len(q) <= Cardinality(Node)
  <1> DEFINE L == Len(q)
             N == Cardinality(Node)
  <1>1. IsFiniteSet(Node) /\ N \in Nat
    BY NodeAssumption, FS_CardinalityType
  <1>2. L \in Nat /\ q \in [1..L -> Node]
    OBVIOUS
  <1>3. IsFiniteSet(1..L) /\ Cardinality(1..L) = L
    BY <1>2, FS_Interval
  <1> SUFFICES ASSUME N < L PROVE FALSE
    BY <1>1, <1>2
  <1>4. \E j, k \in 1..L : j # k /\ q[j] = q[k]
    <2> HIDE DEF L
    <2> QED BY <1>1, <1>2, <1>3, FS_PigeonHole
  <1> QED BY <1>4

LEMMA EndOfLoop ==
  ASSUME NEW links, NEW h \in Node, NEW s, SearchInv(links, h, s, Len(s.q))
  PROVE  Searched(links, h, s)
  <1> DEFINE L == Len(s.q)
             D == DOMAIN s.dis
             N == Cardinality(Node)
  <1>1. /\ s \in Searches /\ Queued(h, s) /\ Sorted(h, s, L)
        /\ Closed(links, s, L) /\ Found(links, h, s, L)
    BY DEF SearchInv
  <1>2. /\ s.q \in Seq(Node) /\ L \in Nat
        /\ D \in SUBSET Node /\ s.dis \in [D -> Nat]
        /\ s.hops \in [Node -> Seq(Node)]
        /\ \A j \in 1..L : s.q[j] \in D
    BY <1>1, SearchFields
  <1>3. Done(s, L) = D \cap Via(h)
    BY <1>1 DEF Done, Queued
  <1>4. h \in D
    BY <1>1, <1>2 DEF Queued
  <1>5. IsFiniteSet(Node) /\ N \in Nat
    BY NodeAssumption, FS_CardinalityType
  <1>6. L <= N
    <2>1. \A j, k \in 1..Len(s.q) : s.q[j] = s.q[k] => j = k
      BY <1>1 DEF Queued
    <2> QED BY <1>2, <2>1, ShortQueue
  <1>7. ASSUME NEW n \in D PROVE s.dis[n] <= N
    <2>1. CASE n = h
      BY <1>1, <1>4, <1>5, <2>1 DEF Sorted
    <2>2. CASE n # h
      <3>1. PICK m \in Done(s, L) : s.dis[n] = s.dis[m] + 1
        BY <1>1, <2>2 DEF Found, Hop
      <3>2. PICK j \in 1..L : m = s.q[j]
        BY DEF Done
      <3>3. s.dis[m] < j /\ m \in D
        BY <1>1, <1>2, <3>2 DEF Sorted
      <3>4. s.dis[m] \in Nat /\ s.dis[n] \in Nat
        BY <1>2, <3>3
      <3> HIDE DEF L, N
      <3> QED BY <1>2, <1>5, <1>6, <3>1, <3>3, <3>4
    <2> QED BY <2>1, <2>2
  <1>8. \A n \in D : s.dis[n] \in Nat /\ (s.dis[n] = 0 <=> n = h)
    BY <1>1, <1>2 DEF Sorted
  <1>9. \A m \in D \cap Via(h), n \in Node : <<m, n>> \in links => n \in D /\ s.dis[n] <= s.dis[m] + 1
    BY <1>1, <1>3 DEF Closed
  <1>10. \A n \in D \ {h} : \E m \in D \cap Via(h) : Hop(links, s, m, n)
    BY <1>1, <1>3 DEF Found
  <1>11. \A n \in Node : /\ s.hops[n] \in Seq(Node) /\ IsInjective(s.hops[n])
                         /\ ToSet(s.hops[n]) = {m \in D \cap Via(h) : Hop(links, s, m, n)}
    BY <1>1, <1>2, <1>3 DEF Found
  <1> QED BY <1>2, <1>4, <1>7, <1>8, <1>9, <1>10, <1>11 DEF Searched

\* After a round for every node the loop has ended.
LEMMA SearchEnds ==
  ASSUME NEW links, NEW h \in Node
  PROVE  Searched(links, h, Search(links, h)[Cardinality(Node)])
  <1> DEFINE B == Search(links, h)
             N == Cardinality(Node)
             I(k) == IF k <= Len(B[k].q) THEN k ELSE Len(B[k].q)
             G == {k \in Nat : SearchInv(links, h, B[k], I(k))}
  <1>1. /\ B[0] = Start(h)
        /\ \A k \in Nat : /\ B[k] \in Searches
                          /\ B[k + 1] = IF k + 1 <= Len(B[k].q)
                                        THEN Expand(links, B[k], B[k].q[k + 1]) ELSE B[k]
    BY SearchDef
  <1> HIDE DEF B, N
  <1>2. \A k \in Nat : Len(B[k].q) \in Nat
    BY <1>1, SearchFields
  <1>3. 0 \in G
    <2>1. I(0) = 0
      BY <1>2
    <2> QED BY <1>1, <2>1, StartInv
  <1>4. ASSUME NEW k \in G PROVE k + 1 \in G
    <2>1. k \in Nat /\ k + 1 \in Nat /\ SearchInv(links, h, B[k], I(k)) /\ Len(B[k].q) \in Nat
      BY <1>2
    <2>2. CASE k + 1 <= Len(B[k].q)
      <3>1. I(k) = k /\ k < Len(B[k].q)
        BY <2>1, <2>2
      <3>2. B[k + 1] = Expand(links, B[k], B[k].q[k + 1])
        BY <1>1, <2>1, <2>2
      <3>3. SearchInv(links, h, B[k], k)
        BY <2>1, <3>1
      <3> HIDE DEF I
      <3>4. SearchInv(links, h, B[k + 1], k + 1)
        BY <2>1, <3>1, <3>2, <3>3, StepInv
      <3>5. k + 1 <= Len(B[k + 1].q)
        BY <1>2, <2>1, <3>4 DEF SearchInv
      <3>6. I(k + 1) = k + 1
        BY <3>5 DEF I
      <3> QED BY <2>1, <3>4, <3>6
    <2>3. CASE ~ (k + 1 <= Len(B[k].q))
      <3>1. B[k + 1] = B[k]
        BY <1>1, <2>1, <2>3
      <3>2. I(k + 1) = Len(B[k].q) /\ I(k) = Len(B[k].q)
        BY <2>1, <2>3, <3>1
      <3> HIDE DEF I
      <3> QED BY <2>1, <3>1, <3>2
    <2> QED BY <2>2, <2>3
  <1>5. G = Nat
    <2> HIDE DEF G
    <2>1. G \in SUBSET Nat
      BY DEF G
    <2> QED BY <1>3, <1>4, <2>1, SetInduction
  <1>6. IsFiniteSet(Node) /\ N \in Nat
    BY NodeAssumption, FS_CardinalityType DEF N
  <1>7. SearchInv(links, h, B[N], I(N))
    BY <1>5, <1>6
  <1>8. I(N) = Len(B[N].q)
    <2>1. Queued(h, B[N]) /\ B[N].q \in Seq(Node) /\ Len(B[N].q) \in Nat
      BY <1>1, <1>6, <1>7, SearchFields DEF SearchInv
    <2> DEFINE q == B[N].q
    <2>2. ~ (N < Len(q))
      <3> HIDE DEF q
      <3>1. q \in Seq(Node) /\ Len(q) \in Nat /\ \A j, k \in 1..Len(q) : q[j] = q[k] => j = k
        BY <2>1 DEF q, Queued
      <3>2. Len(q) <= N
        BY <3>1, ShortQueue DEF N
      <3> QED BY <1>6, <3>1, <3>2
    <2> QED BY <1>6, <2>1, <2>2
  <1>9. SearchInv(links, h, B[N], Len(B[N].q))
    <2> HIDE DEF I
    <2> QED BY <1>7, <1>8
  <1> HIDE DEF I, G
  <1>10. Searched(links, h, B[N])
    BY <1>9, EndOfLoop
  <1> QED BY <1>10 DEF B, N
-----------------------------------------------------------------------------
(***************************************************************************)
(* The search against the reference.                                       *)
(***************************************************************************)
\* The search finds what is within k hops, at distance at most k.
LEMMA Balls ==
  ASSUME NEW links, Symmetric(links), NEW h \in Node, NEW s, Searched(links, h, s)
  PROVE  \A k \in Nat : Ball(links, h)[k] = {n \in DOMAIN s.dis : s.dis[n] <= k}
  <1> DEFINE B == Ball(links, h)
             D == DOMAIN s.dis
             G == {k \in Nat : B[k] = {n \in D : s.dis[n] <= k}}
  <1>1. /\ B[0] = {h}
        /\ \A k \in Nat : B[k + 1] = B[k] \cup {n \in Node : \E m \in B[k] \cap Via(h) : <<n, m>> \in links}
    BY BallDef DEF Via
  <1>2. /\ D \in SUBSET Node /\ h \in D
        /\ \A n \in D : s.dis[n] \in Nat /\ (s.dis[n] = 0 <=> n = h)
        /\ \A m \in D \cap Via(h), n \in Node : <<m, n>> \in links => n \in D /\ s.dis[n] <= s.dis[m] + 1
        /\ \A n \in D \ {h} : \E m \in D \cap Via(h) : Hop(links, s, m, n)
    BY DEF Searched
  <1>3. \A a, b \in Node : <<a, b>> \in links <=> <<b, a>> \in links
    BY DEF Symmetric
  <1> HIDE DEF B, D
  <1>4. 0 \in G
    <2>1. \A n \in D : s.dis[n] <= 0 <=> n = h
      BY <1>2
    <2>2. {n \in D : s.dis[n] <= 0} = {h}
      BY <1>2, <2>1
    <2> QED BY <1>1, <2>2
  <1>5. ASSUME NEW k \in G PROVE k + 1 \in G
    <2>1. k \in Nat /\ k + 1 \in Nat /\ B[k] = {n \in D : s.dis[n] <= k}
      OBVIOUS
    <2>2. ASSUME NEW n \in B[k + 1] PROVE n \in D /\ s.dis[n] <= k + 1
      <3>1. CASE n \in B[k]
        <4>1. n \in D /\ s.dis[n] <= k /\ s.dis[n] \in Nat
          BY <1>2, <2>1, <3>1
        <4> QED BY <2>1, <4>1
      <3>2. CASE n \notin B[k]
        <4>1. n \in Node /\ \E m \in B[k] \cap Via(h) : <<n, m>> \in links
          BY <1>1, <2>1, <2>2, <3>2
        <4>2. PICK m \in B[k] \cap Via(h) : <<n, m>> \in links
          BY <4>1
        <4>3. m \in D \cap Via(h) /\ s.dis[m] <= k /\ m \in Node
          BY <1>2, <2>1
        <4>4. n \in D /\ s.dis[n] <= s.dis[m] + 1
          BY <1>2, <1>3, <4>1, <4>2, <4>3
        <4>5. s.dis[n] \in Nat /\ s.dis[m] \in Nat
          BY <1>2, <4>3, <4>4
        <4> QED BY <2>1, <4>3, <4>4, <4>5
      <3> QED BY <3>1, <3>2
    <2>3. ASSUME NEW n \in D, s.dis[n] <= k + 1 PROVE n \in B[k + 1]
      <3>0. s.dis[n] \in Nat
        BY <1>2
      <3>1. CASE s.dis[n] <= k
        BY <1>1, <2>1, <3>1
      <3>2. CASE ~ (s.dis[n] <= k)
        <4>1. s.dis[n] = k + 1 /\ s.dis[n] # 0
          BY <2>1, <2>3, <3>0, <3>2
        <4>2. n \in D \ {h}
          BY <1>2, <4>1
        <4>3. PICK m \in D \cap Via(h) : Hop(links, s, m, n)
          BY <1>2, <4>2
        <4>4. s.dis[n] = s.dis[m] + 1 /\ <<m, n>> \in links
          BY <4>3 DEF Hop
        <4>5. s.dis[m] \in Nat /\ m \in Node /\ n \in Node
          BY <1>2
        <4>6. s.dis[m] <= k
          BY <2>1, <4>1, <4>4, <4>5
        <4>7. m \in B[k] \cap Via(h) /\ <<n, m>> \in links
          BY <1>3, <2>1, <4>4, <4>5, <4>6
        <4> QED BY <1>1, <2>1, <4>5, <4>7
      <3> QED BY <3>1, <3>2
    <2>4. B[k + 1] = {n \in D : s.dis[n] <= k + 1}
      BY <2>2, <2>3
    <2> QED BY <2>1, <2>4
  <1>6. G = Nat
    <2> HIDE DEF G
    <2>1. G \in SUBSET Nat
      BY DEF G
    <2> QED BY <1>4, <1>5, <2>1, SetInduction
  <1> QED BY <1>6 DEF B, D

\* RoutesAreShortest for the routes to one host.
Shortest(links, h, routes) ==
  /\ \A n \in Node \ Ball(links, h)[Cardinality(Node)] : routes[n] = <<>>
  /\ \A k \in 1..Cardinality(Node) :
       \A n \in Ball(links, h)[k] \ Ball(links, h)[k - 1] :
         /\ IsInjective(routes[n])
         /\ ToSet(routes[n]) = {m \in Ball(links, h)[k - 1] \cap (Switch \cup {h}) :
                                  {<<n, m>>, <<m, n>>} \subseteq links}

\* What the other proofs need of the routes to h: an entry is a neighbour over a
\* link that is up and may forward, and there is one wherever h can be reached.
Entries(links, h, routes) ==
  \A n \in Node :
    /\ routes[n] \in Seq(Node)
    /\ \A k \in 1..Len(routes[n]) : routes[n][k] \in Via(h) /\ <<n, routes[n][k]>> \in links
    /\ n # h /\ n \in Ball(links, h)[Cardinality(Node)] => routes[n] # <<>>

LEMMA EmptyToSet ==
  ASSUME NEW S, NEW x \in Seq(S)
  PROVE  x = <<>> <=> ToSet(x) = {}
  <1>1. x = <<>> => ToSet(x) = {}
    BY DEF ToSet
  <1>2. ASSUME x # <<>> PROVE ToSet(x) # {}
    <2>1. 1 \in DOMAIN x
      BY <1>2
    <2> QED BY <2>1 DEF ToSet
  <1> QED BY <1>1, <1>2

\* CalculateRoute finds exactly the shortest routes.
LEMMA RoutesFound ==
  ASSUME NEW links, Symmetric(links), NEW h \in Node
  PROVE  /\ Shortest(links, h, CalculateRoute(links, h))
         /\ Entries(links, h, CalculateRoute(links, h))
  <1> DEFINE N == Cardinality(Node)
             s == Search(links, h)[N]
             D == DOMAIN s.dis
             B == Ball(links, h)
             R == CalculateRoute(links, h)
  <1>1. Searched(links, h, s)
    BY SearchEnds
  <1>2. R = s.hops
    BY DEF CalculateRoute
  <1>3. N \in Nat
    BY NodeAssumption, FS_CardinalityType
  <1> HIDE DEF s, R, N
  <1>4. /\ D \in SUBSET Node /\ h \in D
        /\ \A n \in D : s.dis[n] \in Nat /\ s.dis[n] <= N /\ (s.dis[n] = 0 <=> n = h)
        /\ \A n \in D \ {h} : \E m \in D \cap Via(h) : Hop(links, s, m, n)
        /\ \A n \in Node : /\ R[n] \in Seq(Node) /\ IsInjective(R[n])
                           /\ ToSet(R[n]) = {m \in D \cap Via(h) : Hop(links, s, m, n)}
    BY <1>1, <1>2 DEF Searched, N
  <1>5. \A k \in Nat : B[k] = {n \in D : s.dis[n] <= k}
    BY <1>1, Balls
  <1>6. \A a, b \in Node : <<a, b>> \in links <=> <<b, a>> \in links
    BY DEF Symmetric
  <1> HIDE DEF B, D
  <1>7. ASSUME NEW n \in Node \ B[N] PROVE R[n] = <<>>
    <2>1. n \notin D
      BY <1>3, <1>4, <1>5
    <2>2. ToSet(R[n]) = {}
      BY <1>4, <2>1 DEF Hop, D
    <2> QED BY <1>4, <2>2, EmptyToSet
  <1>8. ASSUME NEW k \in 1..N, NEW n \in B[k] \ B[k - 1]
        PROVE  /\ IsInjective(R[n])
               /\ ToSet(R[n]) = {m \in B[k - 1] \cap Via(h) : {<<n, m>>, <<m, n>>} \subseteq links}
    <2>1. k \in Nat /\ k - 1 \in Nat
      BY <1>3
    <2>2. n \in D /\ n \in Node /\ s.dis[n] \in Nat /\ s.dis[n] <= k /\ ~ (s.dis[n] <= k - 1)
      BY <1>4, <1>5, <2>1
    <2>3. s.dis[n] = k
      BY <2>1, <2>2
    <2>4. \A m \in D : Hop(links, s, m, n) => m \in B[k - 1] /\ {<<n, m>>, <<m, n>>} \subseteq links
      <3> SUFFICES ASSUME NEW m \in D, Hop(links, s, m, n)
                   PROVE  m \in B[k - 1] /\ {<<n, m>>, <<m, n>>} \subseteq links
        OBVIOUS
      <3>1. <<m, n>> \in links /\ s.dis[n] = s.dis[m] + 1 /\ s.dis[m] \in Nat /\ m \in Node
        BY <1>4 DEF Hop
      <3>2. s.dis[m] <= k - 1
        BY <2>1, <2>3, <3>1
      <3> QED BY <1>5, <1>6, <2>1, <2>2, <3>1, <3>2
    <2>5. \A m \in B[k - 1] \cap Via(h) :
            {<<n, m>>, <<m, n>>} \subseteq links => m \in D /\ Hop(links, s, m, n)
      <3> SUFFICES ASSUME NEW m \in B[k - 1] \cap Via(h), <<m, n>> \in links
                   PROVE  m \in D /\ Hop(links, s, m, n)
        OBVIOUS
      <3>1. m \in D /\ s.dis[m] <= k - 1 /\ s.dis[m] \in Nat
        BY <1>4, <1>5, <2>1
      <3>2. s.dis[n] <= s.dis[m] + 1
        BY <1>1, <2>2, <3>1 DEF Searched, D
      <3>3. s.dis[n] = s.dis[m] + 1
        BY <2>1, <2>3, <3>1, <3>2
      <3> QED BY <2>2, <3>1, <3>3 DEF Hop, D
    <2> QED BY <1>4, <2>2, <2>4, <2>5
  <1>9. Shortest(links, h, R)
    BY <1>7, <1>8 DEF Shortest, B, N, Via
  <1>10. ASSUME NEW n \in Node
         PROVE  /\ R[n] \in Seq(Node)
                /\ \A k \in 1..Len(R[n]) : R[n][k] \in Via(h) /\ <<n, R[n][k]>> \in links
                /\ n # h /\ n \in B[N] => R[n] # <<>>
    <2>1. ASSUME NEW k \in 1..Len(R[n])
          PROVE  R[n][k] \in Via(h) /\ <<n, R[n][k]>> \in links
      <3>1. R[n][k] \in ToSet(R[n])
        BY <1>4 DEF ToSet
      <3>2. R[n][k] \in D \cap Via(h) /\ Hop(links, s, R[n][k], n)
        BY <1>4, <3>1
      <3> QED BY <1>4, <1>6, <3>2 DEF Hop
    <2>2. ASSUME n # h, n \in B[N] PROVE R[n] # <<>>
      <3>1. n \in D \ {h}
        BY <1>3, <1>5, <2>2
      <3>2. ToSet(R[n]) # {}
        BY <1>4, <3>1
      <3> QED BY <1>4, <3>2, EmptyToSet
    <2> QED BY <1>4, <2>1, <2>2
  <1>11. Entries(links, h, R)
    BY <1>10 DEF Entries, B, N
  <1> QED BY <1>9, <1>11 DEF R

\* When h can be reached from g, then g from h: on the way back too only switches
\* forward.
LEMMA WayBack ==
  ASSUME NEW links, Symmetric(links), NEW g \in Node, NEW h \in Node,
         g \in Ball(links, h)[Cardinality(Node)]
  PROVE  h \in Ball(links, g)[Cardinality(Node)]
  <1> DEFINE N == Cardinality(Node)
             s == Search(links, h)[N]
             t == Search(links, g)[N]
  <1>1. Searched(links, h, s) /\ Searched(links, g, t)
    BY SearchEnds
  <1>2. N \in Nat
    BY NodeAssumption, FS_CardinalityType
  <1> HIDE DEF s, t, N
  <1>3. g \in DOMAIN s.dis
    BY <1>1, <1>2, Balls DEF N
  <1>4. /\ DOMAIN s.dis \in SUBSET Node /\ h \in DOMAIN s.dis
        /\ \A n \in DOMAIN s.dis : s.dis[n] \in Nat
        /\ \A n \in DOMAIN s.dis \ {h} : \E m \in DOMAIN s.dis \cap Via(h) : Hop(links, s, m, n)
    BY <1>1 DEF Searched
  <1>5. /\ DOMAIN t.dis \in SUBSET Node /\ g \in DOMAIN t.dis
        /\ \A n \in DOMAIN t.dis : t.dis[n] <= N
        /\ \A m \in DOMAIN t.dis \cap Via(g), n \in Node : <<m, n>> \in links => n \in DOMAIN t.dis
    BY <1>1 DEF Searched, N
  <1>6. \A a, b \in Node : <<a, b>> \in links <=> <<b, a>> \in links
    BY DEF Symmetric
  <1> DEFINE X == {n \in DOMAIN s.dis \cap DOMAIN t.dis : n \in Switch \/ n = g \/ n = h}
             Y == {s.dis[n] : n \in X}
  <1>7. g \in X /\ Y \in SUBSET Nat /\ Y # {}
    BY <1>3, <1>4, <1>5
  <1>8. PICK y \in Y : \A z \in Y : y <= z
    <2> HIDE DEF Y
    <2> QED BY <1>7, LeastNat
  <1>9. PICK n \in X : y = s.dis[n]
    OBVIOUS
  <1>10. n = h
    <2> SUFFICES ASSUME n # h PROVE FALSE
      OBVIOUS
    <2>1. n \in DOMAIN s.dis \ {h} /\ n \in DOMAIN t.dis \cap Via(g)
      BY DEF Via
    <2>2. PICK m \in DOMAIN s.dis \cap Via(h) : Hop(links, s, m, n)
      BY <1>4, <2>1
    <2>3. <<m, n>> \in links /\ s.dis[n] = s.dis[m] + 1 /\ m \in Node /\ n \in Node
      BY <1>4, <2>1, <2>2 DEF Hop
    <2>4. <<n, m>> \in links
      BY <1>6, <2>3
    <2>5. m \in DOMAIN t.dis
      BY <1>5, <2>1, <2>3, <2>4
    <2>6. m \in X
      BY <2>5 DEF Via
    <2>7. s.dis[n] <= s.dis[m]
      BY <1>8, <1>9, <2>6
    <2> QED BY <1>4, <2>1, <2>3, <2>7
  <1>11. h \in DOMAIN t.dis /\ t.dis[h] <= N
    BY <1>5, <1>10
  <1> HIDE DEF X, Y
  <1> QED BY <1>1, <1>2, <1>11, Balls DEF N
-----------------------------------------------------------------------------
(***************************************************************************)
(* The tables, the queue pairs and the packets.                            *)
(***************************************************************************)
Reach(links, n, h) == n \in Ball(links, h)[Cardinality(Node)]

\* A packet under way is not the mark of an unused place.
LEMMA PacketIsSome == \A qp, from, to : [qp |-> qp, from |-> from, to |-> to] # None
  <1> SUFFICES ASSUME NEW qp, NEW from, NEW to,
                      [qp |-> qp, from |-> from, to |-> to] = [qp |-> "none"]
               PROVE  FALSE
    BY DEF None
  <1>1. "to" \in DOMAIN [qp |-> qp, from |-> from, to |-> to]
    OBVIOUS
  <1>2. "to" \notin DOMAIN [n \in {"qp"} |-> "none"]
    OBVIOUS
  <1> QED BY <1>1, <1>2

LEMMA HostIsNode == Host \subseteq Node /\ \A f \in Qp : f.src \in Node /\ f.dst \in Node
  BY QpAssumption DEF Node

\* An entry of the table of n towards host h.
LEMMA RouteFacts ==
  ASSUME NEW links, Symmetric(links), NEW n \in Node, NEW h \in Host
  PROVE  LET v == Routes(links)[n][h]
         IN  /\ v \in Seq(Node)
             /\ \A k \in 1..Len(v) : v[k] \in Switch \cup {h} /\ <<n, v[k]>> \in links
             /\ n # h /\ Reach(links, n, h) => v # <<>>
  <1>1. h \in Node
    BY HostIsNode
  <1>2. Routes(links)[n][h] = CalculateRoute(links, h)[n]
    BY DEF Routes
  <1>3. Entries(links, h, CalculateRoute(links, h))
    BY <1>1, RoutesFound
  <1> QED BY <1>2, <1>3 DEF Entries, Via, Reach

\* The hash selects an entry.
LEMMA NicFacts ==
  ASSUME NEW v \in Seq(Node), v # <<>>, NEW x \in Nat
  PROVE  \E k \in 1..Len(v) : GetNicIdxOfQp(v, x) = v[k]
  <1>1. Len(v) \in Nat /\ Len(v) > 0
    OBVIOUS
  <1>2. x % Len(v) \in 0..(Len(v) - 1)
    BY <1>1
  <1>3. (x % Len(v)) + 1 \in 1..Len(v)
    BY <1>1, <1>2
  <1> QED BY <1>3 DEF GetNicIdxOfQp

\* Filling cleared tables gives the routes of the links.
LEMMA FilledTables ==
  ASSUME NEW links, Symmetric(links)
  PROVE  SetRoutingEntries(NoRoutes, CalculateRoutes(NoRoutes, links)) = Routes(links)
  <1>1. ASSUME NEW n \in Node, NEW h \in Host
        PROVE  /\ CalculateRoute(links, h)[n] \in Seq(Node)
               /\ CalculateRoutes(NoRoutes, links)[n][h] = CalculateRoute(links, h)[n]
    <2>1. h \in Node
      BY HostIsNode
    <2>2. Entries(links, h, CalculateRoute(links, h))
      BY <2>1, RoutesFound
    <2>3. CalculateRoute(links, h)[n] \in Seq(Node)
      BY <2>2 DEF Entries
    <2>4. CalculateRoutes(NoRoutes, links)[n][h] = <<>> \o CalculateRoute(links, h)[n]
      BY DEF CalculateRoutes, NoRoutes
    <2> QED BY <2>3, <2>4
  <1>2. ASSUME NEW n \in Node, NEW h \in Host
        PROVE  NoRoutes[n][h] \o CalculateRoutes(NoRoutes, links)[n][h] = CalculateRoute(links, h)[n]
    <2>1. NoRoutes[n][h] = <<>>
      BY DEF NoRoutes
    <2> QED BY <1>1, <2>1
  <1> QED BY <1>2 DEF SetRoutingEntries, Routes

\* Without the two directions of one link.
LEMMA FewerLinks ==
  ASSUME NEW links, Symmetric(links), NEW w \in Wire
  PROVE  Symmetric(links \ {w, <<w[2], w[1]>>})
  <1>1. w = <<w[1], w[2]>>
    BY WireAssumption
  <1> SUFFICES ASSUME NEW a \in Node, NEW b \in Node, <<a, b>> \in links,
                      <<a, b>> # w, <<a, b>> # <<w[2], w[1]>>
               PROVE  <<b, a>> \in links /\ <<b, a>> # w /\ <<b, a>> # <<w[2], w[1]>>
    BY DEF Symmetric
  <1>2. <<b, a>> \in links
    BY DEF Symmetric
  <1>3. <<b, a>> # w
    BY <1>1
  <1>4. <<b, a>> # <<w[2], w[1]>>
    BY <1>1
  <1> QED BY <1>2, <1>3, <1>4

LEMMA InitInv ==
  ASSUME Init
  PROVE  Inv
  <1>1. Symmetric(up)
    <2>1. \A w \in Wire : w \in Node \X Node /\ w = <<w[1], w[2]>>
      BY WireAssumption
    <2>2. BothWays \in SUBSET (Node \X Node)
      BY <2>1 DEF BothWays
    <2>3. ASSUME NEW a \in Node, NEW b \in Node, <<a, b>> \in BothWays
          PROVE  <<b, a>> \in BothWays
      <3>1. CASE <<a, b>> \in Wire
        <4>1. <<<<a, b>>[2], <<a, b>>[1]>> \in BothWays
          BY <3>1 DEF BothWays
        <4> QED BY <4>1
      <3>2. CASE \E w \in Wire : <<a, b>> = <<w[2], w[1]>>
        <4>1. PICK w \in Wire : <<a, b>> = <<w[2], w[1]>>
          BY <3>2
        <4>2. w = <<b, a>>
          BY <2>1, <4>1
        <4> QED BY <4>2 DEF BothWays
      <3> QED BY <2>3, <3>1, <3>2 DEF BothWays
    <2> QED BY <2>2, <2>3 DEF Init, Symmetric
  <1>2. TablesFollow
    BY <1>1, FilledTables DEF Init, TablesFollow
  <1>3. RoutingType
    BY <1>1, HostIsNode DEF Init, RoutingType
  <1>4. PacketsFollow
    BY DEF Init, PacketsFollow
  <1>5. GroupsFollow
    BY QpAssumption DEF Init, GroupsFollow
  <1>6. AbortOnlyWhenCut
    BY DEF Init, AbortOnlyWhenCut
  <1> QED BY <1>2, <1>3, <1>4, <1>5, <1>6 DEF Inv

\* The table of the sender of f, and what it means that it has no entry.
LEMMA QpRoute ==
  ASSUME Inv, NEW f \in Qp
  PROVE  LET v == rtTable[f.src][f.dst]
         IN  /\ v \in Seq(Node)
             /\ v # <<>> => /\ Nic(f) \in Node /\ Nic(f) \in Switch \cup {f.dst}
                            /\ <<f.src, Nic(f)>> \in up
             /\ v = <<>> => ~ Reach(up, f.src, f.dst)
  <1> DEFINE v == rtTable[f.src][f.dst]
  <1>1. f.src \in Node /\ f.dst \in Host /\ f.dst \in Node /\ f.src # f.dst /\ f.hash \in Nat
    BY QpAssumption, HostIsNode
  <1>2. v = Routes(up)[f.src][f.dst] /\ Symmetric(up)
    BY DEF Inv, TablesFollow, RoutingType
  <1>3. /\ v \in Seq(Node)
        /\ \A k \in 1..Len(v) : v[k] \in Switch \cup {f.dst} /\ <<f.src, v[k]>> \in up
        /\ Reach(up, f.src, f.dst) => v # <<>>
    BY <1>1, <1>2, RouteFacts
  <1>4. Nic(f) = GetNicIdxOfQp(v, f.hash)
    BY DEF Nic
  <1> HIDE DEF v
  <1>5. ASSUME v # <<>> PROVE /\ Nic(f) \in Node /\ Nic(f) \in Switch \cup {f.dst}
                              /\ <<f.src, Nic(f)>> \in up
    <2>1. PICK k \in 1..Len(v) : GetNicIdxOfQp(v, f.hash) = v[k]
      BY <1>1, <1>3, <1>5, NicFacts
    <2>2. v[k] \in Node
      BY <1>3
    <2> QED BY <1>3, <1>4, <2>1, <2>2
  <1> QED BY <1>3, <1>5 DEF v

LEMMA AddQueuePairInv ==
  ASSUME Inv, NEW f \in Qp, AddQueuePair(f)
  PROVE  Inv'
  <1> DEFINE v == rtTable[f.src][f.dst]
  <1>1. /\ ~ aborted /\ status[f] = "new"
        /\ UNCHANGED <<up, nextHop, rtTable, net>>
        /\ \/ /\ v # <<>>
              /\ status' = [status EXCEPT ![f] = "live"]
              /\ qpGrp' = [qpGrp EXCEPT ![f.src][Nic(f)] = @ \cup {f}]
              /\ UNCHANGED aborted
           \/ /\ v = <<>>
              /\ aborted' = TRUE
              /\ UNCHANGED <<status, qpGrp>>
    BY DEF AddQueuePair, Nic
  <1>2. /\ Symmetric(up) /\ status \in [Qp -> {"new", "live", "done"}]
        /\ qpGrp \in [Host -> [Node -> SUBSET Qp]] /\ TablesFollow /\ PacketsFollow
        /\ GroupsFollow
    BY <1>1 DEF Inv, RoutingType
  <1>3. f.src \in Host
    BY QpAssumption
  <1>4. TablesFollow' /\ PacketsFollow' /\ Symmetric(up)'
    BY <1>1, <1>2 DEF TablesFollow, PacketsFollow
  <1>5. CASE v # <<>>
    <2>1. Nic(f) \in Node
      BY <1>5, QpRoute
    <2>2. /\ status' = [status EXCEPT ![f] = "live"]
          /\ qpGrp' = [qpGrp EXCEPT ![f.src][Nic(f)] = @ \cup {f}] /\ aborted' = FALSE
      BY <1>1, <1>5 DEF Inv, RoutingType
    <2>3. RoutingType'
      BY <1>2, <1>3, <1>4, <2>1, <2>2 DEF RoutingType
    <2>4. ASSUME NEW g \in Qp
          PROVE  /\ status'[g] = "live" => rtTable[g.src][g.dst] # <<>>
                 /\ \A n \in Node : g \in qpGrp'[g.src][n] <=> status'[g] = "live" /\ n = Nic(g)
      <3>0. g.src \in Host
        BY QpAssumption
      <3>1. CASE g = f
        <4>1. status'[g] = "live" /\ \A n \in Node : f \notin qpGrp[f.src][n]
          BY <1>1, <1>2, <2>2, <3>1 DEF GroupsFollow
        <4>2. \A n \in Node : f \in qpGrp'[f.src][n] <=> n = Nic(f)
          BY <1>2, <1>3, <2>1, <2>2, <4>1
        <4> QED BY <1>5, <3>1, <4>1, <4>2
      <3>2. CASE g # f
        <4>1. status'[g] = status[g]
          BY <1>2, <2>2, <3>2
        <4>2. \A n \in Node : g \in qpGrp'[g.src][n] <=> g \in qpGrp[g.src][n]
          <5> SUFFICES ASSUME NEW n \in Node PROVE g \in qpGrp'[g.src][n] <=> g \in qpGrp[g.src][n]
            OBVIOUS
          <5>1. qpGrp'[g.src][n] \in {qpGrp[g.src][n], qpGrp[g.src][n] \cup {f}}
            BY <1>2, <1>3, <2>1, <2>2, <3>0
          <5> QED BY <3>2, <5>1
        <4> QED BY <1>2, <4>1, <4>2 DEF GroupsFollow
      <3> QED BY <3>1, <3>2
    <2>5. GroupsFollow'
      BY <1>1, <2>4 DEF GroupsFollow, Nic
    <2>6. AbortOnlyWhenCut'
      BY <2>2 DEF AbortOnlyWhenCut
    <2> QED BY <1>4, <2>3, <2>5, <2>6 DEF Inv
  <1>6. CASE v = <<>>
    <2>1. ~ Reach(up, f.src, f.dst)
      BY <1>6, QpRoute
    <2>2. aborted' = TRUE /\ UNCHANGED <<status, qpGrp>>
      BY <1>1, <1>6
    <2>3. AbortOnlyWhenCut'
      BY <1>1, <2>1 DEF AbortOnlyWhenCut, Reaches, Within, Reach
    <2>4. RoutingType'
      BY <1>2, <1>4, <2>2 DEF RoutingType
    <2> QED BY <1>4, <2>2, <2>3, <2>4 DEF Inv
  <1> QED BY <1>5, <1>6

LEMMA QpCompleteInv ==
  ASSUME Inv, NEW f \in Qp, QpComplete(f)
  PROVE  Inv'
  <1>1. /\ ~ aborted /\ status[f] = "live"
        /\ status' = [status EXCEPT ![f] = "done"]
        /\ qpGrp' = [qpGrp EXCEPT ![f.src] = [n \in Node |-> qpGrp[f.src][n] \ {f}]]
        /\ UNCHANGED <<up, nextHop, rtTable, net, aborted>>
    BY DEF QpComplete
  <1>2. /\ Symmetric(up) /\ status \in [Qp -> {"new", "live", "done"}]
        /\ qpGrp \in [Host -> [Node -> SUBSET Qp]] /\ TablesFollow /\ PacketsFollow
        /\ GroupsFollow /\ aborted \in BOOLEAN
    BY <1>1 DEF Inv, RoutingType
  <1>3. f.src \in Host
    BY QpAssumption
  <1>4. TablesFollow' /\ PacketsFollow' /\ Symmetric(up)'
    BY <1>1, <1>2 DEF TablesFollow, PacketsFollow
  <1>5. RoutingType'
    <2>1. [n \in Node |-> qpGrp[f.src][n] \ {f}] \in [Node -> SUBSET Qp]
      BY <1>2, <1>3
    <2>2. qpGrp' \in [Host -> [Node -> SUBSET Qp]]
      BY <1>1, <1>2, <2>1
    <2> QED BY <1>1, <1>2, <1>4, <2>2 DEF RoutingType
  <1>6. ASSUME NEW g \in Qp
        PROVE  /\ status'[g] = "live" => rtTable[g.src][g.dst] # <<>>
               /\ \A n \in Node : g \in qpGrp'[g.src][n] <=> status'[g] = "live" /\ n = Nic(g)
    <2>0. g.src \in Host
      BY QpAssumption
    <2>1. \A n \in Node : g \in qpGrp'[g.src][n] <=> g \in qpGrp[g.src][n] /\ g # f
      <3> SUFFICES ASSUME NEW n \in Node
                   PROVE  g \in qpGrp'[g.src][n] <=> g \in qpGrp[g.src][n] /\ g # f
        OBVIOUS
      <3>1. CASE g.src = f.src
        <4>1. qpGrp'[g.src] = [m \in Node |-> qpGrp[f.src][m] \ {f}]
          BY <1>1, <1>2, <1>3, <3>1
        <4> QED BY <3>1, <4>1
      <3>2. CASE g.src # f.src
        <4>1. qpGrp'[g.src] = qpGrp[g.src]
          BY <1>1, <1>2, <2>0, <3>2
        <4> QED BY <3>2, <4>1
      <3> QED BY <3>1, <3>2
    <2>2. status'[g] = "live" <=> status[g] = "live" /\ g # f
      BY <1>1, <1>2
    <2> QED BY <1>2, <2>1, <2>2 DEF GroupsFollow
  <1>7. GroupsFollow'
    BY <1>1, <1>6 DEF GroupsFollow, Nic
  <1>8. AbortOnlyWhenCut'
    BY <1>1 DEF AbortOnlyWhenCut
  <1> QED BY <1>4, <1>5, <1>7, <1>8 DEF Inv

\* A step that moves packets only.
LEMMA NetInv ==
  ASSUME Inv, UNCHANGED <<up, rtTable, status, qpGrp, aborted>>, PacketsFollow'
  PROVE  Inv'
  <1>1. RoutingType' /\ TablesFollow' /\ AbortOnlyWhenCut'
    BY DEF Inv, RoutingType, TablesFollow, AbortOnlyWhenCut, Reaches, Within
  <1>2. ~ aborted => GroupsFollow'
    BY DEF Inv, GroupsFollow, Nic
  <1> QED BY <1>1, <1>2 DEF Inv

LEMMA SendInv ==
  ASSUME Inv, NEW f \in Qp, NEW n \in Node, Send(f, n)
  PROVE  Inv'
  <1>1. /\ ~ aborted /\ f \in qpGrp[f.src][n]
        /\ UNCHANGED <<up, nextHop, rtTable, status, qpGrp, aborted>>
    BY DEF Send
  <1>2. PICK i \in PktId : net' = [net EXCEPT ![i] = [qp |-> f, from |-> f.src, to |-> n]]
    BY DEF Send
  <1>3. rtTable[f.src][f.dst] # <<>> /\ n = Nic(f)
    BY <1>1 DEF Inv, GroupsFollow
  <1>4. n \in Switch \cup {f.dst}
    BY <1>3, QpRoute
  <1>0. DOMAIN net' = PktId
    BY <1>2 DEF Inv, PacketsFollow
  <1>5. PacketsFollow'
    <2> SUFFICES ASSUME NEW j \in PktId, net'[j] # None
                 PROVE  net'[j].qp \in Qp /\ net'[j].to \in Switch \cup {net'[j].qp.dst}
      BY <1>0 DEF PacketsFollow, None
    <2>1. net'[j] = net[j] \/ net'[j] = [qp |-> f, from |-> f.src, to |-> n]
      BY <1>2
    <2> QED BY <1>4, <2>1 DEF Inv, PacketsFollow
  <1> QED BY <1>1, <1>5, NetInv

LEMMA ForwardInv ==
  ASSUME Inv, NEW i \in PktId, Forward(i)
  PROVE  Inv'
  <1> DEFINE p == net[i]
             v == rtTable[p.to][p.qp.dst]
  <1>1. /\ p # None /\ p.to \in Switch
        /\ \/ net' = [net EXCEPT ![i] = None]
           \/ \E k \in 1..Len(v) : net' = [net EXCEPT ![i] = [qp |-> p.qp, from |-> p.to, to |-> v[k]]]
        /\ UNCHANGED <<up, nextHop, rtTable, status, qpGrp, aborted>>
    BY DEF Forward
  <1>2. p.qp \in Qp
    BY <1>1 DEF Inv, PacketsFollow
  <1>3. \A k \in 1..Len(v) : v[k] \in Switch \cup {p.qp.dst}
    <2>1. p.to \in Node /\ p.qp.dst \in Host
      BY <1>1, <1>2, QpAssumption DEF Node
    <2>2. v = Routes(up)[p.to][p.qp.dst] /\ Symmetric(up)
      BY DEF Inv, TablesFollow, RoutingType
    <2> QED BY <2>1, <2>2, RouteFacts
  <1>0. DOMAIN net' = PktId
    BY <1>1 DEF Inv, PacketsFollow
  <1>4. PacketsFollow'
    <2> SUFFICES ASSUME NEW j \in PktId, net'[j] # None
                 PROVE  net'[j].qp \in Qp /\ net'[j].to \in Switch \cup {net'[j].qp.dst}
      BY <1>0 DEF PacketsFollow, None
    <2>1. CASE net'[j] = net[j]
      BY <2>1 DEF Inv, PacketsFollow
    <2>2. CASE \E k \in 1..Len(v) : net'[j] = [qp |-> p.qp, from |-> p.to, to |-> v[k]]
      <3> HIDE DEF p, v
      <3>1. PICK k \in 1..Len(v) : net'[j] = [qp |-> p.qp, from |-> p.to, to |-> v[k]]
        BY <2>2
      <3>2. net'[j].qp = p.qp /\ net'[j].to = v[k]
        BY <3>1
      <3> QED BY <1>2, <1>3, <3>2
    <2>3. net'[j] = net[j] \/ \E k \in 1..Len(v) : net'[j] = [qp |-> p.qp, from |-> p.to, to |-> v[k]]
      <3> HIDE DEF p, v
      <3>1. CASE net' = [net EXCEPT ![i] = None]
        BY <3>1
      <3>2. CASE \E k \in 1..Len(v) : net' = [net EXCEPT ![i] = [qp |-> p.qp, from |-> p.to, to |-> v[k]]]
        <4>1. PICK k \in 1..Len(v) : net' = [net EXCEPT ![i] = [qp |-> p.qp, from |-> p.to, to |-> v[k]]]
          BY <3>2
        <4>2. net'[j] = net[j] \/ net'[j] = [qp |-> p.qp, from |-> p.to, to |-> v[k]]
          BY <4>1
        <4> QED BY <4>2
      <3> QED BY <1>1, <3>1, <3>2
    <2> QED BY <2>1, <2>2, <2>3
  <1> QED BY <1>1, <1>4, NetInv

LEMMA DeliverInv ==
  ASSUME Inv, NEW i \in PktId, Deliver(i)
  PROVE  Inv'
  <1> DEFINE p == net[i]
             f == p.qp
  <1>1. /\ ~ aborted /\ p # None /\ p.to \in Host
        /\ net' = [net EXCEPT ![i] = None]
        /\ aborted' = (rtTable[p.to][f.src] = <<>>)
        /\ UNCHANGED <<up, nextHop, rtTable, status, qpGrp>>
    BY DEF Deliver
  <1>2. f \in Qp /\ p.to = f.dst
    BY <1>1, NodeAssumption DEF Inv, PacketsFollow
  <1>3. f.src \in Host /\ f.src \in Node /\ f.dst \in Node /\ f.src # f.dst
    BY <1>2, QpAssumption, HostIsNode
  <1>4. RoutingType' /\ TablesFollow'
    BY <1>1 DEF Inv, RoutingType, TablesFollow
  <1>0. DOMAIN net' = PktId
    BY <1>1 DEF Inv, PacketsFollow
  <1>5. PacketsFollow'
    <2> SUFFICES ASSUME NEW j \in PktId, net'[j] # None
                 PROVE  net'[j].qp \in Qp /\ net'[j].to \in Switch \cup {net'[j].qp.dst}
      BY <1>0 DEF PacketsFollow, None
    <2>1. net'[j] = net[j]
      BY <1>1
    <2> QED BY <2>1 DEF Inv, PacketsFollow
  <1>6. ~ aborted' => GroupsFollow'
    BY <1>1 DEF Inv, GroupsFollow, Nic
  <1>7. AbortOnlyWhenCut'
    <2> SUFFICES ASSUME aborted' PROVE \E g \in Qp : ~ Reach(up', g.src, g.dst)
      BY DEF AbortOnlyWhenCut, Reaches, Within, Reach
    <2> HIDE DEF f, p
    <2>1. rtTable[f.dst][f.src] = <<>> /\ rtTable = Routes(up) /\ Symmetric(up)
      BY <1>1, <1>2 DEF Inv, TablesFollow, RoutingType
    <2>2. ~ Reach(up, f.dst, f.src)
      BY <1>3, <2>1, RouteFacts
    <2>3. ~ Reach(up, f.src, f.dst)
      BY <1>3, <2>1, <2>2, WayBack DEF Reach
    <2> QED BY <1>1, <1>2, <2>3
  <1> QED BY <1>4, <1>5, <1>6, <1>7 DEF Inv

LEMMA TakeDownLinkInv ==
  ASSUME Inv, NEW w \in Wire, TakeDownLink(w)
  PROVE  Inv'
  <1> DEFINE links == up \ {w, <<w[2], w[1]>>}
             table == Routes(links)
             cut == \E f \in Qp : status[f] = "live" /\ table[f.src][f.dst] = <<>>
  <1>1. Symmetric(up) /\ Symmetric(links)
    BY FewerLinks DEF Inv, RoutingType
  <1>2. SetRoutingEntries(ClearTable, CalculateRoutes(NoRoutes, links)) = table
    BY <1>1, FilledTables DEF ClearTable
  <1>3. /\ up' = links /\ rtTable' = table /\ net' = LostWith(w) /\ aborted' = cut
        /\ qpGrp' = IF cut THEN qpGrp ELSE [h \in Host |-> RedistributeQp(table, h)]
        /\ status' = status
    BY <1>2 DEF TakeDownLink
  <1> HIDE DEF links, table
  <1>4. /\ status \in [Qp -> {"new", "live", "done"}] /\ qpGrp \in [Host -> [Node -> SUBSET Qp]]
    BY DEF Inv, RoutingType
  <1>5. \A h \in Host : RedistributeQp(table, h) \in [Node -> SUBSET Qp]
    BY DEF RedistributeQp
  <1>6. RoutingType'
    <2>1. qpGrp' \in [Host -> [Node -> SUBSET Qp]]
      BY <1>3, <1>4, <1>5
    <2>2. aborted' \in BOOLEAN
      BY <1>3
    <2> QED BY <1>1, <1>3, <1>4, <2>1, <2>2 DEF RoutingType
  <1>7. TablesFollow'
    BY <1>3 DEF TablesFollow, table
  <1>0. DOMAIN net' = PktId
    BY <1>3 DEF LostWith
  <1>8. PacketsFollow'
    <2> SUFFICES ASSUME NEW j \in PktId, net'[j] # None
                 PROVE  net'[j].qp \in Qp /\ net'[j].to \in Switch \cup {net'[j].qp.dst}
      BY <1>0 DEF PacketsFollow, None
    <2>1. net'[j] = net[j]
      BY <1>3 DEF LostWith
    <2> QED BY <2>1 DEF Inv, PacketsFollow
  <1>9. ASSUME ~ aborted' PROVE GroupsFollow'
    <2>1. ~ cut /\ qpGrp' = [h \in Host |-> RedistributeQp(table, h)]
      BY <1>3, <1>9
    <2>2. ASSUME NEW g \in Qp
          PROVE  /\ status[g] = "live" => table[g.src][g.dst] # <<>>
                 /\ \A n \in Node : g \in qpGrp'[g.src][n] <=>
                      status[g] = "live" /\ n = GetNicIdxOfQp(table[g.src][g.dst], g.hash)
      <3>1. qpGrp'[g.src] = RedistributeQp(table, g.src)
        BY <2>1, QpAssumption
      <3>2. \A n \in Node : g \in RedistributeQp(table, g.src)[n] <=>
              status[g] = "live" /\ n = GetNicIdxOfQp(table[g.src][g.dst], g.hash)
        BY DEF RedistributeQp
      <3>3. status[g] = "live" => table[g.src][g.dst] # <<>>
        BY <2>1
      <3> QED BY <3>1, <3>2, <3>3
    <2> QED BY <1>3, <2>2 DEF GroupsFollow, Nic
  <1>10. AbortOnlyWhenCut'
    <2> SUFFICES ASSUME aborted' PROVE \E f \in Qp : ~ Reach(up', f.src, f.dst)
      BY DEF AbortOnlyWhenCut, Reaches, Within, Reach
    <2>1. PICK f \in Qp : table[f.src][f.dst] = <<>>
      BY <1>3
    <2>2. f.src \in Node /\ f.dst \in Host /\ f.src # f.dst
      BY QpAssumption, HostIsNode
    <2>3. ~ Reach(links, f.src, f.dst)
      BY <1>1, <2>1, <2>2, RouteFacts DEF table
    <2> QED BY <1>3, <2>3
  <1> QED BY <1>6, <1>7, <1>8, <1>9, <1>10 DEF Inv

LEMMA NextInv ==
  ASSUME Inv, [Next]_vars
  PROVE  Inv'
  <1>1. CASE UNCHANGED vars
    <2>1. PacketsFollow'
      BY <1>1 DEF Inv, PacketsFollow, vars
    <2> QED BY <1>1, <2>1, NetInv DEF vars
  <1>2. CASE Traffic
    BY <1>2, AddQueuePairInv, QpCompleteInv, SendInv, ForwardInv, DeliverInv DEF Traffic
  <1>3. CASE \E w \in Wire : TakeDownLink(w)
    BY <1>3, TakeDownLinkInv
  <1> QED BY <1>1, <1>2, <1>3 DEF Next

LEMMA Invariant == Spec => []Inv
  <1>1. Init => Inv
    BY InitInv
  <1>2. Inv /\ [Next]_vars => Inv'
    BY NextInv
  <1> QED BY <1>1, <1>2, PTL DEF Spec
-----------------------------------------------------------------------------
(***************************************************************************)
(* The theorems.                                                           *)
(***************************************************************************)
\* After Init and after every TakeDownLink the tables hold exactly the shortest
\* paths over the links that are up, for every topology and every sequence of
\* failures.
THEOREM ShortestRoutes == Spec => []RoutesAreShortest
  <1>1. Inv => RoutesAreShortest
    <2> SUFFICES ASSUME Inv, NEW h \in Host
                 PROVE  /\ \A n \in Node \ Ball(up, h)[Cardinality(Node)] : rtTable[n][h] = <<>>
                        /\ \A k \in 1..Cardinality(Node) :
                             \A n \in Ball(up, h)[k] \ Ball(up, h)[k - 1] :
                               /\ IsInjective(rtTable[n][h])
                               /\ ToSet(rtTable[n][h]) =
                                    {m \in Ball(up, h)[k - 1] \cap (Switch \cup {h}) :
                                       {<<n, m>>, <<m, n>>} \subseteq up}
      BY DEF RoutesAreShortest, Within
    <2> DEFINE R == CalculateRoute(up, h)
    <2>1. h \in Node /\ Symmetric(up) /\ rtTable = Routes(up)
      BY HostIsNode DEF Inv, RoutingType, TablesFollow
    <2>2. Shortest(up, h, R)
      BY <2>1, RoutesFound
    <2>3. \A n \in Node : rtTable[n][h] = R[n]
      BY <2>1 DEF Routes
    <2> HIDE DEF R
    <2>4. Cardinality(Node) \in Nat
      BY NodeAssumption, FS_CardinalityType
    <2>5. \A k \in 1..Cardinality(Node) : Ball(up, h)[k] \in SUBSET Node
      BY <2>1, <2>4, BallDef
    <2> QED BY <2>2, <2>3, <2>5 DEF Shortest
  <1> QED BY <1>1, Invariant, PTL

\* A live queue pair is in the group of the NIC its hash selects and of no other,
\* and the link of that NIC is up: AddQueuePair, RedistributeQp and QpComplete
\* keep the groups in step with tables that TakeDownLink rebuilds.
THEOREM LiveQpsServed == Spec => []LiveQpServed
  <1>1. Inv => LiveQpServed
    <2> SUFFICES ASSUME Inv, ~ aborted, NEW f \in Qp, status[f] = "live"
                 PROVE  /\ {n \in Node : f \in qpGrp[f.src][n]} = {Nic(f)}
                        /\ \A n \in {m \in Node : f \in qpGrp[f.src][m]} : <<f.src, n>> \in up
      BY DEF LiveQpServed, Nic
    <2>1. rtTable[f.src][f.dst] # <<>> /\ \A n \in Node : f \in qpGrp[f.src][n] <=> n = Nic(f)
      BY DEF Inv, GroupsFollow
    <2>2. Nic(f) \in Node /\ <<f.src, Nic(f)>> \in up
      BY <2>1, QpRoute
    <2> QED BY <2>1, <2>2
  <1> QED BY <1>1, Invariant, PTL

\* "We assume at least one NIC is alive" fails, in AddQueuePair, RedistributeQp
\* or for the way back in ReceiveUdp, only when the failures have separated the
\* two hosts of a queue pair.
THEOREM AbortsOnlyWhenCut == Spec => []AbortOnlyWhenCut
  <1>1. Inv => AbortOnlyWhenCut
    BY DEF Inv
  <1> QED BY <1>1, Invariant, PTL

\* Each hop of SendToDev brings a packet one hop closer to its receiver over a
\* link that is up, and a switch drops one only when the receiver cannot be
\* reached from it: also a packet sent along the routes of before a failure.
HopsCloser ==
  \A i \in PktId : Forward(i) =>
    LET p == net[i]
    IN  /\ net'[i] = None => ~ Reaches(p.to, p.qp.dst)
        /\ net'[i] # None =>
             /\ <<p.to, net'[i].to>> \in up
             /\ \A k \in Nat \ {0} : p.to \in Within(p.qp.dst, k) => net'[i].to \in Within(p.qp.dst, k - 1)

LEMMA EntriesCloser ==
  ASSUME NEW links, Symmetric(links), NEW h \in Host, NEW n \in Node, NEW k \in Nat \ {0},
         n \in Ball(links, h)[k], NEW r \in 1..Len(Routes(links)[n][h])
  PROVE  Routes(links)[n][h][r] \in Ball(links, h)[k - 1]
  <1> DEFINE s == Search(links, h)[Cardinality(Node)]
             v == Routes(links)[n][h]
  <1>1. h \in Node
    BY HostIsNode
  <1>2. Searched(links, h, s)
    BY <1>1, SearchEnds
  <1>3. v = s.hops[n]
    BY DEF Routes, CalculateRoute
  <1> HIDE DEF s
  <1>4. /\ v \in Seq(Node) /\ ToSet(v) = {m \in DOMAIN s.dis \cap Via(h) : Hop(links, s, m, n)}
        /\ \A m \in DOMAIN s.dis : s.dis[m] \in Nat
    BY <1>2, <1>3 DEF Searched
  <1> HIDE DEF v
  <1>5. v[r] \in ToSet(v)
    BY <1>4 DEF ToSet, v
  <1>6. v[r] \in DOMAIN s.dis /\ n \in DOMAIN s.dis /\ s.dis[n] = s.dis[v[r]] + 1
    BY <1>4, <1>5 DEF Hop
  <1>7. \A j \in Nat : Ball(links, h)[j] = {m \in DOMAIN s.dis : s.dis[m] <= j}
    BY <1>1, <1>2, Balls
  <1>8. k - 1 \in Nat /\ k \in Nat /\ s.dis[n] <= k
    BY <1>7
  <1>9. s.dis[v[r]] <= k - 1
    BY <1>4, <1>6, <1>8
  <1> QED BY <1>6, <1>7, <1>8, <1>9 DEF v

\* With the tables of any moment, no packet is forwarded in circles.
THEOREM PacketsComeCloser == Spec => [][HopsCloser]_vars
  <1>1. Inv => HopsCloser
    <2> SUFFICES ASSUME Inv, NEW i \in PktId, Forward(i)
                 PROVE  /\ net'[i] = None => ~ Reach(up, net[i].to, net[i].qp.dst)
                        /\ net'[i] # None =>
                             /\ <<net[i].to, net'[i].to>> \in up
                             /\ \A k \in Nat \ {0} :
                                  net[i].to \in Ball(up, net[i].qp.dst)[k] =>
                                    net'[i].to \in Ball(up, net[i].qp.dst)[k - 1]
      BY DEF HopsCloser, Reaches, Within, Reach
    <2> DEFINE p == net[i]
               v == rtTable[p.to][p.qp.dst]
    <2>1. /\ p # None /\ p.to \in Switch
          /\ \/ v = <<>> /\ net' = [net EXCEPT ![i] = None]
             \/ \E k \in 1..Len(v) : net' = [net EXCEPT ![i] = [qp |-> p.qp, from |-> p.to, to |-> v[k]]]
      BY DEF Forward
    <2>2. p.qp \in Qp
      BY <2>1 DEF Inv, PacketsFollow
    <2>3. p.to \in Node /\ p.qp.dst \in Host /\ p.to # p.qp.dst
      BY <2>1, <2>2, QpAssumption, NodeAssumption DEF Node
    <2>4. v = Routes(up)[p.to][p.qp.dst] /\ Symmetric(up)
      BY DEF Inv, TablesFollow, RoutingType
    <2>5. /\ \A k \in 1..Len(v) : <<p.to, v[k]>> \in up
          /\ v = <<>> => ~ Reach(up, p.to, p.qp.dst)
      <3> HIDE DEF p, v
      <3>1. LET w == Routes(up)[p.to][p.qp.dst]
            IN  /\ \A k \in 1..Len(w) : <<p.to, w[k]>> \in up
                /\ p.to # p.qp.dst /\ Reach(up, p.to, p.qp.dst) => w # <<>>
        BY <2>3, <2>4, RouteFacts
      <3> QED BY <2>3, <2>4, <3>1
    <2>6. \A r \in 1..Len(v), k \in Nat \ {0} :
            p.to \in Ball(up, p.qp.dst)[k] => v[r] \in Ball(up, p.qp.dst)[k - 1]
      BY <2>3, <2>4, EntriesCloser
    <2>7. i \in DOMAIN net
      BY DEF Inv, PacketsFollow
    <2>8. CASE v = <<>> /\ net' = [net EXCEPT ![i] = None]
      BY <2>5, <2>7, <2>8
    <2>9. CASE \E k \in 1..Len(v) : net' = [net EXCEPT ![i] = [qp |-> p.qp, from |-> p.to, to |-> v[k]]]
      <3>1. PICK r \in 1..Len(v) : net' = [net EXCEPT ![i] = [qp |-> p.qp, from |-> p.to, to |-> v[r]]]
        BY <2>9
      <3>2. net'[i] = [qp |-> p.qp, from |-> p.to, to |-> v[r]]
        BY <2>7, <3>1
      <3>3. net'[i].to = v[r]
        <4> HIDE DEF p, v
        <4> QED BY <3>2
      <3>4. net'[i] # None
        BY <3>2, PacketIsSome
      <3> QED BY <2>5, <2>6, <3>3, <3>4
    <2> QED BY <2>1, <2>8, <2>9
  <1> QED BY <1>1, Invariant, PTL
=============================================================================
