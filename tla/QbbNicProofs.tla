---------------------------- MODULE QbbNicProofs ----------------------------
(***************************************************************************)
(* Proofs about QbbNic, for any number of queue pairs, any priorities, any *)
(* rates, any flow size and window, and any number of disturbances.        *)
(***************************************************************************)
EXTENDS QbbNic, FiniteSetTheorems, WellFoundedInduction, TLAPS

(***************************************************************************)
(* The inductive invariant, as predicates on the record an event works on. *)
(***************************************************************************)
State ==
  [ grp      : Seq(QP),
    rr       : Nat,
    nxt      : [QP -> 0..m_size],
    una      : [QP -> 0..m_size],
    avail    : [QP -> -MaxGap..MaxGap],
    gap      : [QP -> SendTimes],
    ackQ     : Nat,
    tx       : -1..TxTime,
    nextSend : -1..MaxGap,
    paused   : [Prio -> BOOLEAN],
    upTo     : [QP -> 0..m_size] ]

\* No queue pair is twice in the group.
Distinct(g) == \A i, j \in 1..Len(g) : g[i] = g[j] => i = j

InGroup(g, q) == \E i \in 1..Len(g) : g[i] = q

\* The next packet is never further away than the time of one packet.
Paced(s) == \A q \in QP : s.avail[q] <= s.gap[q]

\* The group has no queue pair before it is opened and every one until it is
\* complete; a queue pair is complete when all of it is acknowledged.
Served(s, st) ==
  \A q \in QP :
    /\ st[q] = "new"  => ~ InGroup(s.grp, q) /\ s.una[q] = 0
    /\ st[q] = "live" => InGroup(s.grp, q) /\ ~ IsFinished(s.una[q])
    /\ st[q] = "done" => IsFinished(s.una[q])

\* Without repeated NACKs nothing is acknowledged that was not sent since the
\* last NACK.
Ahead(s) ==
  RepeatNack \/ \A q \in QP : s.una[q] <= s.nxt[q] /\ AckPoint(s.upTo[q]) <= s.nxt[q]

Good(s, st) ==
  /\ s \in State
  /\ Distinct(s.grp)
  /\ Paced(s)
  /\ Served(s, st)
  /\ Ahead(s)

\* An idle device has a reason to be idle (StallEnds).
Calm(s, st) ==
  s.tx = None =>
    /\ s.ackQ > 0 => s.paused[ack_q_idx]
    /\ \A q \in QP : st[q] = "live" /\ MaySend(s, q) =>
         \/ s.nextSend # None
         \/ \E r \in QP \ {q} : st[r] = "live" /\ ~ MaySend(s, r)

\* The condition under which a finished queue pair is never chosen: there is a
\* window, and the unsigned difference of snd_nxt and a snd_una beyond it exceeds
\* the window; or no NACK is repeated, and snd_nxt is not behind.
Guarded ==
  \/ \A w \in Windows : w # 0 /\ w <= Word - m_size
  \/ ~ RepeatNack

Steady(s, st) == Good(s, st) /\ (Guarded => Calm(s, st))

Network ==
  /\ status \in [QP -> {"new", "live", "done"}]
  /\ old \in [QP -> Nat]
  /\ events \in 0..Events
  /\ RepeatNack \/ \A q \in QP : old[q] = 0

Inv == Steady(St, status) /\ Network
-----------------------------------------------------------------------------
(***************************************************************************)
(* Least and greatest elements.                                            *)
(***************************************************************************)
\* A nonempty set of natural numbers has a least element.
LEMMA LeastNat ==
  ASSUME NEW S \in SUBSET Nat, S # {}
  PROVE  \E x \in S : \A y \in S : x <= y
  <1> DEFINE R == OpToRel(<, Nat)
  <1>1. \E x \in S : \A y \in S : <<y, x>> \notin R
    BY NatLessThanWellFounded, WFMin
  <1>2. PICK x \in S : \A y \in S : <<y, x>> \notin R
    BY <1>1
  <1>3. ASSUME NEW y \in S PROVE x <= y
    <2>1. ~ (y < x)
      BY <1>2 DEF OpToRel
    <2> QED BY <2>1
  <1> QED BY <1>3

\* So has a set of integers with a lower bound, and Min is it.
LEMMA MinIsLeast ==
  ASSUME NEW b \in Int, NEW S \in SUBSET Int, S # {}, \A x \in S : b <= x
  PROVE  Min(S) \in S /\ \A y \in S : Min(S) <= y
  <1> DEFINE T == {x - b : x \in S}
  <1>0. \A x \in S : x \in Int /\ x - b \in Nat
    OBVIOUS
  <1>1. T \in SUBSET Nat /\ T # {}
    BY <1>0
  <1>2. PICK t \in T : \A u \in T : t <= u
    BY <1>1, LeastNat
  <1>3. PICK x \in S : t = x - b
    OBVIOUS
  <1>4. \A y \in S : x <= y
    <2> SUFFICES ASSUME NEW y \in S PROVE x <= y
      OBVIOUS
    <2>1. y - b \in T
      OBVIOUS
    <2>2. x - b <= y - b
      BY <1>2, <1>3, <2>1
    <2> QED BY <2>2
  <1>5. \E z \in S : \A y \in S : z <= y
    BY <1>4
  <1> QED BY <1>5 DEF Min

\* A finite nonempty set of natural numbers has a greatest element: the one with
\* the fewest elements above it.
LEMMA MaxIsGreatest ==
  ASSUME NEW S \in SUBSET Nat, IsFiniteSet(S), S # {}
  PROVE  Max(S) \in S /\ \A y \in S : y <= Max(S)
  <1> DEFINE Above(x) == {y \in S : y > x}
             C == {Cardinality(Above(x)) : x \in S}
  <1>1. \A x \in S : IsFiniteSet(Above(x)) /\ Cardinality(Above(x)) \in Nat
    BY FS_Subset, FS_CardinalityType
  <1>2. C \in SUBSET Nat /\ C # {}
    BY <1>1
  <1>3. PICK c \in C : \A d \in C : c <= d
    BY <1>2, LeastNat
  <1>4. PICK x \in S : c = Cardinality(Above(x))
    OBVIOUS
  <1>5. \A y \in S : y <= x
    <2> SUFFICES ASSUME NEW y \in S, y > x PROVE FALSE
      OBVIOUS
    <2>0. x \in Nat /\ y \in Nat /\ \A z \in S : z \in Nat
      OBVIOUS
    <2>1. Above(y) \in SUBSET Above(x) /\ y \in Above(x) /\ y \notin Above(y)
      <3>1. \A z \in S : z > y => z > x
        BY <2>0
      <3>2. y > x /\ ~ (y > y)
        BY <2>0
      <3> QED BY <3>1, <3>2, Zenon
    <2>2. Cardinality(Above(y)) <= Cardinality(Above(x)) /\ Cardinality(Above(y)) # Cardinality(Above(x))
      BY <1>1, <2>1, FS_Subset
    <2>3. Cardinality(Above(x)) <= Cardinality(Above(y))
      BY <1>3, <1>4
    <2> HIDE DEF Above
    <2> QED BY <1>1, <2>2, <2>3
  <1>6. \E z \in S : \A y \in S : z >= y
    BY <1>5
  <1> QED BY <1>6 DEF Max

LEMMA Gaps ==
  /\ MaxGap \in SendTimes /\ SendTimes \subseteq Nat
  /\ \A t \in SendTimes : t > 0 /\ t <= MaxGap
  /\ MaxGap \in Nat /\ TxTime \in Nat /\ TxTime > 0 /\ TxTime <= MaxGap
  <1>1. SendTimes \in SUBSET Nat /\ IsFiniteSet(SendTimes) /\ SendTimes # {}
    BY TimeAssumption
  <1>2. MaxGap \in SendTimes /\ \A t \in SendTimes : t <= MaxGap
    BY <1>1, MaxIsGreatest DEF MaxGap
  <1>3. \A t \in SendTimes : t \in Nat /\ t > 0
    BY TimeAssumption
  <1>4. TxTime \in SendTimes
    BY TimeAssumption
  <1> QED BY <1>2, <1>3, <1>4

(***************************************************************************)
(* The removal of finished queue pairs.                                    *)
(***************************************************************************)
\* The queue pairs that stay are moved to the front, in their order.
LEMMA Places ==
  ASSUME NEW n \in Nat, NEW K \in SUBSET (1..n)
  PROVE  /\ Cardinality(K) \in Nat
         /\ \A i \in K : Place(K, i) \in 1..Cardinality(K)
         /\ \A i, j \in K : Place(K, i) = Place(K, j) => i = j
         /\ \A p \in 1..Cardinality(K) : \E i \in K : Place(K, i) = p
  <1> DEFINE P(i) == {j \in K : j <= i}
  <1>1. IsFiniteSet(K) /\ Cardinality(K) \in Nat
    <2>1. IsFiniteSet(1..n)
      BY FS_Interval
    <2>2. IsFiniteSet(K)
      BY <2>1, FS_Subset
    <2> QED BY <2>2, FS_CardinalityType
  <1>2. \A i \in K : /\ IsFiniteSet(P(i)) /\ Cardinality(P(i)) \in Nat
                     /\ Cardinality(P(i)) <= Cardinality(K)
    BY <1>1, FS_Subset, FS_CardinalityType
  <1>3. \A i \in K : P(i) # {}
    OBVIOUS
  <1>4. \A i \in K : Cardinality(P(i)) # 0
    BY <1>2, <1>3, FS_EmptySet
  <1>5. \A i \in K : Place(K, i) \in 1..Cardinality(K)
    BY <1>1, <1>2, <1>4 DEF Place
  <1>6. ASSUME NEW i \in K, NEW j \in K, i < j PROVE Place(K, i) # Place(K, j)
    <2>0. \A k \in K : k \in Int
      OBVIOUS
    <2>1. P(i) \in SUBSET P(j) /\ j \in P(j) /\ j \notin P(i)
      <3>1. \A k \in K : k <= i => k <= j
        BY <1>6, <2>0
      <3>2. j <= j /\ ~ (j <= i)
        BY <1>6, <2>0
      <3> QED BY <3>1, <3>2, Zenon
    <2>2. Cardinality(P(i)) # Cardinality(P(j))
      BY <1>2, <2>1, FS_Subset
    <2> QED BY <2>2 DEF Place
  <1>7. \A i, j \in K : Place(K, i) = Place(K, j) => i = j
    <2> SUFFICES ASSUME NEW i \in K, NEW j \in K, i # j PROVE Place(K, i) # Place(K, j)
      OBVIOUS
    <2>1. i < j \/ j < i
      OBVIOUS
    <2> QED BY <1>6, <2>1
  <1> DEFINE c == Cardinality(K)
             f == [i \in K |-> Place(K, i)]
  <1>8. IsFiniteSet(1..c) /\ Cardinality(1..c) = c
    BY <1>1, FS_Interval
  <1>9. f \in Injection(K, 1..c)
    BY <1>5, <1>7 DEF Injection, IsInjective
  <1>10. f \in Surjection(K, 1..c)
    BY <1>8, <1>9, FS_Injection
  <1>11. \A p \in 1..c : \E i \in K : f[i] = p
    BY <1>10 DEF Surjection
  <1> QED BY <1>1, <1>5, <1>7, <1>11

\* What is left of the group: the queue pairs that stay, each once, and each at
\* its new place.
LEMMA Compacted ==
  ASSUME NEW g \in Seq(QP), Distinct(g), NEW K \in SUBSET (1..Len(g))
  PROVE  /\ Compact(g, K) \in Seq(QP)
         /\ Distinct(Compact(g, K))
         /\ \A q \in QP : InGroup(Compact(g, K), q) <=> \E i \in K : g[i] = q
         /\ \A i \in K : /\ Place(K, i) \in 1..Len(Compact(g, K))
                         /\ Compact(g, K)[Place(K, i)] = g[i]
  <1> DEFINE c == Cardinality(K)
             From(p) == CHOOSE i \in K : Place(K, i) = p
             h == Compact(g, K)
  <1>1. Len(g) \in Nat /\ \A i \in 1..Len(g) : g[i] \in QP
    OBVIOUS
  <1>2. /\ c \in Nat
        /\ \A i \in K : Place(K, i) \in 1..c
        /\ \A i, j \in K : Place(K, i) = Place(K, j) => i = j
        /\ \A p \in 1..c : \E i \in K : Place(K, i) = p
    BY <1>1, Places
  <1> HIDE DEF c
  <1>3. \A p \in 1..c : From(p) \in K /\ Place(K, From(p)) = p
    BY <1>2
  <1>4. \A i \in K : From(Place(K, i)) = i
    BY <1>2, <1>3
  <1>5. h = [p \in 1..c |-> g[From(p)]]
    BY DEF Compact, c
  <1> HIDE DEF From, h
  <1>6. \A p \in 1..c : g[From(p)] \in QP /\ From(p) \in 1..Len(g)
    BY <1>1, <1>3
  <1>7. h \in [1..c -> QP]
    BY <1>5, <1>6
  <1>8. h \in Seq(QP) /\ Len(h) = c
    BY <1>2, <1>7
  <1>9. \A p \in 1..c : h[p] = g[From(p)]
    BY <1>5
  <1>10. Distinct(h)
    <2> SUFFICES ASSUME NEW p \in 1..c, NEW r \in 1..c, h[p] = h[r] PROVE p = r
      BY <1>8 DEF Distinct
    <2>1. From(p) = From(r)
      BY <1>6, <1>9 DEF Distinct
    <2> QED BY <1>3, <2>1
  <1>11. \A i \in K : Place(K, i) \in 1..Len(h) /\ h[Place(K, i)] = g[i]
    BY <1>2, <1>4, <1>8, <1>9
  <1>12. ASSUME NEW q \in QP PROVE InGroup(h, q) <=> \E i \in K : g[i] = q
    <2>1. InGroup(h, q) => \E i \in K : g[i] = q
      BY <1>3, <1>8, <1>9 DEF InGroup
    <2>2. (\E i \in K : g[i] = q) => InGroup(h, q)
      BY <1>11 DEF InGroup
    <2> QED BY <2>1, <2>2
  <1> QED BY <1>8, <1>10, <1>11, <1>12 DEF h

(***************************************************************************)
(* The loop of GetNextQindex.                                              *)
(***************************************************************************)
LEMMA LoopReaches ==
  ASSUME NEW n \in Nat, n > 0, NEW r \in Nat
  PROVE  /\ \A i \in 1..n : ((i + r) % n) + 1 \in 1..n
         /\ \A k \in 1..n : \E i \in 1..n : ((i + r) % n) + 1 = k
  <1>1. \A i \in 1..n : (i + r) % n \in 0..(n - 1)
    OBVIOUS
  <1>2. ASSUME NEW k \in 1..n PROVE \E i \in 1..n : ((i + r) % n) + 1 = k
    <2> DEFINE d == r % n
               e == r \div n
               i == IF k - 1 - d >= 1 THEN k - 1 - d ELSE k - 1 - d + n
    <2>1. d \in 0..(n - 1) /\ e \in Int /\ r = n * e + d
      BY Z3
    <2> HIDE DEF d, e
    <2>2. i \in 1..n
      BY <2>1
    <2>3. i + r = n * e + (k - 1) \/ i + r = n * (e + 1) + (k - 1)
      BY <2>1
    <2>4. \A z \in Int : (n * z + (k - 1)) % n = k - 1
      BY Z3
    <2>5. (i + r) % n = k - 1
      <3>1. e \in Int /\ e + 1 \in Int
        BY <2>1
      <3> HIDE DEF i
      <3> QED BY <2>3, <2>4, <3>1
    <2>6. ((i + r) % n) + 1 = k
      BY <2>5
    <2> HIDE DEF i
    <2> QED BY <2>2, <2>6
  <1> QED BY <1>1, <1>2

\* The places the loop looks at are places of the group, and it comes to each.
LEMMA AtPlaces ==
  ASSUME NEW s \in State
  PROVE  /\ Len(s.grp) \in Nat
         /\ \A i \in 1..Len(s.grp) : At(s, i) \in 1..Len(s.grp)
         /\ \A k \in 1..Len(s.grp) : \E i \in 1..Len(s.grp) : At(s, i) = k
         /\ \A k \in 1..Len(s.grp) : s.grp[k] \in QP
  <1>1. s.grp \in Seq(QP) /\ s.rr \in Nat
    BY DEF State
  <1>2. Len(s.grp) \in Nat /\ \A k \in 1..Len(s.grp) : s.grp[k] \in QP
    BY <1>1
  <1>3. CASE Len(s.grp) > 0
    <2> DEFINE n == Len(s.grp)
               r == s.rr
    <2>1. n \in Nat /\ n > 0 /\ r \in Nat
      BY <1>1, <1>2, <1>3
    <2>2. \A i : At(s, i) = ((i + r) % n) + 1
      BY DEF At
    <2> HIDE DEF n, r
    <2>3. /\ \A i \in 1..n : At(s, i) \in 1..n
          /\ \A k \in 1..n : \E i \in 1..n : At(s, i) = k
      <3>1. /\ \A i \in 1..n : ((i + r) % n) + 1 \in 1..n
            /\ \A k \in 1..n : \E i \in 1..n : ((i + r) % n) + 1 = k
        BY <2>1, LoopReaches
      <3> QED BY <2>2, <3>1, Zenon
    <2> QED BY <1>2, <2>3, Zenon DEF n
  <1>4. CASE Len(s.grp) = 0
    BY <1>2, <1>4
  <1>5. Len(s.grp) > 0 \/ Len(s.grp) = 0
    BY <1>2
  <1> QED BY <1>3, <1>4, <1>5, Zenon

\* What GetNextQindex returns, and what it leaves of the group.  No queue pair
\* that is not finished is removed; when none may send now, those that are left
\* and may not send are not finished; and the index is that of the queue pair
\* chosen, unless that one is finished.
LEMMA Chosen ==
  ASSUME NEW s \in State, Distinct(s.grp), NEW pick, pick = GetNextQindex(s)
  PROVE  /\ pick.grp \in Seq(QP) /\ Distinct(pick.grp)
         /\ \A q \in QP : InGroup(pick.grp, q) => InGroup(s.grp, q)
         /\ \A q \in QP : InGroup(s.grp, q) /\ ~ IsFinished(s.una[q]) => InGroup(pick.grp, q)
         /\ pick.idx = None =>
              \A q \in QP : InGroup(pick.grp, q) =>
                /\ ~ (MaySend(s, q) /\ s.avail[q] <= 0)
                /\ ~ MaySend(s, q) => ~ IsFinished(s.una[q])
         /\ pick.idx # None =>
              /\ pick.idx \in Nat \ {0}
              /\ pick.qp \in QP /\ MaySend(s, pick.qp)
              /\ ~ IsFinished(s.una[pick.qp]) =>
                   pick.idx <= Len(pick.grp) /\ pick.grp[pick.idx] = pick.qp
  <1> DEFINE g     == s.grp
             n     == Len(g)
             ready == {i \in 1..n : Ready(s, i)}
             last  == IF ready = {} THEN n ELSE Min(ready)
             over  == {At(s, i) : i \in {j \in 1..last : Over(s, j)}}
             stay  == IF over = {} THEN 1..n ELSE Stays(s, g, Min(over))
  <1>1. /\ pick.qp = IF ready = {} THEN None ELSE g[At(s, last)]
        /\ pick.grp = Compact(g, stay)
        /\ pick.idx = IF ready = {} THEN None ELSE NewIndex(stay, At(s, last))
    BY DEF GetNextQindex
  <1>2. /\ n \in Nat
        /\ \A i \in 1..n : At(s, i) \in 1..n
        /\ \A k \in 1..n : \E i \in 1..n : At(s, i) = k
        /\ \A k \in 1..n : g[k] \in QP
        /\ g \in Seq(QP)
    BY AtPlaces DEF State
  <1> HIDE DEF g, n
  <1>3. ready # {} => last \in 1..n /\ Ready(s, last)
    <2>1. ready \in SUBSET Int /\ \A i \in ready : 1 <= i
      BY <1>2
    <2>2. ready # {} => Min(ready) \in ready
      BY <2>1, MinIsLeast
    <2> QED BY <2>2
  <1>4. last \in Nat /\ last <= n
    <2>1. ready = {} => last = n
      OBVIOUS
    <2> HIDE DEF ready, last
    <2> QED BY <1>2, <1>3, <2>1
  <1> HIDE DEF last
  <1>5. \A k \in over : k \in 1..n
    BY <1>2, <1>4
  <1>6. over # {} => Min(over) \in over /\ \A k \in over : Min(over) <= k
    <2>1. over \in SUBSET Int /\ \A k \in over : 1 <= k
      BY <1>5, <1>2
    <2> HIDE DEF over
    <2> QED BY <2>1, MinIsLeast
  <1>7. stay \in SUBSET (1..n)
    BY DEF Stays, n
  <1>8. \A i \in 1..n : ~ IsFinished(s.una[g[i]]) => i \in stay
    BY DEF Stays, n
  <1>9. \A k \in over : k \in stay => ~ IsFinished(s.una[g[k]])
    <2> SUFFICES ASSUME NEW k \in over, k \in stay PROVE ~ IsFinished(s.una[g[k]])
      OBVIOUS
    <2>1. Min(over) <= k /\ Min(over) \in 1..n /\ k \in 1..n
      BY <1>5, <1>6
    <2>2. ~ (k < Min(over))
      BY <1>2, <2>1
    <2> QED BY <2>2 DEF Stays
  <1> HIDE DEF stay, over
  <1>10. /\ Compact(g, stay) \in Seq(QP)
         /\ Distinct(Compact(g, stay))
         /\ \A q \in QP : InGroup(Compact(g, stay), q) <=> \E i \in stay : g[i] = q
         /\ \A i \in stay : /\ Place(stay, i) \in 1..Len(Compact(g, stay))
                            /\ Compact(g, stay)[Place(stay, i)] = g[i]
    BY <1>2, <1>7, Compacted DEF g, n
  <1>11. \A q \in QP : InGroup(pick.grp, q) => InGroup(g, q)
    BY <1>1, <1>7, <1>10 DEF InGroup, n
  <1>12. \A q \in QP : InGroup(g, q) /\ ~ IsFinished(s.una[q]) => InGroup(pick.grp, q)
    BY <1>1, <1>8, <1>10 DEF InGroup, n
  <1>13. CASE ready = {}
    <2>1. last = n
      BY <1>13 DEF last
    <2>2. ASSUME NEW q \in QP, InGroup(pick.grp, q)
          PROVE  /\ ~ (MaySend(s, q) /\ s.avail[q] <= 0)
                 /\ ~ MaySend(s, q) => ~ IsFinished(s.una[q])
      <3>1. PICK k \in stay : g[k] = q
        BY <1>1, <1>10, <2>2
      <3>2. PICK i \in 1..n : At(s, i) = k
        BY <1>2, <1>7
      <3>3. ~ Ready(s, i)
        BY <1>13
      <3>4. ~ (MaySend(s, q) /\ s.avail[q] <= 0)
        BY <3>1, <3>2, <3>3 DEF Ready, g
      <3>5. ASSUME ~ MaySend(s, q), IsFinished(s.una[q]) PROVE FALSE
        <4>1. Over(s, i)
          BY <3>1, <3>2, <3>5 DEF Over, g
        <4>2. k \in over
          BY <2>1, <3>2, <4>1 DEF over
        <4> QED BY <1>9, <3>1, <3>5, <4>2
      <3> QED BY <3>4, <3>5
    <2>3. pick.idx = None
      BY <1>1, <1>13
    <2> QED BY <1>1, <1>10, <1>11, <1>12, <2>2, <2>3 DEF g
  <1>14. CASE ready # {}
    <2> DEFINE k == At(s, last)
    <2>1. last \in 1..n /\ Ready(s, last)
      BY <1>3, <1>14
    <2>2. k \in 1..n /\ g[k] \in QP
      BY <1>2, <2>1
    <2>3. pick.qp = g[k] /\ pick.idx = NewIndex(stay, k) /\ pick.grp = Compact(g, stay)
      BY <1>1, <1>14
    <2>4. MaySend(s, pick.qp)
      BY <2>1, <2>3 DEF Ready, g
    <2> HIDE DEF k
    <2>5. pick.idx \in Nat \ {0}
      <3>1. k \in stay => Place(stay, k) \in 1..Len(Compact(g, stay))
        BY <1>10
      <3>2. Len(Compact(g, stay)) \in Nat
        BY <1>10
      <3> QED BY <2>2, <2>3, <3>1, <3>2, <1>2 DEF NewIndex
    <2>6. ASSUME ~ IsFinished(s.una[pick.qp])
          PROVE  pick.idx <= Len(pick.grp) /\ pick.grp[pick.idx] = pick.qp
      <3>1. k \in stay
        BY <1>8, <2>2, <2>3, <2>6
      <3>2. pick.idx = Place(stay, k)
        BY <2>3, <3>1 DEF NewIndex
      <3>3. Len(Compact(g, stay)) \in Nat
        BY <1>10
      <3> QED BY <1>10, <2>3, <3>1, <3>2, <3>3
    <2>7. pick.idx # None
      BY <2>5 DEF None
    <2>8. pick.qp \in QP
      BY <2>2, <2>3
    <2> QED BY <1>1, <1>10, <1>11, <1>12, <2>4, <2>5, <2>6, <2>7, <2>8 DEF g
  <1> QED BY <1>13, <1>14

(***************************************************************************)
(* The transmit machine.                                                   *)
(***************************************************************************)
LEMMA ModIdentity == ASSUME NEW x \in 0..m_size PROVE x % SeqSpace = x
  BY FlowAssumption, WidthAssumption

\* The difference of two sequence numbers that is negative wraps around.
LEMMA Wraps ==
  ASSUME NEW a \in 0..m_size, NEW b \in 0..m_size, a < b
  PROVE  GetOnTheFly(a, b) = Word + (a - b)
  <1> DEFINE d == Word + (a - b)
  <1>1. Word \in Nat /\ Word > 0 /\ m_size < Word /\ m_size \in Nat
    BY FlowAssumption, WidthAssumption
  <1>2. d \in 0..(Word - 1) /\ a - b = d + Word * (-1)
    BY <1>1
  <1> HIDE DEF d
  <1>3. (d + Word * (-1)) % Word = d
    BY <1>1, <1>2, Z3
  <1> QED BY <1>2, <1>3 DEF GetOnTheFly, d

LEMMA SendersUnfinished ==
  ASSUME Guarded, NEW s \in State, Ahead(s), NEW q \in QP, MaySend(s, q)
  PROVE  ~ IsFinished(s.una[q])
  <1> SUFFICES ASSUME IsFinished(s.una[q]) PROVE FALSE
    OBVIOUS
  <1>1. s.nxt[q] \in 0..m_size /\ s.una[q] \in 0..m_size /\ m_size \in Nat
    BY FlowAssumption DEF State
  <1>2. s.nxt[q] < s.una[q] /\ s.una[q] = m_size
    BY <1>1 DEF IsFinished, MaySend, GetBytesLeft
  <1>3. GetOnTheFly(s.nxt[q], s.una[q]) = Word + (s.nxt[q] - s.una[q])
    BY <1>1, <1>2, Wraps
  <1>4. CASE \A w \in Windows : w # 0 /\ w <= Word - m_size
    <2>1. PICK w \in Windows : ~ IsWinBound(w, s.nxt[q], s.una[q])
      BY DEF MaySend
    <2>2. w \in Nat /\ Word \in Nat
      BY FlowAssumption, WidthAssumption
    <2>3. ~ (Word + (s.nxt[q] - s.una[q]) >= w)
      BY <1>3, <1>4, <2>1 DEF IsWinBound
    <2>4. w <= Word - m_size
      BY <1>4
    <2> QED BY <1>1, <1>2, <2>2, <2>3, <2>4
  <1>5. CASE ~ RepeatNack
    BY <1>1, <1>2, <1>5 DEF Ahead
  <1> QED BY <1>4, <1>5 DEF Guarded

\* A packet ends inside the flow.
LEMMA NextInFlow ==
  ASSUME NEW x \in 0..m_size
  PROVE  x + PayloadSize(x) \in 0..m_size /\ x <= x + PayloadSize(x)
  <1>1. GetBytesLeft(x) = m_size - x /\ m_size - x \in 0..m_size
    BY FlowAssumption DEF GetBytesLeft
  <1>2. GetBytesLeft(x) % SeqSpace = m_size - x
    BY <1>1, ModIdentity
  <1> QED BY <1>1, <1>2, FlowAssumption DEF PayloadSize, MinOf

\* An ACK acknowledges no more than its sequence number.
LEMMA AckPoints ==
  ASSUME NEW x \in 0..m_size
  PROVE  AckPoint(x) \in 0..m_size /\ AckPoint(x) <= x
  <1>1. x \div m_chunk \in Nat /\ (x \div m_chunk) * m_chunk <= x /\ (x \div m_chunk) * m_chunk \in Nat
    BY ChunkAssumption, FlowAssumption, Z3
  <1> QED BY <1>1, FlowAssumption DEF AckPoint, ChunkStart

\* A later ACK acknowledges no less.
LEMMA AckPointsMonotone ==
  ASSUME NEW x \in 0..m_size, NEW y \in 0..m_size, x <= y
  PROVE  AckPoint(x) <= AckPoint(y)
  <1>1. m_size \in Nat /\ m_chunk \in Nat \ {0}
    BY ChunkAssumption, FlowAssumption
  <1>2. (x \div m_chunk) * m_chunk <= (y \div m_chunk) * m_chunk
    BY <1>1, Z3
  <1> QED BY <1>1, <1>2 DEF AckPoint, ChunkStart

\* Only these parts of the state decide whether a queue pair may send.
LEMMA SameSenders ==
  ASSUME NEW s, NEW t, t.nxt = s.nxt, t.una = s.una, t.paused = s.paused, NEW q
  PROVE  MaySend(t, q) <=> MaySend(s, q)
  BY DEF MaySend

\* GetNextQindex removes finished queue pairs and changes nothing else.
LEMMA Removal ==
  ASSUME NEW s, NEW st, Good(s, st), NEW pick, pick = GetNextQindex(s),
         NEW t, t = [s EXCEPT !.grp = pick.grp]
  PROVE  /\ Good(t, st)
         /\ t.grp = pick.grp /\ t.tx = s.tx /\ t.ackQ = s.ackQ /\ t.paused = s.paused
         /\ t.nxt = s.nxt /\ t.una = s.una /\ t.avail = s.avail /\ t.nextSend = s.nextSend
  <1>1. s \in State /\ Distinct(s.grp)
    BY DEF Good
  <1>2. /\ pick.grp \in Seq(QP) /\ Distinct(pick.grp)
        /\ \A q \in QP : InGroup(pick.grp, q) => InGroup(s.grp, q)
        /\ \A q \in QP : InGroup(s.grp, q) /\ ~ IsFinished(s.una[q]) => InGroup(pick.grp, q)
    BY <1>1, Chosen
  <1> HIDE DEF Good
  <1>3. /\ t \in State
        /\ t.grp = pick.grp /\ t.tx = s.tx /\ t.ackQ = s.ackQ /\ t.paused = s.paused
        /\ t.nxt = s.nxt /\ t.una = s.una /\ t.avail = s.avail /\ t.nextSend = s.nextSend
        /\ t.gap = s.gap /\ t.upTo = s.upTo
    BY <1>1, <1>2 DEF State
  <1>4. Distinct(t.grp)
    BY <1>2, <1>3
  <1>5. Paced(t) /\ Ahead(t)
    BY <1>3 DEF Good, Paced, Ahead
  <1>6. Served(t, st)
    BY <1>2, <1>3 DEF Good, Served
  <1> QED BY <1>3, <1>4, <1>5, <1>6 DEF Good

\* Sending one packet of the queue pair at place idx.
LEMMA Sending ==
  ASSUME NEW s, NEW st, Good(s, st), NEW idx \in 1..Len(s.grp),
         NEW t, t = SendFrom(s, idx)
  PROVE  Good(t, st) /\ t.tx # None
  <1> DEFINE q == s.grp[idx]
             x == s.nxt[q] + PayloadSize(s.nxt[q])
             u == IF x > s.upTo[q] THEN x ELSE s.upTo[q]
  <1>0. s \in State /\ s.grp \in Seq(QP)
    BY DEF Good, State
  <1>1. s \in State /\ s.grp \in Seq(QP) /\ q \in QP /\ Len(s.grp) \in Nat
    BY <1>0
  <1>2. s.nxt[q] \in 0..m_size /\ s.upTo[q] \in 0..m_size /\ s.gap[q] \in SendTimes
    BY <1>1 DEF State
  <1>3. x \in 0..m_size /\ s.nxt[q] <= x
    BY <1>2, NextInFlow
  <1>4. t = [s EXCEPT !.rr = idx - 1, !.nxt[q] = x, !.avail[q] = s.gap[q], !.tx = TxTime, !.upTo[q] = u]
    BY DEF SendFrom
  <1> HIDE DEF q, x
  <1>5. /\ t.grp = s.grp /\ t.rr = idx - 1 /\ t.nxt = [s.nxt EXCEPT ![q] = x] /\ t.una = s.una
        /\ t.avail = [s.avail EXCEPT ![q] = s.gap[q]] /\ t.gap = s.gap /\ t.ackQ = s.ackQ
        /\ t.tx = TxTime /\ t.nextSend = s.nextSend /\ t.paused = s.paused
        /\ t.upTo = [s.upTo EXCEPT ![q] = u]
    BY <1>1, <1>4 DEF State
  <1>6. u \in 0..m_size /\ idx - 1 \in Nat /\ s.gap[q] \in -MaxGap..MaxGap /\ TxTime \in -1..TxTime
    <2>1. u \in 0..m_size
      BY <1>2, <1>3
    <2>2. idx - 1 \in Nat
      BY <1>1
    <2>3. s.gap[q] \in Nat /\ s.gap[q] <= MaxGap
      BY <1>2, Gaps
    <2> QED BY <2>1, <2>2, <2>3, Gaps
  <1>7. u = x \/ (u = s.upTo[q] /\ x <= u)
    BY <1>2, <1>3
  <1> HIDE DEF u
  <1>8. t \in State
    <2> DEFINE nx == [s.nxt EXCEPT ![q] = x]
               av == [s.avail EXCEPT ![q] = s.gap[q]]
               up == [s.upTo EXCEPT ![q] = u]
    <2>1. t = [s EXCEPT !.rr = idx - 1, !.nxt = nx, !.avail = av, !.tx = TxTime, !.upTo = up]
      BY <1>1, <1>4 DEF State
    <2>2. nx \in [QP -> 0..m_size] /\ av \in [QP -> -MaxGap..MaxGap] /\ up \in [QP -> 0..m_size]
      BY <1>1, <1>3, <1>6 DEF State
    <2> HIDE DEF nx, av, up
    <2> QED BY <1>1, <1>6, <2>1, <2>2 DEF State
  <1>9. Distinct(t.grp) /\ Served(t, st)
    BY <1>5 DEF Good, Served
  <1>10. Paced(t)
    <2>1. \A r \in QP : s.gap[r] \in Nat
      BY <1>1, Gaps DEF State
    <2>2. \A r \in QP : t.gap[r] = s.gap[r] /\ t.avail[r] = IF r = q THEN s.gap[q] ELSE s.avail[r]
      BY <1>1, <1>5 DEF State
    <2> QED BY <1>1, <2>1, <2>2 DEF Good, Paced
  <1>11. Ahead(t)
    <2> SUFFICES ASSUME ~ RepeatNack, NEW r \in QP
                 PROVE  t.una[r] <= t.nxt[r] /\ AckPoint(t.upTo[r]) <= t.nxt[r]
      BY DEF Ahead
    <2>1. s.una[r] <= s.nxt[r] /\ AckPoint(s.upTo[r]) <= s.nxt[r]
      BY DEF Good, Ahead
    <2>2. CASE r # q
      BY <1>1, <1>5, <2>1, <2>2 DEF State
    <2>3. CASE r = q
      <3>1. t.una[r] = s.una[q] /\ t.nxt[r] = x /\ t.upTo[r] = u /\ s.una[q] \in 0..m_size
        BY <1>1, <1>5, <2>3 DEF State
      <3>2. AckPoint(x) <= x /\ AckPoint(x) \in 0..m_size
        BY <1>3, AckPoints
      <3>3. AckPoint(s.upTo[q]) \in 0..m_size
        BY <1>2, AckPoints
      <3> QED BY <1>2, <1>3, <1>7, <2>1, <2>3, <3>1, <3>2, <3>3
    <2> QED BY <2>2, <2>3
  <1> QED BY <1>5, <1>8, <1>9, <1>10, <1>11, Gaps DEF Good, None

\* "No packet to send": either m_nextSend is scheduled or the m_nextAvail of some
\* queue pair is in the past, unless the group is empty.
LEMMA Pacing ==
  ASSUME NEW s, NEW st, Good(s, st), NEW t, t = Pace(s)
  PROVE  /\ Good(t, st)
         /\ t.nxt = s.nxt /\ t.una = s.una /\ t.paused = s.paused /\ t.ackQ = s.ackQ
         /\ \A q \in QP : InGroup(s.grp, q) =>
              t.nextSend # None \/ \E r \in QP : InGroup(s.grp, r) /\ s.avail[r] <= 0
  <1> DEFINE a == {s.avail[s.grp[i]] : i \in 1..Len(s.grp)}
  <1>1. s \in State /\ s.grp \in Seq(QP)
    BY DEF Good, State
  <1>2. \A i \in 1..Len(s.grp) : s.grp[i] \in QP
    BY <1>1
  <1>3. \A q \in QP : s.avail[q] \in -MaxGap..MaxGap
    BY <1>1 DEF State
  <1>4. a \in SUBSET Int /\ (\A x \in a : -MaxGap <= x /\ x <= MaxGap) /\ -MaxGap \in Int
    BY <1>2, <1>3, Gaps
  <1>5. a # {} => Min(a) \in a
    <2> HIDE DEF a
    <2> QED BY <1>4, MinIsLeast
  <1>6. t = IF s.nextSend = None /\ a # {} /\ Min(a) > 0 THEN [s EXCEPT !.nextSend = Min(a)] ELSE s
    BY DEF Pace
  <1>7. CASE s.nextSend = None /\ a # {} /\ Min(a) > 0
    <2>1. t = [s EXCEPT !.nextSend = Min(a)]
      BY <1>6, <1>7
    <2>2. Min(a) \in -1..MaxGap /\ Min(a) # None
      <3>1. Min(a) \in Int /\ Min(a) <= MaxGap
        BY <1>4, <1>5, <1>7
      <3> HIDE DEF a
      <3> QED BY <1>7, <3>1, Gaps DEF None
    <2> HIDE DEF a
    <2>3. /\ t \in State /\ t.nextSend # None
          /\ t.nxt = s.nxt /\ t.una = s.una /\ t.paused = s.paused /\ t.ackQ = s.ackQ
          /\ t.grp = s.grp /\ t.avail = s.avail /\ t.gap = s.gap /\ t.upTo = s.upTo
      BY <1>1, <2>1, <2>2 DEF State
    <2>4. Good(t, st)
      BY <2>3 DEF Good, Paced, Served, Ahead
    <2> QED BY <2>3, <2>4
  <1>8. CASE ~ (s.nextSend = None /\ a # {} /\ Min(a) > 0)
    <2>1. t = s
      BY <1>6, <1>8
    <2>2. ASSUME NEW q \in QP, InGroup(s.grp, q), s.nextSend = None
          PROVE  \E r \in QP : InGroup(s.grp, r) /\ s.avail[r] <= 0
      <3>1. a # {}
        BY <2>2 DEF InGroup
      <3>2. Min(a) \in a /\ ~ (Min(a) > 0)
        BY <1>5, <1>8, <2>2, <3>1
      <3>3. PICK i \in 1..Len(s.grp) : Min(a) = s.avail[s.grp[i]]
        BY <3>2
      <3>4. s.grp[i] \in QP /\ InGroup(s.grp, s.grp[i])
        BY <1>2 DEF InGroup
      <3>5. s.avail[s.grp[i]] \in Int
        BY <1>3, <3>4, Gaps
      <3> HIDE DEF a
      <3>6. s.avail[s.grp[i]] <= 0
        BY <3>2, <3>3, <3>5
      <3> QED BY <3>4, <3>6
    <2> QED BY <2>1, <2>2
  <1> QED BY <1>7, <1>8

\* DequeueAndTransmit keeps the invariant, and leaves the device busy or with a
\* reason to be idle.
LEMMA Dequeued ==
  ASSUME NEW s, NEW st \in [QP -> {"new", "live", "done"}], Good(s, st),
         NEW t, t = DequeueAndTransmit(s)
  PROVE  Good(t, st) /\ (Guarded => Calm(t, st))
  <1> DEFINE pick == GetNextQindex(s)
             v    == [s EXCEPT !.grp = pick.grp]
  <1>1. t = IF s.tx # None THEN s
            ELSE IF ~ s.paused[ack_q_idx] /\ s.ackQ > 0
                 THEN [s EXCEPT !.ackQ = s.ackQ - 1, !.tx = TxTime]
            ELSE IF pick.idx = None THEN Pace(v)
            ELSE IF pick.idx <= Len(pick.grp) THEN SendFrom(v, pick.idx)
            ELSE v
    BY DEF DequeueAndTransmit
  <1>2. s \in State /\ Distinct(s.grp) /\ Served(s, st) /\ Ahead(s)
    BY DEF Good
  <1>3. /\ pick.grp \in Seq(QP)
        /\ pick.idx = None =>
             \A q \in QP : InGroup(pick.grp, q) =>
               /\ ~ (MaySend(s, q) /\ s.avail[q] <= 0)
               /\ ~ MaySend(s, q) => ~ IsFinished(s.una[q])
        /\ pick.idx # None =>
             /\ pick.idx \in Nat \ {0}
             /\ pick.qp \in QP /\ MaySend(s, pick.qp)
             /\ ~ IsFinished(s.una[pick.qp]) => pick.idx <= Len(pick.grp)
    BY <1>2, Chosen
  <1>4. /\ Good(v, st)
        /\ v.grp = pick.grp /\ v.tx = s.tx /\ v.ackQ = s.ackQ /\ v.paused = s.paused
        /\ v.nxt = s.nxt /\ v.una = s.una /\ v.avail = s.avail /\ v.nextSend = s.nextSend
    BY Removal
  <1> HIDE DEF pick, v
  <1>5. CASE s.tx # None
    BY <1>1, <1>5 DEF Calm
  <1>6. CASE s.tx = None /\ ~ s.paused[ack_q_idx] /\ s.ackQ > 0
    <2>1. t = [s EXCEPT !.ackQ = s.ackQ - 1, !.tx = TxTime]
      BY <1>1, <1>6
    <2>2. s.ackQ - 1 \in Nat /\ TxTime \in -1..TxTime /\ TxTime # None
      BY <1>2, <1>6, Gaps DEF State, None
    <2>3. /\ t \in State /\ t.tx # None
          /\ t.nxt = s.nxt /\ t.una = s.una /\ t.grp = s.grp /\ t.avail = s.avail
          /\ t.gap = s.gap /\ t.upTo = s.upTo
      BY <1>2, <2>1, <2>2 DEF State
    <2>4. Good(t, st)
      BY <2>3 DEF Good, Paced, Served, Ahead
    <2> QED BY <2>3, <2>4 DEF Calm
  <1>7. CASE /\ s.tx = None /\ ~ (~ s.paused[ack_q_idx] /\ s.ackQ > 0)
             /\ pick.idx = None
    <2>1. t = Pace(v)
      BY <1>1, <1>7
    <2>2. /\ Good(t, st)
          /\ t.nxt = s.nxt /\ t.una = s.una /\ t.paused = s.paused /\ t.ackQ = s.ackQ
          /\ \A q \in QP : InGroup(v.grp, q) =>
               t.nextSend # None \/ \E r \in QP : InGroup(v.grp, r) /\ v.avail[r] <= 0
      BY <1>4, <2>1, Pacing
    <2>3. ASSUME NEW q \in QP, st[q] = "live", MaySend(t, q), t.nextSend = None
          PROVE  \E r \in QP \ {q} : st[r] = "live" /\ ~ MaySend(t, r)
      <3>1. InGroup(v.grp, q)
        BY <1>4, <2>3 DEF Good, Served
      <3>2. PICK r \in QP : InGroup(v.grp, r) /\ v.avail[r] <= 0
        BY <2>2, <2>3, <3>1
      <3>3. ~ MaySend(s, r) /\ ~ IsFinished(v.una[r])
        BY <1>3, <1>4, <1>7, <3>2
      <3>4. st[r] # "new" /\ st[r] # "done"
        BY <1>4, <3>2, <3>3 DEF Good, Served
      <3>5. st[r] = "live"
        BY <3>4
      <3>6. ~ MaySend(t, r)
        BY <2>2, <3>3, SameSenders
      <3> QED BY <2>3, <3>5, <3>6
    <2>4. t.ackQ > 0 => t.paused[ack_q_idx]
      BY <1>7, <2>2
    <2> QED BY <2>2, <2>3, <2>4 DEF Calm
  <1>8. CASE /\ s.tx = None /\ ~ (~ s.paused[ack_q_idx] /\ s.ackQ > 0)
             /\ pick.idx # None /\ pick.idx <= Len(pick.grp)
    <2>1. t = SendFrom(v, pick.idx)
      BY <1>1, <1>8
    <2>2. Len(v.grp) \in Nat
      BY <1>3, <1>4
    <2>3. pick.idx \in 1..Len(v.grp)
      BY <1>3, <1>4, <1>8, <2>2
    <2>4. Good(t, st) /\ t.tx # None
      BY <1>4, <2>1, <2>3, Sending
    <2> QED BY <2>4 DEF Calm
  <1>9. CASE /\ s.tx = None /\ ~ (~ s.paused[ack_q_idx] /\ s.ackQ > 0)
             /\ pick.idx # None /\ ~ (pick.idx <= Len(pick.grp))
    <2>1. t = v
      BY <1>1, <1>9
    <2>2. ~ Guarded
      BY <1>2, <1>3, <1>9, SendersUnfinished
    <2> QED BY <1>4, <2>1, <2>2
  <1> QED BY <1>5, <1>6, <1>7, <1>8, <1>9

\* A rate change moves m_nextAvail and m_nextSend and keeps the invariant.
LEMMA RateChanged ==
  ASSUME NEW s, NEW st, Good(s, st), NEW q \in QP, NEW g \in SendTimes,
         NEW t, t = ChangeRate(s, q, g)
  PROVE  Good(t, st)
  <1> DEFINE x == s.avail[q] + g - s.gap[q]
             b == IF x < -MaxGap THEN -MaxGap ELSE x
             u == UpdateNextAvail(s, x)
             y == IF x < 0 THEN 0 ELSE x
  <1>1. s \in State
    BY DEF Good
  <1>2. /\ s.avail[q] \in Int /\ s.gap[q] \in Int /\ s.nextSend \in -1..MaxGap
        /\ s.avail[q] <= s.gap[q] /\ g \in Nat /\ g <= MaxGap /\ MaxGap \in Nat
    BY <1>1, Gaps DEF Good, Paced, State
  <1>3. x \in Int /\ x <= g
    BY <1>2
  <1>4. t = [u EXCEPT !.avail[q] = b, !.gap[q] = g]
    BY DEF ChangeRate
  <1> HIDE DEF x
  <1>5. b \in -MaxGap..MaxGap /\ b <= g
    BY <1>2, <1>3
  <1>6. u = s \/ (y \in -1..MaxGap /\ u = [s EXCEPT !.nextSend = y])
    <2>1. CASE s.nextSend # None /\ x < s.nextSend
      <3>1. y \in -1..MaxGap
        BY <1>2, <1>3
      <3>2. u = [s EXCEPT !.nextSend = y]
        BY <2>1 DEF UpdateNextAvail
      <3> QED BY <3>1, <3>2
    <2>2. CASE ~ (s.nextSend # None /\ x < s.nextSend)
      BY <2>2 DEF UpdateNextAvail
    <2> QED BY <2>1, <2>2
  <1> HIDE DEF y, b, u
  <1>7. /\ u \in State
        /\ u.grp = s.grp /\ u.nxt = s.nxt /\ u.una = s.una /\ u.upTo = s.upTo
        /\ u.avail = s.avail /\ u.gap = s.gap
    BY <1>1, <1>6 DEF State
  <1> DEFINE av == [u.avail EXCEPT ![q] = b]
             ga == [u.gap EXCEPT ![q] = g]
  <1>8. t = [u EXCEPT !.avail = av, !.gap = ga]
    BY <1>4, <1>7 DEF State
  <1>9. /\ av \in [QP -> -MaxGap..MaxGap] /\ ga \in [QP -> SendTimes]
        /\ \A r \in QP : /\ av[r] = IF r = q THEN b ELSE s.avail[r]
                         /\ ga[r] = IF r = q THEN g ELSE s.gap[r]
    BY <1>5, <1>7 DEF State
  <1> HIDE DEF av, ga
  <1>10. /\ t \in State
         /\ t.grp = s.grp /\ t.nxt = s.nxt /\ t.una = s.una /\ t.upTo = s.upTo
         /\ t.avail = av /\ t.gap = ga
    BY <1>7, <1>8, <1>9 DEF State
  <1>11. Paced(t)
    BY <1>5, <1>9, <1>10 DEF Good, Paced
  <1>12. Distinct(t.grp) /\ Served(t, st) /\ Ahead(t)
    BY <1>10 DEF Good, Served, Ahead
  <1> QED BY <1>10, <1>11, <1>12 DEF Good
-----------------------------------------------------------------------------
(***************************************************************************)
(* The events.                                                             *)
(***************************************************************************)
LEMMA BecomeIs == ASSUME NEW t \in State, Become(t) PROVE St' = t
  BY DEF Become, State, St

\* The fields of the current state.
LEMMA Fields ==
  /\ St.grp = grp /\ St.rr = m_rrlast /\ St.nxt = snd_nxt /\ St.una = snd_una
  /\ St.avail = avail /\ St.gap = gap /\ St.ackQ = ackQ /\ St.tx = tx
  /\ St.nextSend = nextSend /\ St.paused = paused /\ St.upTo = upTo
  BY DEF St

LEMMA FieldsNext ==
  /\ St'.grp = grp' /\ St'.rr = m_rrlast' /\ St'.nxt = snd_nxt' /\ St'.una = snd_una'
  /\ St'.avail = avail' /\ St'.gap = gap' /\ St'.ackQ = ackQ' /\ St'.tx = tx'
  /\ St'.nextSend = nextSend' /\ St'.paused = paused' /\ St'.upTo = upTo'
  BY DEF St

\* Every event ends with DequeueAndTransmit.
LEMMA EventEnds ==
  ASSUME status' \in [QP -> {"new", "live", "done"}], NEW s, Good(s, status'),
         Become(DequeueAndTransmit(s))
  PROVE  Steady(St', status')
  <1> DEFINE t == DequeueAndTransmit(s)
  <1>1. Good(t, status') /\ (Guarded => Calm(t, status'))
    BY Dequeued
  <1>2. t \in State
    BY <1>1 DEF Good
  <1> HIDE DEF t
  <1>3. St' = t
    BY <1>2, BecomeIs DEF t
  <1> QED BY <1>1, <1>3 DEF Steady

\* An ACK or NACK.  Without repeated NACKs an ACK is for what was sent since the
\* last NACK, and a NACK throws away everything behind it.
LEMMA AckedKeeps ==
  ASSUME Inv, NEW q \in QP, NEW g \in SendTimes, NEW nack \in BOOLEAN,
         NEW seq \in 0..m_size, NEW top \in 0..m_size, Acked(q, seq, nack, top, g),
         RepeatNack \/ (nack /\ top = seq) \/ (~ nack /\ top = upTo[q] /\ seq <= top)
  PROVE  status' \in [QP -> {"new", "live", "done"}] /\ Steady(St', status')
  <1> DEFINE a == AckPoint(seq)
             y == Acknowledge(snd_una[q], a)
             z == IF nack THEN y ELSE snd_nxt[q]
             s == [St EXCEPT !.una[q] = y, !.nxt[q] = IF nack THEN y ELSE @, !.upTo[q] = top]
  <1>1. /\ status[q] = "live"
        /\ status' = [status EXCEPT ![q] = IF IsFinished(y) THEN "done" ELSE @]
        /\ Become(DequeueAndTransmit(ChangeRate(s, q, g)))
    BY DEF Acked
  <1>2. Good(St, status) /\ St \in State /\ status \in [QP -> {"new", "live", "done"}]
    BY DEF Inv, Steady, Good, Network
  <1>3. status' \in [QP -> {"new", "live", "done"}]
    BY <1>1, <1>2
  <1>4. /\ snd_nxt \in [QP -> 0..m_size] /\ snd_una \in [QP -> 0..m_size]
        /\ upTo \in [QP -> 0..m_size]
    BY <1>2, Fields DEF State
  <1>5. a \in 0..m_size /\ a <= seq
    BY AckPoints
  <1>6. y \in 0..m_size /\ (y = a \/ y = snd_una[q]) /\ a <= y /\ snd_una[q] <= y
    <2>1. snd_una[q] \in 0..m_size
      BY <1>4
    <2> HIDE DEF a
    <2> QED BY <1>5, <2>1 DEF Acknowledge
  <1>7. z \in 0..m_size /\ (nack => z = y) /\ (~ nack => z = snd_nxt[q])
    BY <1>4, <1>6
  <1>8. s = [St EXCEPT !.una[q] = y, !.nxt[q] = z, !.upTo[q] = top]
    BY <1>2, Fields DEF State
  <1> DEFINE un == [snd_una EXCEPT ![q] = y]
             nx == [snd_nxt EXCEPT ![q] = z]
             up == [upTo EXCEPT ![q] = top]
  <1> HIDE DEF s, z, y
  <1>9. s = [St EXCEPT !.una = un, !.nxt = nx, !.upTo = up]
    BY <1>2, <1>8, Fields DEF State
  <1>10. /\ un \in [QP -> 0..m_size] /\ nx \in [QP -> 0..m_size] /\ up \in [QP -> 0..m_size]
         /\ \A r \in QP : /\ un[r] = IF r = q THEN y ELSE snd_una[r]
                          /\ nx[r] = IF r = q THEN z ELSE snd_nxt[r]
                          /\ up[r] = IF r = q THEN top ELSE upTo[r]
    BY <1>4, <1>6, <1>7
  <1> HIDE DEF un, nx, up
  <1>11. /\ s \in State
         /\ s.grp = grp /\ s.una = un /\ s.nxt = nx /\ s.upTo = up
         /\ s.avail = avail /\ s.gap = gap
    BY <1>2, <1>9, <1>10, Fields DEF State
  <1>12. Distinct(s.grp) /\ Paced(s)
    BY <1>2, <1>11, Fields DEF Good, Paced
  <1>13. Served(s, status')
    <2> SUFFICES ASSUME NEW r \in QP
                 PROVE  /\ status'[r] = "new"  => ~ InGroup(grp, r) /\ un[r] = 0
                        /\ status'[r] = "live" => InGroup(grp, r) /\ ~ IsFinished(un[r])
                        /\ status'[r] = "done" => IsFinished(un[r])
      BY <1>11 DEF Served
    <2>1. /\ status[r] = "new"  => ~ InGroup(grp, r) /\ snd_una[r] = 0
          /\ status[r] = "live" => InGroup(grp, r) /\ ~ IsFinished(snd_una[r])
          /\ status[r] = "done" => IsFinished(snd_una[r])
      BY <1>2, Fields DEF Good, Served
    <2>2. CASE r # q
      BY <1>1, <1>2, <1>10, <2>1, <2>2
    <2>3. CASE r = q
      <3>1. un[r] = y /\ InGroup(grp, r)
        BY <1>1, <1>10, <2>1, <2>3
      <3>2. status'[r] = IF IsFinished(y) THEN "done" ELSE "live"
        BY <1>1, <1>2, <2>3
      <3> QED BY <3>1, <3>2
    <2> QED BY <2>2, <2>3
  <1>14. Ahead(s)
    <2> SUFFICES ASSUME ~ RepeatNack, NEW r \in QP
                 PROVE  un[r] <= nx[r] /\ AckPoint(up[r]) <= nx[r]
      BY <1>11 DEF Ahead
    <2>1. snd_una[r] <= snd_nxt[r] /\ AckPoint(upTo[r]) <= snd_nxt[r]
      BY <1>2, Fields DEF Good, Ahead
    <2>2. CASE r # q
      BY <1>10, <2>1, <2>2
    <2>3. CASE r = q /\ nack
      <3>1. un[r] = y /\ nx[r] = y /\ up[r] = seq
        BY <1>7, <1>10, <2>3
      <3>2. AckPoint(up[r]) <= y
        BY <1>6, <3>1
      <3> QED BY <1>6, <3>1, <3>2
    <2>4. CASE r = q /\ ~ nack
      <3>1. un[r] = y /\ nx[r] = snd_nxt[q] /\ up[r] = upTo[q] /\ seq <= upTo[q]
        BY <1>7, <1>10, <2>4
      <3>2. AckPoint(seq) <= AckPoint(upTo[q])
        BY <1>4, <3>1, AckPointsMonotone
      <3>3. AckPoint(upTo[q]) \in 0..m_size /\ snd_nxt[q] \in 0..m_size
        BY <1>4, AckPoints
      <3>4. y <= snd_nxt[q]
        BY <1>5, <1>6, <2>1, <2>4, <3>2, <3>3
      <3> QED BY <2>1, <2>4, <3>1, <3>4
    <2> QED BY <2>2, <2>3, <2>4
  <1>15. Good(s, status')
    BY <1>11, <1>12, <1>13, <1>14 DEF Good
  <1>16. Good(ChangeRate(s, q, g), status')
    BY <1>15, RateChanged
  <1>17. Steady(St', status')
    BY <1>1, <1>3, <1>16, EventEnds DEF s, y
  <1> QED BY <1>3, <1>17

LEMMA Now ==
  ASSUME Inv
  PROVE  /\ Good(St, status) /\ St \in State /\ (Guarded => Calm(St, status))
         /\ status \in [QP -> {"new", "live", "done"}]
         /\ old \in [QP -> Nat] /\ events \in 0..Events /\ Events \in Nat
         /\ RepeatNack \/ \A q \in QP : old[q] = 0
  BY NicAssumption DEF Inv, Steady, Good, Network

LEMMA AddKeeps == ASSUME Inv, NEW q \in QP, AddQueuePair(q) PROVE Inv'
  <1> DEFINE s == [St EXCEPT !.grp = Append(@, q), !.avail[q] = 0]
             g == Append(grp, q)
             av == [avail EXCEPT ![q] = 0]
  <1>1. /\ status[q] = "new" /\ status' = [status EXCEPT ![q] = "live"]
        /\ Become(DequeueAndTransmit(s)) /\ old' = old /\ events' = events
    BY DEF AddQueuePair
  <1>2. status' \in [QP -> {"new", "live", "done"}]
    BY <1>1, Now
  <1>3. grp \in Seq(QP) /\ avail \in [QP -> -MaxGap..MaxGap] /\ St \in State /\ gap \in [QP -> SendTimes]
    BY Now, Fields DEF State
  <1>4. s = [St EXCEPT !.grp = g, !.avail = av]
    BY <1>3, Fields DEF State
  <1>5. /\ g \in Seq(QP) /\ Len(g) = Len(grp) + 1 /\ Len(grp) \in Nat
        /\ g[Len(grp) + 1] = q /\ \A i \in 1..Len(grp) : g[i] = grp[i]
    BY <1>3
  <1>6. av \in [QP -> -MaxGap..MaxGap] /\ \A r \in QP : av[r] = IF r = q THEN 0 ELSE avail[r]
    <2>1. 0 \in -MaxGap..MaxGap
      BY Gaps
    <2> QED BY <1>3, <2>1
  <1> HIDE DEF s, g, av
  <1>7. /\ s \in State
        /\ s.grp = g /\ s.avail = av /\ s.una = snd_una /\ s.nxt = snd_nxt /\ s.upTo = upTo
        /\ s.gap = gap
    BY <1>3, <1>4, <1>5, <1>6, Fields DEF State
  <1>8. /\ \A r \in QP : status[r] = "new" => ~ InGroup(grp, r) /\ snd_una[r] = 0
        /\ \A r \in QP : status[r] = "live" => InGroup(grp, r) /\ ~ IsFinished(snd_una[r])
        /\ \A r \in QP : status[r] = "done" => IsFinished(snd_una[r])
        /\ Distinct(grp)
    BY Now, Fields DEF Good, Served
  <1>9. Distinct(s.grp)
    <2> SUFFICES ASSUME NEW i \in 1..Len(g), NEW j \in 1..Len(g), g[i] = g[j] PROVE i = j
      BY <1>7 DEF Distinct
    <2>1. ~ InGroup(grp, q)
      BY <1>1, <1>8
    <2>2. \A k \in 1..Len(grp) : grp[k] # q
      BY <2>1 DEF InGroup
    <2>3. (i \in 1..Len(grp) \/ i = Len(grp) + 1) /\ (j \in 1..Len(grp) \/ j = Len(grp) + 1)
      BY <1>5
    <2> QED BY <1>5, <1>8, <2>2, <2>3 DEF Distinct
  <1>10. Paced(s)
    <2>1. gap[q] \in Nat
      BY <1>3, Gaps
    <2>2. \A r \in QP : avail[r] <= gap[r]
      BY Now, Fields DEF Good, Paced
    <2>3. \A r \in QP : av[r] <= gap[r]
      BY <1>6, <2>1, <2>2
    <2> QED BY <1>7, <2>3 DEF Paced
  <1>11. Served(s, status')
    <2> SUFFICES ASSUME NEW r \in QP
                 PROVE  /\ status'[r] = "new"  => ~ InGroup(g, r) /\ snd_una[r] = 0
                        /\ status'[r] = "live" => InGroup(g, r) /\ ~ IsFinished(snd_una[r])
                        /\ status'[r] = "done" => IsFinished(snd_una[r])
      BY <1>7 DEF Served
    <2>1. InGroup(g, r) <=> InGroup(grp, r) \/ r = q
      <3>1. \A i \in 1..Len(g) : i \in 1..Len(grp) \/ i = Len(grp) + 1
        BY <1>5
      <3>2. \A i \in 1..Len(grp) : i \in 1..Len(g)
        BY <1>5
      <3>3. Len(grp) + 1 \in 1..Len(g)
        BY <1>5
      <3> QED BY <1>5, <3>1, <3>2, <3>3 DEF InGroup
    <2>2. CASE r # q
      BY <1>1, <1>8, <2>1, <2>2, Now
    <2>3. CASE r = q
      <3>1. status'[r] = "live" /\ snd_una[r] = 0
        BY <1>1, <1>8, <2>3, Now
      <3>2. ~ IsFinished(snd_una[r])
        BY <3>1, FlowAssumption DEF IsFinished
      <3> QED BY <2>1, <2>3, <3>1, <3>2
    <2> QED BY <2>2, <2>3
  <1>12. Ahead(s)
    BY <1>7, Now, Fields DEF Good, Ahead
  <1>13. Good(s, status')
    BY <1>7, <1>9, <1>10, <1>11, <1>12 DEF Good
  <1>14. Steady(St', status')
    BY <1>1, <1>2, <1>13, EventEnds
  <1> QED BY <1>1, <1>2, <1>14, Now DEF Inv, Network

\* The events that only change the queue of ACKs, a pause, or a timer.
LEMMA PlainKeeps ==
  ASSUME Inv, NEW s \in State, Become(DequeueAndTransmit(s)),
         s.grp = grp, s.avail = avail, s.gap = gap, s.nxt = snd_nxt, s.una = snd_una,
         s.upTo = upTo, status' = status, old' = old, events' \in 0..Events
  PROVE  Inv'
  <1>1. Good(s, status')
    BY Now, Fields DEF Good, Paced, Served, Ahead
  <1>2. Steady(St', status')
    BY <1>1, Now, EventEnds
  <1> QED BY <1>2, Now DEF Inv, Network

LEMMA UdpKeeps == ASSUME Inv, ReceiveUdp PROVE Inv'
  <1> DEFINE s == [St EXCEPT !.ackQ = @ + 1]
  <1>1. /\ Become(DequeueAndTransmit(s)) /\ status' = status /\ old' = old
        /\ events' \in 0..Events
    BY Now DEF ReceiveUdp
  <1>2. St \in State /\ St.ackQ + 1 \in Nat /\ s = [St EXCEPT !.ackQ = St.ackQ + 1]
    BY Now DEF State
  <1> HIDE DEF s
  <1>3. /\ s \in State /\ s.grp = grp /\ s.avail = avail /\ s.gap = gap
        /\ s.nxt = snd_nxt /\ s.una = snd_una /\ s.upTo = upTo
    BY <1>2, Fields DEF State
  <1> QED BY <1>1, <1>3, PlainKeeps

LEMMA ResumeKeeps == ASSUME Inv, NEW k \in Prio, ReceiveResume(k) PROVE Inv'
  <1> DEFINE pa == [paused EXCEPT ![k] = FALSE]
             s  == [St EXCEPT !.paused[k] = FALSE]
  <1>1. /\ Become(DequeueAndTransmit(s)) /\ status' = status /\ old' = old
        /\ events' \in 0..Events
    BY Now DEF ReceiveResume
  <1>2. pa \in [Prio -> BOOLEAN] /\ s = [St EXCEPT !.paused = pa]
    BY Now, Fields DEF State
  <1> HIDE DEF s, pa
  <1>3. /\ s \in State /\ s.grp = grp /\ s.avail = avail /\ s.gap = gap
        /\ s.nxt = snd_nxt /\ s.una = snd_una /\ s.upTo = upTo
    BY <1>2, Now, Fields DEF State
  <1> QED BY <1>1, <1>3, PlainKeeps

LEMMA CompleteKeeps == ASSUME Inv, TransmitComplete PROVE Inv'
  <1> DEFINE s == [St EXCEPT !.tx = None]
  <1>1. /\ Become(DequeueAndTransmit(s)) /\ status' = status /\ old' = old
        /\ events' \in 0..Events
    BY Now DEF TransmitComplete
  <1>2. None \in -1..TxTime
    BY Gaps DEF None
  <1>3. /\ s \in State /\ s.grp = grp /\ s.avail = avail /\ s.gap = gap
        /\ s.nxt = snd_nxt /\ s.una = snd_una /\ s.upTo = upTo
    BY <1>2, Now, Fields DEF State
  <1> HIDE DEF s
  <1> QED BY <1>1, <1>3, PlainKeeps

LEMMA NextSendKeeps == ASSUME Inv, NextSend PROVE Inv'
  <1> DEFINE s == [St EXCEPT !.nextSend = None]
  <1>1. /\ Become(DequeueAndTransmit(s)) /\ status' = status /\ old' = old
        /\ events' \in 0..Events
    BY Now DEF NextSend
  <1>2. None \in -1..MaxGap
    BY Gaps DEF None
  <1>3. /\ s \in State /\ s.grp = grp /\ s.avail = avail /\ s.gap = gap
        /\ s.nxt = snd_nxt /\ s.una = snd_una /\ s.upTo = upTo
    BY <1>2, Now, Fields DEF State
  <1> HIDE DEF s
  <1> QED BY <1>1, <1>3, PlainKeeps

LEMMA AckKeeps == ASSUME Inv, NEW q \in QP, NEW g \in SendTimes, ReceiveAck(q, g) PROVE Inv'
  <1>1. PICK seq \in (snd_una[q] + 1)..upTo[q] : Acked(q, seq, FALSE, upTo[q], g)
    BY DEF ReceiveAck
  <1>2. old' = [old EXCEPT ![q] = 0] /\ events' = events
    BY DEF ReceiveAck
  <1>3. snd_una[q] \in 0..m_size /\ upTo[q] \in 0..m_size /\ m_size \in Nat
    BY Now, Fields, FlowAssumption DEF State
  <1>4. seq \in 0..m_size /\ seq <= upTo[q]
    BY <1>3
  <1>5. status' \in [QP -> {"new", "live", "done"}] /\ Steady(St', status')
    BY <1>1, <1>3, <1>4, AckedKeeps
  <1>6. old' \in [QP -> Nat] /\ (RepeatNack \/ \A r \in QP : old'[r] = 0)
    BY <1>2, Now
  <1> QED BY <1>2, <1>5, <1>6, Now DEF Inv, Network

LEMMA NackKeeps == ASSUME Inv, NEW q \in QP, NEW g \in SendTimes, ReceiveNack(q, g) PROVE Inv'
  <1>1. PICK seq \in snd_una[q]..(upTo[q] - 2) :
          /\ Acked(q, seq, TRUE, seq, g)
          /\ old' = [old EXCEPT ![q] = IF RepeatNack THEN upTo[q] - seq - 2 ELSE 0]
    BY DEF ReceiveNack
  <1>2. events < Events /\ events' = events + 1
    BY DEF ReceiveNack
  <1>3. snd_una[q] \in 0..m_size /\ upTo[q] \in 0..m_size /\ m_size \in Nat
    BY Now, Fields, FlowAssumption DEF State
  <1>4. seq \in 0..m_size /\ upTo[q] - seq - 2 \in Nat
    BY <1>3
  <1>5. status' \in [QP -> {"new", "live", "done"}] /\ Steady(St', status')
    BY <1>1, <1>4, AckedKeeps
  <1>6. old' \in [QP -> Nat] /\ (RepeatNack \/ \A r \in QP : old'[r] = 0)
    BY <1>1, <1>4, Now
  <1>7. events' \in 0..Events
    BY <1>2, Now
  <1> QED BY <1>5, <1>6, <1>7 DEF Inv, Network

LEMMA OldNackKeeps == ASSUME Inv, NEW q \in QP, NEW g \in SendTimes, ReceiveOldNack(q, g) PROVE Inv'
  <1>1. /\ old[q] > 0 /\ Acked(q, snd_una[q], TRUE, upTo[q], g)
        /\ old' = [old EXCEPT ![q] = old[q] - 1] /\ events' = events
    BY DEF ReceiveOldNack
  <1>2. snd_una[q] \in 0..m_size /\ upTo[q] \in 0..m_size
    BY Now, Fields DEF State
  <1>3. RepeatNack
    BY <1>1, Now
  <1>4. status' \in [QP -> {"new", "live", "done"}] /\ Steady(St', status')
    BY <1>1, <1>2, <1>3, AckedKeeps
  <1>5. old[q] - 1 \in Nat
    BY <1>1, Now
  <1>6. old' \in [QP -> Nat]
    BY <1>1, <1>5, Now
  <1> QED BY <1>1, <1>3, <1>4, <1>6, Now DEF Inv, Network

\* A PAUSE only takes away from what may be sent.
LEMMA PauseKeeps == ASSUME Inv, NEW k \in Prio, ReceivePause(k) PROVE Inv'
  <1>1. /\ paused' = [paused EXCEPT ![k] = TRUE] /\ events < Events /\ events' = events + 1
        /\ UNCHANGED <<status, grp, m_rrlast, snd_nxt, snd_una, avail, gap, ackQ, tx, nextSend, upTo, old>>
    BY DEF ReceivePause
  <1>2. paused \in [Prio -> BOOLEAN] /\ St \in State
    BY Now, Fields DEF State
  <1>3. paused' \in [Prio -> BOOLEAN] /\ \A i \in Prio : paused[i] => paused'[i]
    BY <1>1, <1>2
  <1>4. St' \in State
    BY <1>1, <1>2, <1>3, Fields, FieldsNext DEF State, St
  <1>5. Good(St', status')
    BY <1>1, <1>4, Now, Fields, FieldsNext DEF Good, Paced, Served, Ahead
  <1>6. \A r \in QP : MaySend(St', r) => MaySend(St, r)
    <2> SUFFICES ASSUME NEW r \in QP, MaySend(St', r) PROVE MaySend(St, r)
      OBVIOUS
    <2>1. pg[r] \in Prio
      BY DEF Prio
    <2>2. ~ paused[pg[r]]
      BY <1>3, <2>1, FieldsNext DEF MaySend
    <2>3. St'.nxt = St.nxt /\ St'.una = St.una
      BY <1>1, Fields, FieldsNext
    <2> QED BY <2>2, <2>3, Fields DEF MaySend
  <1>7. ack_q_idx \in Prio
    BY DEF Prio
  <1>8. ASSUME Calm(St, status) PROVE Calm(St', status')
    BY <1>1, <1>3, <1>6, <1>7, <1>8, Fields, FieldsNext DEF Calm
  <1>9. events' \in 0..Events
    BY <1>1, Now
  <1> QED BY <1>1, <1>5, <1>8, <1>9, Now DEF Inv, Steady, Network

LEMMA TickKeeps == ASSUME Inv, Tick PROVE Inv'
  <1>1. /\ tx # 0 /\ nextSend # 0
        /\ tx' = IF tx = None THEN None ELSE tx - 1
        /\ nextSend' = IF nextSend = None THEN None ELSE nextSend - 1
        /\ avail' = [q \in QP |-> IF avail[q] > -MaxGap THEN avail[q] - 1 ELSE avail[q]]
        /\ UNCHANGED <<status, grp, m_rrlast, snd_nxt, snd_una, gap, ackQ, paused, upTo, old, events>>
    BY DEF Tick
  <1>2. /\ St \in State /\ tx \in -1..TxTime /\ nextSend \in -1..MaxGap
        /\ avail \in [QP -> -MaxGap..MaxGap] /\ gap \in [QP -> SendTimes]
    BY Now, Fields DEF State
  <1>3. tx' \in -1..TxTime /\ nextSend' \in -1..MaxGap
    BY <1>1, <1>2, Gaps DEF None
  <1>4. (tx' = None <=> tx = None) /\ (nextSend' = None <=> nextSend = None)
    BY <1>1, <1>2, Gaps DEF None
  <1>5. \A q \in QP : avail'[q] \in -MaxGap..MaxGap /\ avail'[q] <= avail[q]
    BY <1>1, <1>2, Gaps
  <1>6. avail' \in [QP -> -MaxGap..MaxGap]
    BY <1>1, <1>5
  <1>7. St' \in State
    BY <1>1, <1>2, <1>3, <1>6, Fields, FieldsNext DEF State, St
  <1>8. \A q \in QP : avail'[q] <= gap[q]
    <2>1. \A q \in QP : avail[q] <= gap[q]
      BY Now, Fields DEF Good, Paced
    <2>2. \A q \in QP : avail[q] \in -MaxGap..MaxGap /\ gap[q] \in Nat
      BY <1>2, Gaps, Zenon
    <2>3. \A q \in QP : avail'[q] \in Int
      BY <1>5, Gaps
    <2> QED BY <1>5, <2>1, <2>2, <2>3
  <1>9. Good(St', status')
    BY <1>1, <1>7, <1>8, Now, Fields, FieldsNext DEF Good, Paced, Served, Ahead
  <1>10. ASSUME Calm(St, status) PROVE Calm(St', status')
    <2>1. \A r \in QP : MaySend(St', r) <=> MaySend(St, r)
      BY <1>1, Fields, FieldsNext DEF MaySend
    <2> QED BY <1>1, <1>4, <1>10, <2>1, Fields, FieldsNext DEF Calm
  <1> QED BY <1>1, <1>9, <1>10, Now DEF Inv, Steady, Network

LEMMA InitInv == Init => Inv
  <1> SUFFICES ASSUME Init PROVE Inv
    OBVIOUS
  <1>1. /\ status = [q \in QP |-> "new"] /\ grp = <<>> /\ m_rrlast = 0
        /\ snd_nxt = [q \in QP |-> 0] /\ snd_una = [q \in QP |-> 0]
        /\ avail = [q \in QP |-> -MaxGap] /\ gap = [q \in QP |-> TxTime]
        /\ ackQ = 0 /\ tx = None /\ nextSend = None
        /\ paused = [k \in Prio |-> FALSE]
        /\ upTo = [q \in QP |-> 0] /\ old = [q \in QP |-> 0] /\ events = 0
    BY DEF Init
  <1>2. 0 \in 0..m_size /\ None \in -1..TxTime /\ None \in -1..MaxGap /\ -MaxGap \in -MaxGap..MaxGap
    BY FlowAssumption, Gaps DEF None
  <1>3. TxTime \in SendTimes /\ -MaxGap <= TxTime /\ Events \in Nat
    BY TimeAssumption, NicAssumption, Gaps
  <1>4. /\ snd_nxt \in [QP -> 0..m_size] /\ snd_una \in [QP -> 0..m_size]
        /\ upTo \in [QP -> 0..m_size] /\ avail \in [QP -> -MaxGap..MaxGap]
        /\ gap \in [QP -> SendTimes] /\ paused \in [Prio -> BOOLEAN] /\ grp \in Seq(QP)
    BY <1>1, <1>2, <1>3
  <1>5. St \in State
    BY <1>1, <1>2, <1>4 DEF St, State
  <1>6. Distinct(grp) /\ \A q \in QP : ~ InGroup(grp, q)
    BY <1>1 DEF Distinct, InGroup
  <1>7. Paced(St)
    BY <1>1, <1>3, Fields DEF Paced
  <1>8. Served(St, status)
    BY <1>1, <1>6, Fields DEF Served
  <1>9. Ahead(St)
    <2>1. AckPoint(0) <= 0
      BY <1>2, AckPoints
    <2> QED BY <1>1, <2>1, Fields DEF Ahead
  <1>10. Calm(St, status)
    BY <1>1, Fields DEF Calm
  <1>11. Network
    BY <1>1, <1>3 DEF Network
  <1> QED BY <1>5, <1>6, <1>7, <1>8, <1>9, <1>10, <1>11, Fields DEF Inv, Steady, Good

LEMMA NextInv == Inv /\ [Next]_vars => Inv'
  <1> SUFFICES ASSUME Inv, [Next]_vars PROVE Inv'
    OBVIOUS
  <1>1. ASSUME NEW q \in QP, AddQueuePair(q) PROVE Inv'
    BY <1>1, AddKeeps
  <1>2. ASSUME NEW q \in QP, NEW g \in SendTimes,
               ReceiveAck(q, g) \/ ReceiveNack(q, g) \/ ReceiveOldNack(q, g)
        PROVE  Inv'
    BY <1>2, AckKeeps, NackKeeps, OldNackKeeps
  <1>3. CASE ReceiveUdp
    BY <1>3, UdpKeeps
  <1>4. ASSUME NEW k \in Prio, ReceivePause(k) \/ ReceiveResume(k) PROVE Inv'
    BY <1>4, PauseKeeps, ResumeKeeps
  <1>5. CASE TransmitComplete
    BY <1>5, CompleteKeeps
  <1>6. CASE NextSend
    BY <1>6, NextSendKeeps
  <1>7. CASE Tick
    BY <1>7, TickKeeps
  <1>8. CASE UNCHANGED vars
    BY <1>8 DEF vars, Inv, Steady, Network, St
  <1> QED BY <1>1, <1>2, <1>3, <1>4, <1>5, <1>6, <1>7, <1>8 DEF Next
-----------------------------------------------------------------------------
\* The inductive invariant holds in every behaviour of the NIC.
THEOREM Invariance == Spec => []Inv
  BY InitInv, NextInv, PTL DEF Spec

\* Every variable of the NIC keeps its type: the sequence numbers stay within the
\* flow, and m_nextAvail and m_nextSend never lie further ahead than one packet
\* at the slowest rate, however GetNextQindex, PktSent and ChangeRate interleave.
THEOREM TypeCorrect == Spec => []TypeOK
  <1>1. Inv => TypeOK
    BY Now, Fields DEF State, TypeOK
  <1> QED BY <1>1, Invariance, PTL

\* A queue pair that is not complete is in the group of its NIC exactly once: the
\* removal of finished queue pairs in GetNextQindex moves the others and loses or
\* doubles none, wherever the loop broke.
THEOREM NoneForgotten == Spec => []LiveInGroup
  <1>1. ASSUME Inv PROVE LiveInGroup
    <2> SUFFICES ASSUME NEW q \in QP, status[q] = "live"
                 PROVE  Cardinality({i \in 1..Len(grp) : grp[i] = q}) = 1
      BY DEF LiveInGroup
    <2>1. Distinct(grp) /\ InGroup(grp, q)
      BY <1>1, Now, Fields DEF Good, Served
    <2>2. PICK i \in 1..Len(grp) : grp[i] = q
      BY <2>1 DEF InGroup
    <2>3. {j \in 1..Len(grp) : grp[j] = q} = {i}
      BY <2>1, <2>2 DEF Distinct
    <2> QED BY <2>3, FS_Singleton
  <1>2. Inv => LiveInGroup
    BY <1>1
  <1> QED BY <1>2, Invariance, PTL

\* With a window, or without repeated NACKs, the index GetNextQindex returns is
\* that of the queue pair it has chosen, although the finished ones before it are
\* removed by the same call.
THEOREM IndexCorrect == ASSUME Guarded PROVE Spec => []IndexIsOfChosen
  <1>1. ASSUME Inv PROVE IndexIsOfChosen
    <2> DEFINE pick == GetNextQindex(St)
    <2>1. St \in State /\ Distinct(St.grp) /\ Ahead(St)
      BY <1>1, Now DEF Good
    <2>2. pick.idx # None =>
            /\ pick.qp \in QP /\ MaySend(St, pick.qp)
            /\ ~ IsFinished(St.una[pick.qp]) =>
                 pick.idx <= Len(pick.grp) /\ pick.grp[pick.idx] = pick.qp
      BY <2>1, Chosen
    <2> HIDE DEF pick
    <2>3. pick.idx # None => ~ IsFinished(St.una[pick.qp])
      BY <1>1, <2>1, <2>2, SendersUnfinished
    <2> QED BY <2>2, <2>3 DEF IndexIsOfChosen, pick
  <1>2. Inv => IndexIsOfChosen
    BY <1>1
  <1> QED BY <1>2, Invariance, PTL

\* With a window, or without repeated NACKs, an idle NIC has a reason to be idle:
\* an ACK is queued only behind a pause, and a queue pair that may send has the
\* event m_nextSend to wait for or another queue pair whose ACK or RESUME will
\* trigger the NIC.
THEOREM IdleHasReason == ASSUME Guarded PROVE Spec => []StallEnds
  <1>1. Inv => StallEnds
    BY Now, Fields DEF Calm, StallEnds, Idle
  <1> QED BY <1>1, Invariance, PTL
=============================================================================
