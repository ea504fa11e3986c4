------------------------- MODULE SwitchMmuProofs ----------------------------
(***************************************************************************)
(* What admitting and releasing a packet does to the counters of the MMU,  *)
(* for every number of ports, priorities and packets, every packet size    *)
(* and every configuration whose headrooms and reserves fit into the       *)
(* buffer: EnterInv and LeaveInv.                                          *)
(***************************************************************************)
EXTENDS SwitchMmu, FiniteSetTheorems, TLAPS

(***************************************************************************)
(* Cells.                                                                  *)
(***************************************************************************)
Column(x, lo, hi) == {<<x, i>> : i \in (lo + 1)..hi}

\* A column of cells has as many cells as its interval has numbers.
LEMMA ColumnSize ==
  ASSUME NEW x, NEW lo \in Nat, NEW hi \in Nat, lo <= hi
  PROVE  IsFiniteSet(Column(x, lo, hi)) /\ Cardinality(Column(x, lo, hi)) = hi - lo
  <1> DEFINE a == lo + 1
             I == a..hi
             f == [i \in I |-> <<x, i>>]
  <1>a. a \in Int /\ hi \in Int /\ (a > hi => hi - lo = 0) /\ hi - a + 1 = hi - lo
    OBVIOUS
  <1>1. IsFiniteSet(I) /\ Cardinality(I) = hi - lo
    <2> HIDE DEF a
    <2>1. /\ IsFiniteSet(a..hi)
          /\ Cardinality(a..hi) = IF a > hi THEN 0 ELSE hi - a + 1
      BY <1>a, FS_Interval
    <2> QED BY <2>1, <1>a
  <1>2. f \in Bijection(I, Column(x, lo, hi))
    BY DEF Column, Bijection, Injection, Surjection, IsInjective
  <1>3. ExistsBijection(I, Column(x, lo, hi))
    BY <1>2 DEF ExistsBijection
  <1> QED BY <1>1, <1>3, FS_Bijection

\* Adding a column that is not there yet.
LEMMA AddColumn ==
  ASSUME NEW C, IsFiniteSet(C), NEW x, NEW lo \in Nat, NEW hi \in Nat, lo <= hi,
         C \cap Column(x, lo, hi) = {}
  PROVE  /\ IsFiniteSet(C \cup Column(x, lo, hi))
         /\ Cardinality(C \cup Column(x, lo, hi)) = Cardinality(C) + (hi - lo)
  <1>1. IsFiniteSet(Column(x, lo, hi)) /\ Cardinality(Column(x, lo, hi)) = hi - lo
    BY ColumnSize
  <1>2. Cardinality(C) \in Nat
    BY FS_CardinalityType
  <1>3. /\ IsFiniteSet(C \cup Column(x, lo, hi))
        /\ Cardinality(C \cup Column(x, lo, hi)) =
             Cardinality(C) + Cardinality(Column(x, lo, hi)) - Cardinality({})
    BY <1>1, FS_Union
  <1> QED BY <1>1, <1>2, <1>3, FS_EmptySet

\* The cells of a packet that joins a set are new ones.
LEMMA AddPacket ==
  ASSUME NEW S, S \subseteq Packet, NEW b \in Packet, b \notin S,
         IsFiniteSet(CellsOf(S))
  PROVE  /\ IsFiniteSet(CellsOf(S \cup {b}))
         /\ BytesOf(S \cup {b}) = BytesOf(S) + b.size
         /\ BytesOf(S) \in Nat
  <1>1. b.size \in Nat
    BY SizeAssumption DEF Packet
  <1>2. CellsOf(S \cup {b}) = CellsOf(S) \cup Column(b, 0, b.size)
    BY DEF CellsOf, Column
  <1>3. CellsOf(S) \cap Column(b, 0, b.size) = {}
    BY DEF CellsOf, Column
  <1>4. b.size \in Nat /\ 0 \in Nat /\ 0 <= b.size /\ b.size - 0 = b.size
    BY <1>1
  <1>5. /\ IsFiniteSet(CellsOf(S) \cup Column(b, 0, b.size))
        /\ Cardinality(CellsOf(S) \cup Column(b, 0, b.size)) =
             Cardinality(CellsOf(S)) + (b.size - 0)
    BY <1>3, <1>4, AddColumn
  <1>6. Cardinality(CellsOf(S)) \in Nat
    BY FS_CardinalityType
  <1> QED BY <1>2, <1>4, <1>5, <1>6 DEF BytesOf

\* Fewer packets hold finitely many cells again.
LEMMA FewerPackets ==
  ASSUME NEW S, IsFiniteSet(CellsOf(S)), NEW T \in SUBSET S
  PROVE  IsFiniteSet(CellsOf(T))
  <1>1. CellsOf(T) \subseteq CellsOf(S)
    BY DEF CellsOf
  <1> QED BY <1>1, FS_Subset

\* No packets hold no bytes.
LEMMA NoPackets == IsFiniteSet(CellsOf({})) /\ BytesOf({}) = 0
  <1>1. CellsOf({}) = {}
    BY DEF CellsOf
  <1> QED BY <1>1, FS_EmptySet DEF BytesOf
-----------------------------------------------------------------------------
(***************************************************************************)
(* The cells of the shared pool, as a function of the excess of every      *)
(* ingress over its reserve.                                               *)
(***************************************************************************)
Used(i)   == IF i > reserve THEN i - reserve ELSE 0
Excess(m) == [x \in PQ |-> Used(m.ingress_bytes[x])]
Under(u)  == {c \in PQ \X (1..Pool) : c[2] <= u[c[1]]}

\* The excess of one ingress is a natural number.
LEMMA UsedType == \A i \in Nat : Used(i) \in Nat /\ Used(i) <= i
  BY BytesAssumption DEF Used

\* SharedCells only depends on the excesses.
LEMMA SharedCellsUnder ==
  ASSUME NEW m \in MmuState
  PROVE  SharedCells(m) = Under(Excess(m))
  <1>1. ASSUME NEW c \in PQ \X (1..Pool)
        PROVE  GetSharedUsed(m, c[1][1], c[1][2]) = Excess(m)[c[1]]
    <2>1. PICK p \in Port, q \in Queue, i \in 1..Pool : c = <<<<p, q>>, i>>
      BY DEF PQ
    <2>2. c[1] = <<p, q>> /\ c[1][1] = p /\ c[1][2] = q /\ <<p, q>> \in PQ
      BY <2>1 DEF PQ
    <2>3. GetSharedUsed(m, p, q) = Excess(m)[<<p, q>>]
      BY <2>2 DEF GetSharedUsed, Excess, Used
    <2> QED BY <2>2, <2>3
  <1> QED BY <1>1 DEF SharedCells, Under

\* Whatever the excesses, the cells are finitely many.
LEMMA UnderFinite ==
  ASSUME NEW u
  PROVE  IsFiniteSet(Under(u)) /\ Cardinality(Under(u)) \in Nat
  <1>1. IsFiniteSet(PQ)
    BY PortAssumption, FS_Product DEF PQ
  <1>2. IsFiniteSet(1..Pool)
    BY PoolAssumption, FS_Interval
  <1>3. IsFiniteSet(PQ \X (1..Pool))
    BY <1>1, <1>2, FS_Product
  <1>4. Under(u) \subseteq PQ \X (1..Pool)
    BY DEF Under
  <1> QED BY <1>3, <1>4, FS_Subset, FS_CardinalityType

\* Raising one excess adds as many cells as it is raised by.
LEMMA RaiseOne ==
  ASSUME NEW u \in [PQ -> Nat], NEW x \in PQ, NEW n \in Nat, u[x] <= n, n <= Pool
  PROVE  Cardinality(Under([u EXCEPT ![x] = n])) = Cardinality(Under(u)) + (n - u[x])
  <1> DEFINE v == [u EXCEPT ![x] = n]
  <1>1. u[x] \in Nat /\ Pool \in Nat
    BY PoolAssumption
  <1>2. Column(x, u[x], n) \subseteq PQ \X (1..Pool)
    BY <1>1 DEF Column
  <1>3. ASSUME NEW c \in PQ \X (1..Pool)
        PROVE  c \in Under(v) <=> c \in Under(u) \cup Column(x, u[x], n)
    <2>1. PICK z \in PQ, i \in 1..Pool : c = <<z, i>>
      OBVIOUS
    <2>2. i \in Int /\ u[z] \in Nat
      BY <1>1
    <2>3. CASE z = x
      <3>1. c \in Under(v) <=> i <= n
        BY <2>1, <2>3 DEF Under
      <3>2. c \in Under(u) <=> i <= u[x]
        BY <2>1, <2>3 DEF Under
      <3>3. c \in Column(x, u[x], n) <=> i \in (u[x] + 1)..n
        BY <2>1, <2>3 DEF Column
      <3> QED BY <3>1, <3>2, <3>3, <1>1, <2>2
    <2>4. CASE z # x
      <3>1. c \in Under(v) <=> c \in Under(u)
        BY <2>1, <2>4 DEF Under
      <3>2. c \notin Column(x, u[x], n)
        BY <2>1, <2>4 DEF Column
      <3> QED BY <3>1, <3>2
    <2> QED BY <2>3, <2>4
  <1>4. Under(v) = Under(u) \cup Column(x, u[x], n)
    <2>1. Under(v) \subseteq PQ \X (1..Pool) /\ Under(u) \subseteq PQ \X (1..Pool)
      BY DEF Under
    <2> QED BY <2>1, <1>2, <1>3
  <1>5. Under(u) \cap Column(x, u[x], n) = {}
    BY <1>1 DEF Under, Column
  <1> HIDE DEF v
  <1>6. Cardinality(Under(v)) = Cardinality(Under(u)) + (n - u[x])
    <2>1. IsFiniteSet(Under(u))
      BY UnderFinite
    <2>2. Cardinality(Under(u) \cup Column(x, u[x], n)) = Cardinality(Under(u)) + (n - u[x])
      BY <1>1, <1>5, <2>1, AddColumn
    <2> QED BY <1>4, <2>2
  <1> QED BY <1>6 DEF v

\* No excess exceeds the number of cells.
LEMMA OneUnder ==
  ASSUME NEW u \in [PQ -> Nat], NEW x \in PQ, u[x] <= Pool
  PROVE  u[x] <= Cardinality(Under(u))
  <1> DEFINE w == [u EXCEPT ![x] = 0]
  <1>1. w \in [PQ -> Nat] /\ w[x] = 0 /\ u[x] \in Nat /\ [w EXCEPT ![x] = u[x]] = u
    OBVIOUS
  <1> HIDE DEF w
  <1>2. w[x] <= u[x]
    BY <1>1
  <1>3. Cardinality(Under([w EXCEPT ![x] = u[x]])) = Cardinality(Under(w)) + (u[x] - w[x])
    BY <1>1, <1>2, RaiseOne
  <1>4. Cardinality(Under(w)) \in Nat /\ Cardinality(Under(u)) \in Nat
    BY UnderFinite
  <1>5. Under([w EXCEPT ![x] = u[x]]) = Under(u)
    BY <1>1
  <1>6. Cardinality(Under(u)) = Cardinality(Under(w)) + (u[x] - w[x])
    BY <1>3, <1>5
  <1>7. Cardinality(Under(u)) = Cardinality(Under(w)) + u[x]
    BY <1>1, <1>4, <1>6
  <1> QED BY <1>1, <1>4, <1>7

\* Setting one excess to any value within the pool.
LEMMA SetOne ==
  ASSUME NEW u \in [PQ -> Nat], NEW x \in PQ, NEW n \in Nat, u[x] <= Pool, n <= Pool
  PROVE  Cardinality(Under([u EXCEPT ![x] = n])) = Cardinality(Under(u)) + n - u[x]
  <1> DEFINE v == [u EXCEPT ![x] = n]
  <1>1. v \in [PQ -> Nat] /\ v[x] = n /\ u[x] \in Nat /\ [v EXCEPT ![x] = u[x]] = u
    OBVIOUS
  <1>2. Cardinality(Under(u)) \in Nat /\ Cardinality(Under(v)) \in Nat
    BY UnderFinite
  <1>3. CASE u[x] <= n
    BY <1>1, <1>2, <1>3, RaiseOne
  <1>4. CASE n < u[x]
    <2> HIDE DEF v
    <2>1. v[x] <= u[x]
      BY <1>1, <1>4
    <2>2. Cardinality(Under([v EXCEPT ![x] = u[x]])) = Cardinality(Under(v)) + (u[x] - v[x])
      BY <1>1, <2>1, RaiseOne
    <2>a. Under([v EXCEPT ![x] = u[x]]) = Under(u)
      BY <1>1
    <2>b. Cardinality(Under(u)) = Cardinality(Under(v)) + (u[x] - n)
      BY <1>1, <2>2, <2>a
    <2>3. Cardinality(Under(v)) = Cardinality(Under(u)) + n - u[x]
      BY <1>1, <1>2, <2>b
    <2> QED BY <2>3 DEF v
  <1> QED BY <1>1, <1>3, <1>4
-----------------------------------------------------------------------------
(***************************************************************************)
(* The inductive invariant, on the counters m and the packets B held.      *)
(***************************************************************************)
Consistent(m, B) ==
  /\ m \in MmuState
  /\ B \subseteq Packet
  /\ IsFiniteSet(CellsOf(B))
  /\ m.shared_used_bytes <= Pool
  /\ IngressMatches(m, B)
  /\ EgressMatches(m, B)
  /\ SharedMatches(m)
  /\ HeadroomBounded(m)
  /\ HeadroomPaused(m)
  /\ PausedHolds(m, B)

\* Dividing a natural number does not make it larger.
LEMMA DivBound == \A n \in Nat : \A d \in Nat \ {0} : n \div d \in Nat /\ n \div d <= n
  <1> SUFFICES ASSUME NEW n \in Nat, NEW d \in Nat \ {0}
               PROVE  n \div d \in Nat /\ n \div d <= n
    OBVIOUS
  <1>1. n \div d \in Nat
    BY Z3
  <1>2. n = d * (n \div d) + (n % d) /\ n % d \in Nat
    BY Z3
  <1>3. \A k \in Nat : d * k >= k
    BY Z3
  <1>4. d * (n \div d) \in Nat
    BY <1>1, Z3
  <1> QED BY <1>1, <1>2, <1>3, <1>4

\* While the pool is not overdrawn the threshold is at most what is left of it.
LEMMA ThresholdBound ==
  ASSUME NEW m \in MmuState, NEW p \in Port, m.shared_used_bytes <= Pool
  PROVE  /\ GetPfcThreshold(m, p) \in Nat
         /\ GetPfcThreshold(m, p) <= Pool - m.shared_used_bytes
  <1> DEFINE d == 2 ^ pfc_a_shift[p]
             n == Pool - m.shared_used_bytes
  <1>1. d \in Nat \ {0}
    BY ShiftAssumption
  <1>2. m.shared_used_bytes \in Nat
    BY DEF MmuState
  <1>3. n \in Nat
    BY <1>2, PoolAssumption
  <1>4. GetPfcThreshold(m, p) = n \div d
    BY DEF GetPfcThreshold, Pool
  <1> HIDE DEF n, d
  <1>5. GetPfcThreshold(m, p) \in Nat /\ GetPfcThreshold(m, p) <= n
    BY <1>1, <1>3, <1>4, DivBound
  <1> QED BY <1>5 DEF n

\* What entering or leaving does to the counters, in one record: the ingress
\* counters of x, the egress counter of y, the shared total and the pauses.
Updated(m, x, y, i, h, e, s, ps) ==
  [ shared_used_bytes |-> s,
    hdrm_bytes        |-> [m.hdrm_bytes EXCEPT ![x] = h],
    ingress_bytes     |-> [m.ingress_bytes EXCEPT ![x] = i],
    egress_bytes      |-> [m.egress_bytes EXCEPT ![y] = e],
    paused            |-> ps ]

\* Conditions under which such an update keeps the invariant.
Balanced(m, B, B2, p, o, q, i, h, e, s, ps) ==
  /\ B2 \subseteq Packet /\ IsFiniteSet(CellsOf(B2))
  /\ i \in Nat /\ h \in Nat /\ e \in Nat /\ s \in Nat /\ ps \in [PQ -> BOOLEAN]
  /\ s <= Pool
  /\ i + h = BytesOf(From(B2, p, q))
  /\ e = BytesOf(To(B2, o, q))
  /\ \A r \in Port, k \in Queue : <<r, k>> # <<p, q>> => From(B2, r, k) = From(B, r, k)
  /\ \A r \in Port, k \in Queue : <<r, k>> # <<o, q>> => To(B2, r, k) = To(B, r, k)
  /\ s = m.shared_used_bytes + Used(i) - Used(m.ingress_bytes[<<p, q>>])
  /\ Used(i) <= Pool
  /\ h <= headroom[p]
  /\ \A z \in PQ : z # <<p, q>> => ps[z] = m.paused[z]
  /\ h > 0 => ps[<<p, q>>]
  /\ ps[<<p, q>>] => From(B2, p, q) # {}

\* Such an update keeps the invariant.
LEMMA Account ==
  ASSUME NEW m, NEW B, Consistent(m, B), NEW B2,
         NEW p \in Port, NEW o \in Port, NEW q \in Queue,
         NEW i, NEW h, NEW e, NEW s, NEW ps,
         Balanced(m, B, B2, p, o, q, i, h, e, s, ps)
  PROVE  Consistent(Updated(m, <<p, q>>, <<o, q>>, i, h, e, s, ps), B2)
  <1> USE DEF Balanced
  <1> DEFINE x == <<p, q>>
             y == <<o, q>>
             a == Updated(m, x, y, i, h, e, s, ps)
  <1>1. x \in PQ /\ y \in PQ
    BY DEF PQ
  <1>2. /\ m.shared_used_bytes \in Nat
        /\ m.hdrm_bytes \in [PQ -> Nat]
        /\ m.ingress_bytes \in [PQ -> Nat]
        /\ m.egress_bytes \in [PQ -> Nat]
        /\ m.paused \in [PQ -> BOOLEAN]
    BY DEF Consistent, MmuState
  <1>3. /\ a.shared_used_bytes = s
        /\ a.hdrm_bytes = [m.hdrm_bytes EXCEPT ![x] = h]
        /\ a.ingress_bytes = [m.ingress_bytes EXCEPT ![x] = i]
        /\ a.egress_bytes = [m.egress_bytes EXCEPT ![y] = e]
        /\ a.paused = ps
    BY DEF Updated
  <1>4. a \in MmuState
    BY <1>1, <1>2 DEF Updated, MmuState
  <1> HIDE DEF a
  <1>5. IngressMatches(a, B2)
    <2> SUFFICES ASSUME NEW r \in Port, NEW k \in Queue
                 PROVE  a.ingress_bytes[<<r, k>>] + a.hdrm_bytes[<<r, k>>] =
                          BytesOf(From(B2, r, k))
      BY DEF IngressMatches
    <2>1. CASE <<r, k>> = x
      <3>1. a.ingress_bytes[<<r, k>>] = i /\ a.hdrm_bytes[<<r, k>>] = h /\ r = p /\ k = q
        BY <1>1, <1>2, <1>3, <2>1
      <3> QED BY <3>1
    <2>2. CASE <<r, k>> # x
      <3>1. /\ a.ingress_bytes[<<r, k>>] = m.ingress_bytes[<<r, k>>]
            /\ a.hdrm_bytes[<<r, k>>] = m.hdrm_bytes[<<r, k>>]
        BY <1>1, <1>2, <1>3, <2>2 DEF PQ
      <3>2. m.ingress_bytes[<<r, k>>] + m.hdrm_bytes[<<r, k>>] = BytesOf(From(B, r, k))
        BY DEF Consistent, IngressMatches
      <3>3. From(B2, r, k) = From(B, r, k)
        BY <2>2
      <3> QED BY <3>1, <3>2, <3>3
    <2> QED BY <2>1, <2>2
  <1>6. EgressMatches(a, B2)
    <2> SUFFICES ASSUME NEW r \in Port, NEW k \in Queue
                 PROVE  a.egress_bytes[<<r, k>>] = BytesOf(To(B2, r, k))
      BY DEF EgressMatches
    <2>1. CASE <<r, k>> = y
      <3>1. a.egress_bytes[<<r, k>>] = e /\ r = o /\ k = q
        BY <1>1, <1>2, <1>3, <2>1
      <3> QED BY <3>1
    <2>2. CASE <<r, k>> # y
      <3>1. a.egress_bytes[<<r, k>>] = m.egress_bytes[<<r, k>>]
        BY <1>1, <1>2, <1>3, <2>2 DEF PQ
      <3>2. m.egress_bytes[<<r, k>>] = BytesOf(To(B, r, k))
        BY DEF Consistent, EgressMatches
      <3>3. To(B2, r, k) = To(B, r, k)
        BY <2>2
      <3> QED BY <3>1, <3>2, <3>3
    <2> QED BY <2>1, <2>2
  <1>7. SharedMatches(a)
    <2>1. Used(i) \in Nat /\ Excess(m) \in [PQ -> Nat]
      BY <1>2, UsedType DEF Excess
    <2>2. Excess(a) = [Excess(m) EXCEPT ![x] = Used(i)]
      BY <1>1, <1>2, <1>3 DEF Excess
    <2>3. Excess(m)[x] = Used(m.ingress_bytes[x])
      BY <1>1 DEF Excess
    <2>4. \A r \in Port, k \in Queue : GetSharedUsed(m, r, k) <= Pool
      BY DEF Consistent, SharedMatches
    <2>5. \A r \in Port, k \in Queue : GetSharedUsed(m, r, k) = Used(m.ingress_bytes[<<r, k>>])
      BY DEF GetSharedUsed, Used
    <2>6. \A r \in Port, k \in Queue : GetSharedUsed(a, r, k) = Used(a.ingress_bytes[<<r, k>>])
      BY DEF GetSharedUsed, Used
    <2>7. Excess(m)[x] <= Pool
      BY <2>3, <2>4, <2>5
    <2>8. Cardinality(Under(Excess(a))) = Cardinality(Under(Excess(m))) + Used(i) - Excess(m)[x]
      <3> DEFINE u == Excess(m)
                 n == Used(i)
      <3>1. u \in [PQ -> Nat] /\ n \in Nat /\ u[x] <= Pool /\ n <= Pool
        BY <2>1, <2>7
      <3> HIDE DEF u, n, x
      <3>2. Cardinality(Under([u EXCEPT ![x] = n])) = Cardinality(Under(u)) + n - u[x]
        BY <1>1, <3>1, SetOne
      <3> QED BY <3>2, <2>2 DEF u, n
    <2>9. m.shared_used_bytes = Cardinality(Under(Excess(m)))
      BY SharedCellsUnder DEF Consistent, SharedMatches
    <2>10. a.shared_used_bytes = Cardinality(SharedCells(a))
      <3>1. SharedCells(a) = Under(Excess(a))
        BY <1>4, SharedCellsUnder
      <3> QED BY <3>1, <1>3, <2>3, <2>8, <2>9
    <2>11. ASSUME NEW r \in Port, NEW k \in Queue
           PROVE  GetSharedUsed(a, r, k) <= Pool
      <3>1. CASE <<r, k>> = x
        <4>1. a.ingress_bytes[<<r, k>>] = i
          BY <1>1, <1>2, <1>3, <3>1
        <4> QED BY <4>1, <2>6
      <3>2. CASE <<r, k>> # x
        <4>1. a.ingress_bytes[<<r, k>>] = m.ingress_bytes[<<r, k>>]
          BY <1>1, <1>2, <1>3, <3>2 DEF PQ
        <4> QED BY <4>1, <2>4, <2>5, <2>6
      <3> QED BY <3>1, <3>2
    <2> QED BY <2>10, <2>11 DEF SharedMatches
  <1>8. HeadroomBounded(a) /\ HeadroomPaused(a)
    <2> SUFFICES ASSUME NEW r \in Port, NEW k \in Queue
                 PROVE  /\ a.hdrm_bytes[<<r, k>>] <= headroom[r]
                        /\ a.hdrm_bytes[<<r, k>>] > 0 => a.paused[<<r, k>>]
      BY DEF HeadroomBounded, HeadroomPaused
    <2>1. CASE <<r, k>> = x
      <3>1. a.hdrm_bytes[<<r, k>>] = h /\ a.paused[<<r, k>>] = ps[<<p, q>>] /\ r = p
        BY <1>1, <1>2, <1>3, <2>1
      <3> QED BY <3>1
    <2>2. CASE <<r, k>> # x
      <3>1. a.hdrm_bytes[<<r, k>>] = m.hdrm_bytes[<<r, k>>]
        BY <1>1, <1>2, <1>3, <2>2 DEF PQ
      <3>2. a.paused[<<r, k>>] = m.paused[<<r, k>>]
        BY <1>3, <2>2 DEF PQ
      <3>3. /\ m.hdrm_bytes[<<r, k>>] <= headroom[r]
            /\ m.hdrm_bytes[<<r, k>>] > 0 => m.paused[<<r, k>>]
        BY DEF Consistent, HeadroomBounded, HeadroomPaused
      <3> QED BY <3>1, <3>2, <3>3
    <2> QED BY <2>1, <2>2
  <1>9. PausedHolds(a, B2)
    <2> SUFFICES ASSUME NEW r \in Port, NEW k \in Queue, a.paused[<<r, k>>]
                 PROVE  From(B2, r, k) # {}
      BY DEF PausedHolds
    <2>1. CASE <<r, k>> = x
      BY <1>3, <2>1
    <2>2. CASE <<r, k>> # x
      <3>1. m.paused[<<r, k>>]
        BY <1>3, <2>2 DEF PQ
      <3>2. From(B, r, k) # {}
        BY <3>1 DEF Consistent, PausedHolds
      <3> QED BY <3>2, <2>2
    <2> QED BY <2>1, <2>2
  <1>10. a.shared_used_bytes <= Pool
    BY <1>3
  <1>11. Consistent(a, B2)
    BY <1>4, <1>5, <1>6, <1>7, <1>8, <1>9, <1>10 DEF Consistent
  <1> QED BY <1>11 DEF a
-----------------------------------------------------------------------------
\* The ingress counters of x and the shared total replaced, nothing else.
Moved(m, x, i, h, s) ==
  [ shared_used_bytes |-> s,
    hdrm_bytes        |-> [m.hdrm_bytes EXCEPT ![x] = h],
    ingress_bytes     |-> [m.ingress_bytes EXCEPT ![x] = i],
    egress_bytes      |-> m.egress_bytes,
    paused            |-> m.paused ]

\* The types of the counters that a packet touches.
LEMMA CounterTypes ==
  ASSUME NEW m \in MmuState, NEW p \in Port, NEW q \in Queue
  PROVE  /\ <<p, q>> \in PQ
         /\ m.shared_used_bytes \in Nat
         /\ m.hdrm_bytes \in [PQ -> Nat] /\ m.hdrm_bytes[<<p, q>>] \in Nat
         /\ m.ingress_bytes \in [PQ -> Nat] /\ m.ingress_bytes[<<p, q>>] \in Nat
         /\ m.egress_bytes \in [PQ -> Nat] /\ m.egress_bytes[<<p, q>>] \in Nat
         /\ m.paused \in [PQ -> BOOLEAN]
         /\ m = [ shared_used_bytes |-> m.shared_used_bytes,
                  hdrm_bytes        |-> m.hdrm_bytes,
                  ingress_bytes     |-> m.ingress_bytes,
                  egress_bytes      |-> m.egress_bytes,
                  paused            |-> m.paused ]
  <1>1. <<p, q>> \in PQ
    BY DEF PQ
  <1> QED BY <1>1 DEF MmuState

\* Two fields of the counters replaced at once.
LEMMA SetTwo ==
  ASSUME NEW m \in MmuState, NEW f \in [PQ -> Nat], NEW n \in Nat
  PROVE  [[m EXCEPT !.ingress_bytes = f] EXCEPT !.shared_used_bytes = n] =
           [ shared_used_bytes |-> n, hdrm_bytes |-> m.hdrm_bytes, ingress_bytes |-> f,
             egress_bytes |-> m.egress_bytes, paused |-> m.paused ]
  <1> DEFINE b == [m EXCEPT !.ingress_bytes = f]
  <1>1. /\ b \in MmuState
        /\ b = [ shared_used_bytes |-> m.shared_used_bytes, hdrm_bytes |-> m.hdrm_bytes,
                 ingress_bytes |-> f, egress_bytes |-> m.egress_bytes,
                 paused |-> m.paused ]
    BY DEF MmuState
  <1> HIDE DEF b
  <1>2. [b EXCEPT !.shared_used_bytes = n] =
          [ shared_used_bytes |-> n, hdrm_bytes |-> b.hdrm_bytes,
            ingress_bytes |-> b.ingress_bytes, egress_bytes |-> b.egress_bytes,
            paused |-> b.paused ]
    BY <1>1 DEF MmuState
  <1>3. /\ b.hdrm_bytes = m.hdrm_bytes /\ b.ingress_bytes = f
        /\ b.egress_bytes = m.egress_bytes /\ b.paused = m.paused
    BY <1>1
  <1>4. [b EXCEPT !.shared_used_bytes = n] =
           [ shared_used_bytes |-> n, hdrm_bytes |-> m.hdrm_bytes, ingress_bytes |-> f,
             egress_bytes |-> m.egress_bytes, paused |-> m.paused ]
    BY <1>2, <1>3
  <1> QED BY <1>4, Zenon DEF b

\* Three fields of the counters replaced at once.
LEMMA SetThree ==
  ASSUME NEW m \in MmuState, NEW f \in [PQ -> Nat], NEW g \in [PQ -> Nat], NEW n \in Nat
  PROVE  [[[m EXCEPT !.hdrm_bytes = g] EXCEPT !.ingress_bytes = f]
             EXCEPT !.shared_used_bytes = n] =
           [ shared_used_bytes |-> n, hdrm_bytes |-> g, ingress_bytes |-> f,
             egress_bytes |-> m.egress_bytes, paused |-> m.paused ]
  <1> DEFINE b == [m EXCEPT !.hdrm_bytes = g]
  <1>1. /\ b \in MmuState
        /\ b.hdrm_bytes = g /\ b.egress_bytes = m.egress_bytes /\ b.paused = m.paused
    BY DEF MmuState
  <1> HIDE DEF b
  <1>2. [[b EXCEPT !.ingress_bytes = f] EXCEPT !.shared_used_bytes = n] =
           [ shared_used_bytes |-> n, hdrm_bytes |-> b.hdrm_bytes, ingress_bytes |-> f,
             egress_bytes |-> b.egress_bytes, paused |-> b.paused ]
    BY <1>1, SetTwo, Zenon
  <1> QED BY <1>1, <1>2, Zenon DEF b

\* The three branches of UpdateIngressAdmission.
LEMMA UpdateIngressBranches ==
  ASSUME NEW m \in MmuState, NEW p \in Port, NEW q \in Queue, NEW n \in Nat
  PROVE  LET x  == <<p, q>>
             i0 == m.ingress_bytes[x]
             h0 == m.hdrm_bytes[x]
             s0 == m.shared_used_bytes
             a  == UpdateIngressAdmission(m, p, q, n)
         IN  /\ i0 + n <= reserve => a = Moved(m, x, i0 + n, h0, s0)
             /\ ~ (i0 + n <= reserve) /\ (i0 + n) - reserve > GetPfcThreshold(m, p)
                  => a = Moved(m, x, i0, h0 + n, s0)
             /\ ~ (i0 + n <= reserve) /\ ~ ((i0 + n) - reserve > GetPfcThreshold(m, p))
                  => a = Moved(m, x, i0 + n, h0, s0 + MinOf(n, (i0 + n) - reserve))
  <1> DEFINE x  == <<p, q>>
             i0 == m.ingress_bytes[x]
             h0 == m.hdrm_bytes[x]
             s0 == m.shared_used_bytes
             T  == GetPfcThreshold(m, p)
             a  == UpdateIngressAdmission(m, p, q, n)
  <1>t. reserve \in Nat /\ i0 \in Nat
    BY CounterTypes, BytesAssumption
  <1>1. /\ i0 + n <= reserve => a = [m EXCEPT !.ingress_bytes[x] = i0 + n]
        /\ ~ (i0 + n <= reserve) /\ (i0 + n) - reserve > T
             => a = [m EXCEPT !.hdrm_bytes[x] = @ + n]
    BY <1>t DEF UpdateIngressAdmission
  <1>1b. ~ (i0 + n <= reserve) /\ ~ ((i0 + n) - reserve > T)
             => a = [m EXCEPT !.ingress_bytes[x] = i0 + n,
                              !.shared_used_bytes = @ + MinOf(n, (i0 + n) - reserve)]
    BY Zenon DEF UpdateIngressAdmission
  <1>a. /\ [m.ingress_bytes EXCEPT ![x] = i0] = m.ingress_bytes
        /\ [m.hdrm_bytes EXCEPT ![x] = h0] = m.hdrm_bytes
    BY CounterTypes
  <1>2. [m EXCEPT !.ingress_bytes[x] = i0 + n] = Moved(m, x, i0 + n, h0, s0)
    BY <1>a, CounterTypes DEF Moved
  <1>3. [m EXCEPT !.hdrm_bytes[x] = @ + n] = Moved(m, x, i0, h0 + n, s0)
    <2> DEFINE g == [m.hdrm_bytes EXCEPT ![x] = h0 + n]
    <2>1. [m EXCEPT !.hdrm_bytes[x] = @ + n] = [m EXCEPT !.hdrm_bytes = g]
      OBVIOUS
    <2>2. Moved(m, x, i0, h0 + n, s0) =
            [ shared_used_bytes |-> m.shared_used_bytes, hdrm_bytes |-> g,
              ingress_bytes |-> m.ingress_bytes, egress_bytes |-> m.egress_bytes,
              paused |-> m.paused ]
      BY <1>a DEF Moved
    <2> HIDE DEF g
    <2> QED BY <2>1, <2>2, CounterTypes
  <1>4. ASSUME ~ (i0 + n <= reserve)
        PROVE  [m EXCEPT !.ingress_bytes[x] = i0 + n,
                         !.shared_used_bytes = @ + MinOf(n, (i0 + n) - reserve)] =
                   Moved(m, x, i0 + n, h0, s0 + MinOf(n, (i0 + n) - reserve))
    <2> DEFINE f == [m.ingress_bytes EXCEPT ![x] = i0 + n]
               k == s0 + MinOf(n, (i0 + n) - reserve)
    <2>1. f \in [PQ -> Nat]
      BY <1>t, CounterTypes
    <2>2. s0 \in Nat /\ MinOf(n, (i0 + n) - reserve) \in Nat
      BY <1>t, <1>4, CounterTypes DEF MinOf
    <2>3. k \in Nat
      BY <2>2
    <2> HIDE DEF f, k
    <2>4. [[m EXCEPT !.ingress_bytes = f] EXCEPT !.shared_used_bytes = k] =
            [ shared_used_bytes |-> k, hdrm_bytes |-> m.hdrm_bytes, ingress_bytes |-> f,
              egress_bytes |-> m.egress_bytes, paused |-> m.paused ]
      BY <2>1, <2>3, SetTwo, Zenon
    <2> QED BY <2>4, <1>a, Zenon DEF f, k, Moved
  <1> HIDE DEF a, T, i0, h0, s0, x
  <1>5. /\ i0 + n <= reserve => a = Moved(m, x, i0 + n, h0, s0)
        /\ ~ (i0 + n <= reserve) /\ (i0 + n) - reserve > T => a = Moved(m, x, i0, h0 + n, s0)
        /\ ~ (i0 + n <= reserve) /\ ~ ((i0 + n) - reserve > T)
             => a = Moved(m, x, i0 + n, h0, s0 + MinOf(n, (i0 + n) - reserve))
    BY <1>1, <1>1b, <1>2, <1>3, <1>4
  <1> QED BY <1>5 DEF a, T, i0, h0, s0, x

\* The egress counter and CheckAndSendPfc complete what Enter does; a packet in
\* headroom always leaves the ingress paused.
LEMMA EnterShape ==
  ASSUME NEW m \in MmuState, NEW pkt \in Packet,
         NEW i \in Nat, NEW h \in Nat, NEW s \in Nat,
         UpdateIngressAdmission(m, pkt.in, pkt.q, pkt.size) =
           Moved(m, <<pkt.in, pkt.q>>, i, h, s)
  PROVE  \E ps \in [PQ -> BOOLEAN] :
           /\ Enter(m, pkt) =
                Updated(m, <<pkt.in, pkt.q>>, <<pkt.out, pkt.q>>, i, h,
                        m.egress_bytes[<<pkt.out, pkt.q>>] + pkt.size, s, ps)
           /\ \A z \in PQ : z # <<pkt.in, pkt.q>> => ps[z] = m.paused[z]
           /\ h > 0 => ps[<<pkt.in, pkt.q>>]
  <1> DEFINE p == pkt.in
             o == pkt.out
             q == pkt.q
             n == pkt.size
             x == <<p, q>>
             y == <<o, q>>
             e == m.egress_bytes[y] + n
             b == Moved(m, x, i, h, s)
             a == UpdateEgressAdmission(b, o, q, n)
             up == [m.paused EXCEPT ![x] = TRUE]
  <1>1. p \in Port /\ o \in Port /\ q \in Queue /\ n \in Nat
    BY SizeAssumption DEF Packet
  <1>2. x \in PQ /\ y \in PQ
    BY <1>1 DEF PQ
  <1>3. /\ m.hdrm_bytes \in [PQ -> Nat] /\ m.ingress_bytes \in [PQ -> Nat]
        /\ m.egress_bytes \in [PQ -> Nat] /\ m.paused \in [PQ -> BOOLEAN]
    BY DEF MmuState
  <1>4. b \in MmuState /\ b.egress_bytes = m.egress_bytes
    BY <1>2, <1>3 DEF Moved, MmuState
  <1>5. a = Updated(m, x, y, i, h, e, s, m.paused)
    <2>1. a = [b EXCEPT !.egress_bytes[y] = e]
      BY <1>4 DEF UpdateEgressAdmission
    <2> QED BY <2>1, <1>4 DEF Moved, Updated
  <1>6. a.hdrm_bytes[x] = h /\ a.paused[x] = m.paused[x]
    BY <1>2, <1>3, <1>5 DEF Updated
  <1>7. SetPause(a, p, q) = Updated(m, x, y, i, h, e, s, up)
    <2> HIDE DEF a
    <2>1. a.paused = m.paused
      BY <1>5 DEF Updated
    <2>2. SetPause(a, p, q) = [a EXCEPT !.paused[x] = TRUE]
      BY DEF SetPause
    <2> QED BY <1>5, <2>1, <2>2 DEF Updated
  <1>8. Enter(m, pkt) = IF CheckShouldPause(a, p, q) THEN SetPause(a, p, q) ELSE a
    BY DEF Enter
  <1>9. up \in [PQ -> BOOLEAN] /\ up[x] /\ \A z \in PQ : z # x => up[z] = m.paused[z]
    BY <1>2, <1>3
  <1>10. CASE CheckShouldPause(a, p, q)
    <2>1. Enter(m, pkt) = Updated(m, x, y, i, h, e, s, up)
      BY <1>7, <1>8, <1>10
    <2> HIDE DEF up, e, x, y
    <2> QED BY <2>1, <1>9 DEF e, x, y
  <1>11. CASE ~ CheckShouldPause(a, p, q)
    <2>1. Enter(m, pkt) = Updated(m, x, y, i, h, e, s, m.paused)
      BY <1>5, <1>8, <1>11
    <2>2. h > 0 => m.paused[x]
      BY <1>6, <1>11 DEF CheckShouldPause
    <2> HIDE DEF up, e, x, y
    <2> QED BY <2>1, <2>2, <1>3 DEF e, x, y
  <1> QED BY <1>10, <1>11

\* The packets an ingress or an egress holds when a packet joins or leaves.
LEMMA FromAndTo ==
  ASSUME NEW B, B \subseteq Packet, IsFiniteSet(CellsOf(B)), NEW b \in Packet, b \notin B
  PROVE  /\ B \cup {b} \subseteq Packet
         /\ IsFiniteSet(CellsOf(B \cup {b}))
         /\ BytesOf(From(B \cup {b}, b.in, b.q)) = BytesOf(From(B, b.in, b.q)) + b.size
         /\ BytesOf(To(B \cup {b}, b.out, b.q)) = BytesOf(To(B, b.out, b.q)) + b.size
         /\ BytesOf(From(B, b.in, b.q)) \in Nat
         /\ BytesOf(To(B, b.out, b.q)) \in Nat
         /\ b \in From(B \cup {b}, b.in, b.q)
         /\ \A r, k : <<r, k>> # <<b.in, b.q>> => From(B \cup {b}, r, k) = From(B, r, k)
         /\ \A r, k : <<r, k>> # <<b.out, b.q>> => To(B \cup {b}, r, k) = To(B, r, k)
  <1>1. From(B \cup {b}, b.in, b.q) = From(B, b.in, b.q) \cup {b}
    BY DEF From
  <1>2. To(B \cup {b}, b.out, b.q) = To(B, b.out, b.q) \cup {b}
    BY DEF To
  <1>3. /\ From(B, b.in, b.q) \subseteq Packet /\ b \notin From(B, b.in, b.q)
        /\ IsFiniteSet(CellsOf(From(B, b.in, b.q)))
    BY FewerPackets DEF From
  <1>4. /\ To(B, b.out, b.q) \subseteq Packet /\ b \notin To(B, b.out, b.q)
        /\ IsFiniteSet(CellsOf(To(B, b.out, b.q)))
    BY FewerPackets DEF To
  <1>5. /\ BytesOf(From(B, b.in, b.q) \cup {b}) = BytesOf(From(B, b.in, b.q)) + b.size
        /\ BytesOf(From(B, b.in, b.q)) \in Nat
    BY <1>3, AddPacket
  <1>6. /\ BytesOf(To(B, b.out, b.q) \cup {b}) = BytesOf(To(B, b.out, b.q)) + b.size
        /\ BytesOf(To(B, b.out, b.q)) \in Nat
    BY <1>4, AddPacket
  <1>7. IsFiniteSet(CellsOf(B \cup {b}))
    BY AddPacket
  <1>8. \A r, k : <<r, k>> # <<b.in, b.q>> => From(B \cup {b}, r, k) = From(B, r, k)
    BY DEF From
  <1>9. \A r, k : <<r, k>> # <<b.out, b.q>> => To(B \cup {b}, r, k) = To(B, r, k)
    BY DEF To
  <1> QED BY <1>1, <1>2, <1>5, <1>6, <1>7, <1>8, <1>9

\* Storing an admitted packet keeps the invariant.
LEMMA EnterInv ==
  ASSUME NEW m, NEW B, Consistent(m, B), NEW pkt \in Packet, pkt \notin B, Admits(m, pkt)
  PROVE  Consistent(Enter(m, pkt), B \cup {pkt})
  <1> DEFINE p == pkt.in
             o == pkt.out
             q == pkt.q
             n == pkt.size
             x == <<p, q>>
             y == <<o, q>>
             B2 == B \cup {pkt}
             i0 == m.ingress_bytes[x]
             h0 == m.hdrm_bytes[x]
             s0 == m.shared_used_bytes
             T  == GetPfcThreshold(m, p)
             e  == m.egress_bytes[y] + n
  <1>1. p \in Port /\ o \in Port /\ q \in Queue /\ n \in Nat
    BY SizeAssumption DEF Packet
  <1>2. m \in MmuState /\ B \subseteq Packet /\ IsFiniteSet(CellsOf(B)) /\ s0 <= Pool
    BY DEF Consistent
  <1>3. x \in PQ /\ i0 \in Nat /\ h0 \in Nat /\ s0 \in Nat /\ m.egress_bytes[y] \in Nat
    BY <1>1, <1>2, CounterTypes
  <1>4. T \in Nat /\ T <= Pool - s0
    BY <1>1, <1>2, ThresholdBound
  <1>5. Pool \in Nat /\ reserve \in Nat /\ headroom[p] \in Nat
    BY <1>1, PoolAssumption, BytesAssumption
  <1>6. ~ (n + h0 > headroom[p] /\ n + Used(i0) > T)
    BY DEF Admits, CheckIngressAdmission, GetSharedUsed, Used
  <1>7. /\ i0 + h0 = BytesOf(From(B, p, q))
        /\ m.egress_bytes[y] = BytesOf(To(B, o, q))
    BY <1>1 DEF Consistent, IngressMatches, EgressMatches
  <1>8. h0 <= headroom[p] /\ Used(i0) <= Pool
    <2>1. h0 <= headroom[p]
      BY <1>1 DEF Consistent, HeadroomBounded
    <2>2. GetSharedUsed(m, p, q) <= Pool
      BY <1>1 DEF Consistent, SharedMatches
    <2> QED BY <2>1, <2>2 DEF GetSharedUsed, Used
  <1>9. \E i \in Nat, h \in Nat, s \in Nat :
          /\ UpdateIngressAdmission(m, p, q, n) = Moved(m, x, i, h, s)
          /\ i + h = i0 + h0 + n
          /\ s = s0 + Used(i) - Used(i0)
          /\ s <= Pool
          /\ Used(i) <= Pool
          /\ h <= headroom[p]
    <2> DEFINE a == UpdateIngressAdmission(m, p, q, n)
    <2>1. /\ i0 + n <= reserve => a = Moved(m, x, i0 + n, h0, s0)
          /\ ~ (i0 + n <= reserve) /\ (i0 + n) - reserve > T
               => a = Moved(m, x, i0, h0 + n, s0)
          /\ ~ (i0 + n <= reserve) /\ ~ ((i0 + n) - reserve > T)
               => a = Moved(m, x, i0 + n, h0, s0 + MinOf(n, (i0 + n) - reserve))
      BY <1>1, <1>2, UpdateIngressBranches
    <2> HIDE DEF a, i0, h0, s0, x, T, p, q, n
    <2>2. CASE i0 + n <= reserve
      <3>1. Used(i0 + n) = 0 /\ Used(i0) = 0
        BY <1>1, <1>3, <1>5, <2>2 DEF Used
      <3>2. a = Moved(m, x, i0 + n, h0, s0)
        BY <2>1, <2>2
      <3>3. /\ i0 + n \in Nat /\ (i0 + n) + h0 = i0 + h0 + n
            /\ s0 = s0 + 0 - 0
        BY <1>1, <1>3
      <3> QED BY <3>1, <3>2, <3>3, <1>2, <1>3, <1>5, <1>8 DEF a
    <2>3. CASE ~ (i0 + n <= reserve) /\ (i0 + n) - reserve > T
      <3>1. a = Moved(m, x, i0, h0 + n, s0)
        BY <2>1, <2>3
      <3>2. h0 + n <= headroom[p]
        BY <1>1, <1>3, <1>4, <1>5, <1>6, <2>3 DEF Used
      <3>3. Used(i0) \in Nat
        BY <1>3, UsedType
      <3>4. h0 + n \in Nat /\ i0 + (h0 + n) = i0 + h0 + n /\ s0 = s0 + Used(i0) - Used(i0)
        BY <1>1, <1>3, <3>3
      <3> QED BY <3>1, <3>2, <3>4, <1>2, <1>3, <1>8 DEF a
    <2>4. CASE ~ (i0 + n <= reserve) /\ ~ ((i0 + n) - reserve > T)
      <3> DEFINE s == s0 + MinOf(n, (i0 + n) - reserve)
      <3>1. a = Moved(m, x, i0 + n, h0, s)
        BY <2>1, <2>4
      <3>2. Used(i0 + n) = (i0 + n) - reserve /\ Used(i0) \in Nat
        BY <1>1, <1>3, <1>5, <2>4, UsedType DEF Used
      <3>3. MinOf(n, (i0 + n) - reserve) = Used(i0 + n) - Used(i0)
        BY <1>1, <1>3, <1>5, <2>4 DEF Used, MinOf
      <3>4. Used(i0) <= Used(i0 + n) /\ Used(i0 + n) <= T
        BY <1>1, <1>3, <1>4, <1>5, <2>4 DEF Used
      <3>5. s = s0 + Used(i0 + n) - Used(i0)
        BY <3>2, <3>3, <1>1, <1>3, <1>5
      <3>6. s \in Nat /\ s <= Pool /\ Used(i0 + n) <= Pool
        BY <3>2, <3>4, <3>5, <1>1, <1>3, <1>4, <1>5
      <3>7. i0 + n \in Nat /\ (i0 + n) + h0 = i0 + h0 + n
        BY <1>1, <1>3
      <3> HIDE DEF s
      <3> QED BY <3>1, <3>5, <3>6, <3>7, <1>3, <1>8 DEF a
    <2> QED BY <2>2, <2>3, <2>4
  <1>10. PICK i \in Nat, h \in Nat, s \in Nat :
          /\ UpdateIngressAdmission(m, p, q, n) = Moved(m, x, i, h, s)
          /\ i + h = i0 + h0 + n
          /\ s = s0 + Used(i) - Used(i0)
          /\ s <= Pool
          /\ Used(i) <= Pool
          /\ h <= headroom[p]
    BY <1>9
  <1>11. PICK ps \in [PQ -> BOOLEAN] :
           /\ Enter(m, pkt) = Updated(m, x, y, i, h, e, s, ps)
           /\ \A z \in PQ : z # x => ps[z] = m.paused[z]
           /\ h > 0 => ps[x]
    BY <1>2, <1>10, EnterShape
  <1>12. /\ B2 \subseteq Packet
         /\ IsFiniteSet(CellsOf(B2))
         /\ BytesOf(From(B2, p, q)) = BytesOf(From(B, p, q)) + n
         /\ BytesOf(To(B2, o, q)) = BytesOf(To(B, o, q)) + n
         /\ pkt \in From(B2, p, q)
         /\ \A r, k : <<r, k>> # <<p, q>> => From(B2, r, k) = From(B, r, k)
         /\ \A r, k : <<r, k>> # <<o, q>> => To(B2, r, k) = To(B, r, k)
    BY <1>2, FromAndTo
  <1>13. e \in Nat /\ e = BytesOf(To(B2, o, q))
    BY <1>1, <1>3, <1>7, <1>12
  <1>14. i + h = BytesOf(From(B2, p, q))
    BY <1>7, <1>10, <1>12
  <1> HIDE DEF B2, p, q, o, n, e, s0, i0, h0
  <1>15. Consistent(Updated(m, x, y, i, h, e, s, ps), B2)
    <2>1. s = m.shared_used_bytes + Used(i) - Used(m.ingress_bytes[<<p, q>>])
      BY <1>10 DEF s0, i0
    <2>2. ps[<<p, q>>] => From(B2, p, q) # {}
      BY <1>12
    <2>3. /\ B2 \subseteq Packet
          /\ IsFiniteSet(CellsOf(B2))
          /\ \A r \in Port, k \in Queue : <<r, k>> # <<p, q>> => From(B2, r, k) = From(B, r, k)
          /\ \A r \in Port, k \in Queue : <<r, k>> # <<o, q>> => To(B2, r, k) = To(B, r, k)
      BY <1>12
    <2>4. /\ s <= Pool /\ Used(i) <= Pool /\ h <= headroom[p]
      BY <1>10
    <2>5. /\ \A z \in PQ : z # <<p, q>> => ps[z] = m.paused[z]
          /\ h > 0 => ps[<<p, q>>]
      BY <1>11
    <2> HIDE DEF x, y
    <2>6. p \in Port /\ o \in Port /\ q \in Queue /\ e \in Nat /\ e = BytesOf(To(B2, o, q))
      BY <1>1, <1>13
    <2>7. Consistent(Updated(m, <<p, q>>, <<o, q>>, i, h, e, s, ps), B2)
      <3>1. Balanced(m, B, B2, p, o, q, i, h, e, s, ps)
        BY <1>14, <2>1, <2>2, <2>3, <2>4, <2>5, <2>6 DEF Balanced
      <3> QED BY <2>6, <3>1, Account
    <2> QED BY <2>7 DEF x, y
  <1> QED BY <1>11, <1>15 DEF B2
-----------------------------------------------------------------------------
\* RemoveFromIngressAdmission takes from the headroom first.
LEMMA RemoveIngress ==
  ASSUME NEW m \in MmuState, NEW p \in Port, NEW q \in Queue, NEW n \in Nat,
         NEW fh \in Nat, NEW fs \in Nat,
         fh = MinOf(m.hdrm_bytes[<<p, q>>], n),
         fs = MinOf(n - fh, GetSharedUsed(m, p, q)),
         fh <= m.hdrm_bytes[<<p, q>>], n - fh <= m.ingress_bytes[<<p, q>>], fh <= n,
         fs <= m.shared_used_bytes
  PROVE  RemoveFromIngressAdmission(m, p, q, n) =
           Moved(m, <<p, q>>, m.ingress_bytes[<<p, q>>] - (n - fh),
                 m.hdrm_bytes[<<p, q>>] - fh, m.shared_used_bytes - fs)
  <1> DEFINE x == <<p, q>>
             f == [m.ingress_bytes EXCEPT ![x] = @ - (n - fh)]
             g == [m.hdrm_bytes EXCEPT ![x] = @ - fh]
             k == m.shared_used_bytes - fs
  <1>1. x \in PQ /\ m.ingress_bytes[x] \in Nat /\ m.hdrm_bytes[x] \in Nat
        /\ m.ingress_bytes \in [PQ -> Nat] /\ m.hdrm_bytes \in [PQ -> Nat]
        /\ m.shared_used_bytes \in Nat
    BY CounterTypes
  <1>2. m.ingress_bytes[x] - (n - fh) \in Nat /\ m.hdrm_bytes[x] - fh \in Nat /\ k \in Nat
    BY <1>1
  <1>3. f \in [PQ -> Nat] /\ g \in [PQ -> Nat] /\ k \in Nat
    BY <1>1, <1>2
  <1>4. RemoveFromIngressAdmission(m, p, q, n) =
          [[[m EXCEPT !.hdrm_bytes = g] EXCEPT !.ingress_bytes = f] EXCEPT !.shared_used_bytes = k]
    <2> DEFINE fh0 == MinOf(m.hdrm_bytes[x], n)
               fs0 == MinOf(n - fh0, GetSharedUsed(m, p, q))
               g0  == [m.hdrm_bytes EXCEPT ![x] = @ - fh0]
               f0  == [m.ingress_bytes EXCEPT ![x] = @ - (n - fh0)]
               k0  == m.shared_used_bytes - fs0
    <2>1. RemoveFromIngressAdmission(m, p, q, n) =
            [[[m EXCEPT !.hdrm_bytes = g0] EXCEPT !.ingress_bytes = f0] EXCEPT !.shared_used_bytes = k0]
      BY Zenon DEF RemoveFromIngressAdmission
    <2>2. fh0 = fh
      OBVIOUS
    <2>3. fs0 = fs
      BY <2>2
    <2> HIDE DEF fh0, fs0
    <2>4. g0 = g /\ f0 = f /\ k0 = k
      BY <2>2, <2>3
    <2> HIDE DEF g0, f0, k0, f, g, k
    <2> QED BY <2>1, <2>4, Zenon
  <1>5. Moved(m, x, m.ingress_bytes[x] - (n - fh), m.hdrm_bytes[x] - fh, k) =
          [ shared_used_bytes |-> k, hdrm_bytes |-> g, ingress_bytes |-> f,
            egress_bytes |-> m.egress_bytes, paused |-> m.paused ]
    BY Zenon DEF Moved
  <1> HIDE DEF f, g, k
  <1>6. [[[m EXCEPT !.hdrm_bytes = g] EXCEPT !.ingress_bytes = f] EXCEPT !.shared_used_bytes = k] =
          [ shared_used_bytes |-> k, hdrm_bytes |-> g, ingress_bytes |-> f,
            egress_bytes |-> m.egress_bytes, paused |-> m.paused ]
    BY <1>3, SetThree, Zenon
  <1> QED BY <1>4, <1>5, <1>6, Zenon DEF k

\* The egress counter and CheckAndSendResume complete what Leave does: an
\* ingress that still uses headroom is not resumed, one that is left with
\* nothing is.
LEMMA LeaveShape ==
  ASSUME NEW m \in MmuState, NEW pkt \in Packet,
         NEW i \in Nat, NEW h \in Nat, NEW s \in Nat,
         RemoveFromIngressAdmission(m, pkt.in, pkt.q, pkt.size) =
           Moved(m, <<pkt.in, pkt.q>>, i, h, s)
  PROVE  \E ps \in [PQ -> BOOLEAN] :
           /\ Leave(m, pkt) =
                Updated(m, <<pkt.in, pkt.q>>, <<pkt.out, pkt.q>>, i, h,
                        m.egress_bytes[<<pkt.out, pkt.q>>] - pkt.size, s, ps)
           /\ \A z \in PQ : z # <<pkt.in, pkt.q>> => ps[z] = m.paused[z]
           /\ h > 0 /\ m.paused[<<pkt.in, pkt.q>>] => ps[<<pkt.in, pkt.q>>]
           /\ ps[<<pkt.in, pkt.q>>] => ~ (h = 0 /\ Used(i) = 0)
  <1> DEFINE p == pkt.in
             o == pkt.out
             q == pkt.q
             n == pkt.size
             x == <<p, q>>
             y == <<o, q>>
             e == m.egress_bytes[y] - n
             b == Moved(m, x, i, h, s)
             a == RemoveFromEgressAdmission(b, o, q, n)
             down == [m.paused EXCEPT ![x] = FALSE]
  <1>1. p \in Port /\ o \in Port /\ q \in Queue /\ n \in Nat
    BY SizeAssumption DEF Packet
  <1>2. x \in PQ /\ y \in PQ
    BY <1>1 DEF PQ
  <1>3. /\ m.hdrm_bytes \in [PQ -> Nat] /\ m.ingress_bytes \in [PQ -> Nat]
        /\ m.egress_bytes \in [PQ -> Nat] /\ m.paused \in [PQ -> BOOLEAN]
    BY DEF MmuState
  <1>4. b \in MmuState /\ b.egress_bytes = m.egress_bytes
    BY <1>2, <1>3 DEF Moved, MmuState
  <1>5. a = Updated(m, x, y, i, h, e, s, m.paused)
    <2>1. a = [b EXCEPT !.egress_bytes[y] = e]
      BY <1>4 DEF RemoveFromEgressAdmission
    <2> QED BY <2>1, <1>4 DEF Moved, Updated
  <1>6. a.hdrm_bytes[x] = h /\ a.paused[x] = m.paused[x] /\ a.ingress_bytes[x] = i
    BY <1>2, <1>3, <1>5 DEF Updated
  <1>7. SetResume(a, p, q) = Updated(m, x, y, i, h, e, s, down)
    <2> HIDE DEF a
    <2>1. a.paused = m.paused
      BY <1>5 DEF Updated
    <2>2. SetResume(a, p, q) = [a EXCEPT !.paused[x] = FALSE]
      BY DEF SetResume
    <2> QED BY <1>5, <2>1, <2>2 DEF Updated
  <1>8. Leave(m, pkt) = IF CheckShouldResume(a, p, q) THEN SetResume(a, p, q) ELSE a
    BY DEF Leave
  <1>9. down \in [PQ -> BOOLEAN] /\ ~ down[x] /\ \A z \in PQ : z # x => down[z] = m.paused[z]
    BY <1>2, <1>3
  <1>a. GetSharedUsed(a, p, q) = Used(i)
    <2> HIDE DEF a
    <2> QED BY <1>6 DEF GetSharedUsed, Used
  <1>10. CASE CheckShouldResume(a, p, q)
    <2>1. Leave(m, pkt) = Updated(m, x, y, i, h, e, s, down)
      BY <1>7, <1>8, <1>10
    <2>2. h = 0
      BY <1>6, <1>10 DEF CheckShouldResume
    <2>3. ~ (h > 0)
      BY <2>2
    <2> HIDE DEF down, e, x, y
    <2> QED BY <2>1, <2>3, <1>9 DEF e, x, y
  <1>11. CASE ~ CheckShouldResume(a, p, q)
    <2>1. Leave(m, pkt) = Updated(m, x, y, i, h, e, s, m.paused)
      BY <1>5, <1>8, <1>11
    <2>2. m.paused[x] => ~ (h = 0 /\ Used(i) = 0)
      <3> HIDE DEF a
      <3> QED BY <1>6, <1>a, <1>11, Zenon DEF CheckShouldResume
    <2> HIDE DEF down, e, x, y
    <2> QED BY <2>1, <2>2, <1>3 DEF e, x, y
  <1> QED BY <1>10, <1>11

\* Releasing a packet keeps the invariant.
LEMMA LeaveInv ==
  ASSUME NEW m, NEW B, Consistent(m, B), NEW pkt \in B
  PROVE  Consistent(Leave(m, pkt), B \ {pkt})
  <1> DEFINE p == pkt.in
             o == pkt.out
             q == pkt.q
             n == pkt.size
             x == <<p, q>>
             y == <<o, q>>
             B2 == B \ {pkt}
             i0 == m.ingress_bytes[x]
             h0 == m.hdrm_bytes[x]
             s0 == m.shared_used_bytes
             e  == m.egress_bytes[y] - n
             fh == MinOf(h0, n)
             fs == MinOf(n - fh, Used(i0))
             i == i0 - (n - fh)
             h == h0 - fh
             s == s0 - fs
  <1>1. /\ pkt \in Packet /\ m \in MmuState /\ B \subseteq Packet
        /\ IsFiniteSet(CellsOf(B)) /\ s0 <= Pool
    BY DEF Consistent
  <1>2. p \in Port /\ o \in Port /\ q \in Queue /\ n \in Nat
    BY <1>1, SizeAssumption DEF Packet
  <1>3. x \in PQ /\ i0 \in Nat /\ h0 \in Nat /\ s0 \in Nat /\ m.egress_bytes[y] \in Nat
    BY <1>1, <1>2, CounterTypes
  <1>4. /\ IsFiniteSet(CellsOf(B2))
        /\ BytesOf(From(B, p, q)) = BytesOf(From(B2, p, q)) + n
        /\ BytesOf(To(B, o, q)) = BytesOf(To(B2, o, q)) + n
        /\ BytesOf(From(B2, p, q)) \in Nat
        /\ BytesOf(To(B2, o, q)) \in Nat
        /\ \A r, k : <<r, k>> # <<p, q>> => From(B, r, k) = From(B2, r, k)
        /\ \A r, k : <<r, k>> # <<o, q>> => To(B, r, k) = To(B2, r, k)
    <2>1. B2 \subseteq Packet /\ pkt \notin B2 /\ B2 \cup {pkt} = B
      BY <1>1
    <2>2. IsFiniteSet(CellsOf(B2))
      BY <1>1, FewerPackets
    <2> HIDE DEF B2
    <2>3. /\ BytesOf(From(B2 \cup {pkt}, p, q)) = BytesOf(From(B2, p, q)) + n
          /\ BytesOf(To(B2 \cup {pkt}, o, q)) = BytesOf(To(B2, o, q)) + n
          /\ BytesOf(From(B2, p, q)) \in Nat
          /\ BytesOf(To(B2, o, q)) \in Nat
          /\ \A r, k : <<r, k>> # <<p, q>> => From(B2 \cup {pkt}, r, k) = From(B2, r, k)
          /\ \A r, k : <<r, k>> # <<o, q>> => To(B2 \cup {pkt}, r, k) = To(B2, r, k)
      BY <1>1, <2>1, <2>2, FromAndTo
    <2> QED BY <2>1, <2>2, <2>3
  <1>5. /\ i0 + h0 = BytesOf(From(B, p, q))
        /\ m.egress_bytes[y] = BytesOf(To(B, o, q))
    BY <1>2 DEF Consistent, IngressMatches, EgressMatches
  <1>6. h0 <= headroom[p] /\ headroom[p] \in Nat
    BY <1>2, BytesAssumption DEF Consistent, HeadroomBounded
  <1>7. GetSharedUsed(m, p, q) = Used(i0)
    BY DEF GetSharedUsed, Used
  <1>8. Used(i0) \in Nat /\ Used(i0) <= s0 /\ Used(i0) <= Pool
    <2>1. Used(i0) \in Nat /\ Used(i0) <= Pool
      BY <1>2, <1>3, <1>7, UsedType DEF Consistent, SharedMatches
    <2>2. Excess(m) \in [PQ -> Nat] /\ Excess(m)[x] = Used(i0)
      BY <1>1, <1>3, UsedType DEF Excess, MmuState
    <2>3. s0 = Cardinality(Under(Excess(m)))
      BY <1>1, SharedCellsUnder DEF Consistent, SharedMatches
    <2>4. Excess(m)[x] <= Cardinality(Under(Excess(m)))
      BY <1>3, <2>1, <2>2, OneUnder
    <2> QED BY <2>1, <2>2, <2>3, <2>4
  <1>9. n <= i0 + h0
    BY <1>2, <1>4, <1>5
  <1>10. /\ fh \in Nat /\ fh <= h0 /\ fh <= n /\ n - fh <= i0 /\ n - fh \in Nat
    BY <1>2, <1>3, <1>9 DEF MinOf
  <1>11. fs \in Nat /\ fs <= Used(i0) /\ fs <= s0
    <2> HIDE DEF fh, i0, s0
    <2> QED BY <1>3, <1>8, <1>10 DEF MinOf
  <1>12. i \in Nat /\ h \in Nat /\ s \in Nat /\ s <= Pool /\ i + h = i0 + h0 - n
    <2> HIDE DEF fh, fs, i0, s0, h0, n
    <2> QED BY <1>1, <1>2, <1>3, <1>10, <1>11, PoolAssumption
  <1>13. Used(i) = Used(i0) - fs
    <2>1. reserve \in Nat
      BY BytesAssumption
    <2> HIDE DEF fh, i0, n
    <2> QED BY <1>2, <1>3, <1>10, <2>1 DEF Used, MinOf
  <1>14. s = s0 + Used(i) - Used(i0) /\ Used(i) <= Pool
    <2> HIDE DEF fs, i0, s0, i
    <2> QED BY <1>3, <1>8, <1>11, <1>13, PoolAssumption
  <1>15. RemoveFromIngressAdmission(m, p, q, n) = Moved(m, x, i, h, s)
    <2>1. fs = MinOf(n - fh, GetSharedUsed(m, p, q))
      BY <1>7
    <2> HIDE DEF fh, fs, p, q, n
    <2>2. fh = MinOf(m.hdrm_bytes[<<p, q>>], n)
      BY DEF fh
    <2> QED BY <1>1, <1>2, <1>10, <1>11, <2>1, <2>2, RemoveIngress
  <1> HIDE DEF fh, fs, i, h, s
  <1>16. PICK ps \in [PQ -> BOOLEAN] :
           /\ Leave(m, pkt) = Updated(m, x, y, i, h, e, s, ps)
           /\ \A z \in PQ : z # x => ps[z] = m.paused[z]
           /\ h > 0 /\ m.paused[x] => ps[x]
           /\ ps[x] => ~ (h = 0 /\ Used(i) = 0)
    BY <1>1, <1>12, <1>15, LeaveShape
  <1>17. e \in Nat /\ e = BytesOf(To(B2, o, q)) /\ i + h = BytesOf(From(B2, p, q))
    <2>1. m.egress_bytes[y] - n = BytesOf(To(B2, o, q))
      BY <1>2, <1>4, <1>5
    <2>2. i0 + h0 - n = BytesOf(From(B2, p, q))
      <3> HIDE DEF i0, h0, n, p, q, B2
      <3> QED BY <1>2, <1>3, <1>4, <1>5
    <2> QED BY <1>4, <1>12, <2>1, <2>2
  <1>18. h > 0 => ps[x]
    <2>1. h0 > 0 => m.paused[x]
      BY <1>2 DEF Consistent, HeadroomPaused
    <2>2. h > 0 => h0 > 0
      <3> HIDE DEF h0
      <3> QED BY <1>3, <1>10 DEF h
    <2> QED BY <2>1, <2>2, <1>16
  <1>19. ps[x] => From(B2, p, q) # {}
    <2> SUFFICES ASSUME From(B2, p, q) = {} PROVE ~ ps[x]
      OBVIOUS
    <2>1. i + h = 0
      BY <1>17, NoPackets
    <2>2. i = 0 /\ h = 0
      BY <2>1, <1>12
    <2>3. Used(i) = 0
      BY <2>2, BytesAssumption DEF Used
    <2> QED BY <2>2, <2>3, <1>16
  <1>20. h <= headroom[p]
    <2> HIDE DEF h0
    <2> QED BY <1>3, <1>6, <1>10 DEF h
  <1>21. /\ \A r \in Port, k \in Queue : <<r, k>> # <<p, q>> => From(B2, r, k) = From(B, r, k)
         /\ \A r \in Port, k \in Queue : <<r, k>> # <<o, q>> => To(B2, r, k) = To(B, r, k)
    BY <1>4
  <1>22. B2 \subseteq Packet
    BY <1>1
  <1> HIDE DEF B2, p, q, o, n, e
  <1>23. Balanced(m, B, B2, p, o, q, i, h, e, s, ps)
    BY <1>4, <1>12, <1>14, <1>16, <1>17, <1>18, <1>19, <1>20, <1>21, <1>22 DEF Balanced
  <1>24. Consistent(Updated(m, <<p, q>>, <<o, q>>, i, h, e, s, ps), B2)
    BY <1>2, <1>23, Account
  <1> QED BY <1>16, <1>24 DEF B2
-----------------------------------------------------------------------------
\* CheckAndSendPfc may set the pause of the packet's ingress, and nothing else.
LEMMA EnterPauses ==
  ASSUME NEW m \in MmuState, NEW pkt \in Packet
  PROVE  \/ Enter(m, pkt).paused = m.paused
         \/ /\ ~ m.paused[<<pkt.in, pkt.q>>]
            /\ Enter(m, pkt).paused = [m.paused EXCEPT ![<<pkt.in, pkt.q>>] = TRUE]
  <1> DEFINE p == pkt.in
             q == pkt.q
             n == pkt.size
             u == UpdateIngressAdmission(m, p, q, n)
             a == UpdateEgressAdmission(u, pkt.out, q, n)
  <1>1. DOMAIN m = {"shared_used_bytes", "hdrm_bytes", "ingress_bytes", "egress_bytes", "paused"}
    BY DEF MmuState
  <1>2. DOMAIN u = DOMAIN m /\ u.paused = m.paused
    BY <1>1 DEF UpdateIngressAdmission
  <1> HIDE DEF u
  <1>3. DOMAIN a = DOMAIN m /\ a.paused = m.paused
    BY <1>1, <1>2 DEF UpdateEgressAdmission
  <1>4. Enter(m, pkt) = IF CheckShouldPause(a, p, q) THEN SetPause(a, p, q) ELSE a
    BY DEF Enter, u
  <1> HIDE DEF a
  <1>5. CASE CheckShouldPause(a, p, q)
    <2>1. SetPause(a, p, q).paused = [a.paused EXCEPT ![<<p, q>>] = TRUE]
      BY <1>1, <1>3 DEF SetPause
    <2>2. ~ a.paused[<<p, q>>]
      BY <1>5 DEF CheckShouldPause
    <2> QED BY <1>3, <1>4, <1>5, <2>1, <2>2
  <1>6. CASE ~ CheckShouldPause(a, p, q)
    BY <1>3, <1>4, <1>6
  <1> QED BY <1>5, <1>6

\* CheckAndSendResume may clear the pause of the packet's ingress, and nothing
\* else.
LEMMA LeavePauses ==
  ASSUME NEW m \in MmuState, NEW pkt \in Packet
  PROVE  \/ Leave(m, pkt).paused = m.paused
         \/ /\ m.paused[<<pkt.in, pkt.q>>]
            /\ Leave(m, pkt).paused = [m.paused EXCEPT ![<<pkt.in, pkt.q>>] = FALSE]
  <1> DEFINE p == pkt.in
             q == pkt.q
             n == pkt.size
             u == RemoveFromIngressAdmission(m, p, q, n)
             a == RemoveFromEgressAdmission(u, pkt.out, q, n)
  <1>1. DOMAIN m = {"shared_used_bytes", "hdrm_bytes", "ingress_bytes", "egress_bytes", "paused"}
    BY DEF MmuState
  <1>2. DOMAIN u = DOMAIN m /\ u.paused = m.paused
    BY <1>1 DEF RemoveFromIngressAdmission
  <1> HIDE DEF u
  <1>3. DOMAIN a = DOMAIN m /\ a.paused = m.paused
    BY <1>1, <1>2 DEF RemoveFromEgressAdmission
  <1>4. Leave(m, pkt) = IF CheckShouldResume(a, p, q) THEN SetResume(a, p, q) ELSE a
    BY DEF Leave, u
  <1> HIDE DEF a
  <1>5. CASE CheckShouldResume(a, p, q)
    <2>1. SetResume(a, p, q).paused = [a.paused EXCEPT ![<<p, q>>] = FALSE]
      BY <1>1, <1>3 DEF SetResume
    <2>2. a.paused[<<p, q>>]
      BY <1>5 DEF CheckShouldResume
    <2> QED BY <1>3, <1>4, <1>5, <2>1, <2>2
  <1>6. CASE ~ CheckShouldResume(a, p, q)
    BY <1>3, <1>4, <1>6
  <1> QED BY <1>5, <1>6

\* The counters the constructor clears match the empty buffer.
LEMMA InitConsistent == Consistent(InitMmu, {})
  <1> DEFINE m == InitMmu
  <1>1. m \in MmuState
    BY DEF InitMmu, MmuState
  <1>2. /\ m.shared_used_bytes = 0
        /\ \A z \in PQ : /\ m.hdrm_bytes[z] = 0 /\ m.ingress_bytes[z] = 0
                         /\ m.egress_bytes[z] = 0 /\ m.paused[z] = FALSE
    BY DEF InitMmu
  <1>3. \A p \in Port, q \in Queue : <<p, q>> \in PQ
    BY DEF PQ
  <1> HIDE DEF m
  <1>4. \A p, q : From({}, p, q) = {} /\ To({}, p, q) = {}
    BY DEF From, To
  <1>5. IngressMatches(m, {}) /\ EgressMatches(m, {})
    BY <1>2, <1>3, <1>4, NoPackets DEF IngressMatches, EgressMatches
  <1>6. SharedMatches(m)
    <2>1. ASSUME NEW p \in Port, NEW q \in Queue PROVE GetSharedUsed(m, p, q) = 0
      BY <1>2, <1>3, BytesAssumption DEF GetSharedUsed
    <2>2. SharedCells(m) = {}
      <3>1. ASSUME NEW c \in SharedCells(m) PROVE FALSE
        <4>1. PICK p \in Port, q \in Queue, i \in 1..Pool : c = <<<<p, q>>, i>>
          BY DEF SharedCells, PQ
        <4>2. i <= GetSharedUsed(m, p, q)
          BY <4>1 DEF SharedCells
        <4> QED BY <4>2, <2>1, PoolAssumption
      <3> QED BY <3>1
    <2> QED BY <1>2, <2>1, <2>2, FS_EmptySet, PoolAssumption DEF SharedMatches
  <1>7. HeadroomBounded(m) /\ HeadroomPaused(m)
    <2>1. \A p \in Port : headroom[p] \in Nat
      BY BytesAssumption
    <2> QED BY <1>2, <1>3, <2>1 DEF HeadroomBounded, HeadroomPaused
  <1>8. PausedHolds(m, {})
    BY <1>2, <1>3 DEF PausedHolds
  <1>9. m.shared_used_bytes <= Pool
    BY <1>2, PoolAssumption
  <1> QED BY <1>1, <1>5, <1>6, <1>7, <1>8, <1>9, NoPackets DEF Consistent, m

\* And only they do: when the buffer is empty again, so are all counters, and no
\* priority is paused.
LEMMA EmptyIsInit == ASSUME NEW m, Consistent(m, {}) PROVE m = InitMmu
  <1>1. m \in MmuState
    BY DEF Consistent
  <1>2. \A p, q : From({}, p, q) = {} /\ To({}, p, q) = {}
    BY DEF From, To
  <1>3. ASSUME NEW p \in Port, NEW q \in Queue
        PROVE  /\ m.hdrm_bytes[<<p, q>>] = 0 /\ m.ingress_bytes[<<p, q>>] = 0
               /\ m.egress_bytes[<<p, q>>] = 0 /\ m.paused[<<p, q>>] = FALSE
    <2>1. <<p, q>> \in PQ
      BY DEF PQ
    <2>2. /\ m.hdrm_bytes[<<p, q>>] \in Nat /\ m.ingress_bytes[<<p, q>>] \in Nat
          /\ m.paused[<<p, q>>] \in BOOLEAN
      BY <1>1, <2>1 DEF MmuState
    <2>3. m.ingress_bytes[<<p, q>>] + m.hdrm_bytes[<<p, q>>] = 0
      BY <1>2, NoPackets DEF Consistent, IngressMatches
    <2>4. m.egress_bytes[<<p, q>>] = 0
      BY <1>2, NoPackets DEF Consistent, EgressMatches
    <2>5. ~ m.paused[<<p, q>>]
      BY <1>2 DEF Consistent, PausedHolds
    <2> QED BY <2>2, <2>3, <2>4, <2>5
  <1>4. m.shared_used_bytes = 0
    <2>1. ASSUME NEW c \in SharedCells(m) PROVE FALSE
      <3>1. PICK p \in Port, q \in Queue, i \in 1..Pool : c = <<<<p, q>>, i>>
        BY DEF SharedCells, PQ
      <3>2. i <= GetSharedUsed(m, p, q)
        BY <3>1 DEF SharedCells
      <3>3. GetSharedUsed(m, p, q) = 0
        <4>1. m.ingress_bytes[<<p, q>>] = 0
          BY <1>3
        <4> QED BY <4>1, BytesAssumption DEF GetSharedUsed
      <3> QED BY <3>2, <3>3, PoolAssumption
    <2>2. SharedCells(m) = {}
      BY <2>1
    <2> QED BY <2>2, FS_EmptySet DEF Consistent, SharedMatches
  <1>5. ASSUME NEW x \in PQ
        PROVE  m.hdrm_bytes[x] = 0 /\ m.ingress_bytes[x] = 0 /\ m.egress_bytes[x] = 0
               /\ m.paused[x] = FALSE
    <2>1. PICK p \in Port, q \in Queue : x = <<p, q>>
      BY DEF PQ
    <2> QED BY <1>3, <2>1
  <1>6. /\ m.hdrm_bytes = [x \in PQ |-> 0] /\ m.ingress_bytes = [x \in PQ |-> 0]
        /\ m.egress_bytes = [x \in PQ |-> 0]
    BY <1>1, <1>5 DEF MmuState
  <1>7. m.paused = [x \in PQ |-> FALSE]
    BY <1>1, <1>5 DEF MmuState
  <1>8. m = [ shared_used_bytes |-> m.shared_used_bytes, hdrm_bytes |-> m.hdrm_bytes,
              ingress_bytes |-> m.ingress_bytes, egress_bytes |-> m.egress_bytes,
              paused |-> m.paused ]
    BY <1>1 DEF MmuState
  <1> QED BY <1>4, <1>6, <1>7, <1>8 DEF InitMmu
-----------------------------------------------------------------------------
(***************************************************************************)
(* The packets held fit the buffer, when one priority is accounted for.    *)
(***************************************************************************)
LEMMA InPortCells ==
  ASSUME NEW f, NEW c
  PROVE  c \in PortCells(f) <=> \E p \in Port : \E i \in 1..f[p] : c = <<p, i>>
  BY DEF PortCells

\* Finitely many ports have finitely many cells.
LEMMA PortCellsFinite ==
  ASSUME NEW f \in [Port -> Nat]
  PROVE  IsFiniteSet(PortCells(f)) /\ Cardinality(PortCells(f)) \in Nat
  <1> DEFINE C == {{p} \X (1..f[p]) : p \in Port}
             g == [p \in Port |-> {p} \X (1..f[p])]
  <1>1. g \in Surjection(Port, C)
    BY DEF Surjection
  <1>2. IsFiniteSet(C)
    BY <1>1, PortAssumption, FS_Surjection
  <1>3. \A p \in Port : IsFiniteSet({p} \X (1..f[p]))
    <2> SUFFICES ASSUME NEW p \in Port PROVE IsFiniteSet({p} \X (1..f[p]))
      OBVIOUS
    <2>1. IsFiniteSet(1..f[p])
      BY FS_Interval
    <2>2. IsFiniteSet({p})
      BY FS_Singleton
    <2> QED BY <2>1, <2>2, FS_Product
  <1>4. IsFiniteSet(UNION C)
    BY <1>2, <1>3, FS_UNION
  <1> QED BY <1>4, FS_CardinalityType DEF PortCells

\* The cells of a sum are the cells of both summands.
LEMMA PortCellsSum ==
  ASSUME NEW f \in [Port -> Nat], NEW g \in [Port -> Nat],
         NEW h \in [Port -> Nat], \A p \in Port : h[p] = f[p] + g[p]
  PROVE  Cardinality(PortCells(h)) = Cardinality(PortCells(f)) + Cardinality(PortCells(g))
  <1> DEFINE A == PortCells(f)
             B == PortCells(g)
             D == {<<c[1], f[c[1]] + c[2]>> : c \in B}
             s == [c \in B |-> <<c[1], f[c[1]] + c[2]>>]
  <1>1. /\ IsFiniteSet(A) /\ Cardinality(A) \in Nat
        /\ IsFiniteSet(B) /\ Cardinality(B) \in Nat
    BY PortCellsFinite
  <1>2. \A c \in B : c = <<c[1], c[2]>> /\ c[1] \in Port /\ c[2] \in 1..g[c[1]]
    BY InPortCells
  <1>3. \A p \in Port : f[p] \in Nat /\ g[p] \in Nat /\ h[p] = f[p] + g[p]
    OBVIOUS
  <1>4. s \in Surjection(B, D)
    BY DEF Surjection
  <1>5. s \in Injection(B, D)
    <2> SUFFICES ASSUME NEW c \in B, NEW d \in B, s[c] = s[d] PROVE c = d
      BY DEF Injection, IsInjective
    <2>1. c[1] = d[1] /\ f[c[1]] + c[2] = f[c[1]] + d[2]
      OBVIOUS
    <2>2. f[c[1]] \in Nat /\ c[2] \in Int /\ d[2] \in Int
      BY <1>2, <1>3
    <2>3. c[2] = d[2]
      BY <2>1, <2>2
    <2> QED BY <1>2, <2>1, <2>3
  <1>6. IsFiniteSet(D) /\ Cardinality(D) = Cardinality(B)
    BY <1>1, <1>4, <1>5, FS_Surjection
  <1>7. A \cap D = {}
    <2> SUFFICES ASSUME NEW c \in B, <<c[1], f[c[1]] + c[2]>> \in A PROVE FALSE
      OBVIOUS
    <2>1. f[c[1]] + c[2] \in 1..f[c[1]]
      BY InPortCells
    <2> QED BY <1>2, <1>3, <2>1
  <1>8. PortCells(h) = A \cup D
    <2>1. ASSUME NEW c \in PortCells(h) PROVE c \in A \cup D
      <3>1. PICK p \in Port : \E i \in 1..h[p] : c = <<p, i>>
        BY <2>1, InPortCells
      <3>2. PICK i \in 1..h[p] : c = <<p, i>>
        BY <3>1
      <3>3. CASE i <= f[p]
        <4>1. i \in 1..f[p]
          BY <1>3, <3>3
        <4> QED BY <3>2, <4>1, InPortCells
      <3>4. CASE ~ (i <= f[p])
        <4>1. i - f[p] \in 1..g[p] /\ i = f[p] + (i - f[p])
          BY <1>3, <3>4
        <4>2. <<p, i - f[p]>> \in B
          BY <4>1, InPortCells
        <4> QED BY <3>2, <4>1, <4>2
      <3> QED BY <3>3, <3>4
    <2>2. ASSUME NEW c \in A PROVE c \in PortCells(h)
      <3>1. PICK p \in Port : \E i \in 1..f[p] : c = <<p, i>>
        BY <2>2, InPortCells
      <3>2. PICK i \in 1..f[p] : c = <<p, i>>
        BY <3>1
      <3>3. i \in 1..h[p]
        BY <1>3
      <3> QED BY <3>2, <3>3, InPortCells
    <2>3. ASSUME NEW c \in B PROVE <<c[1], f[c[1]] + c[2]>> \in PortCells(h)
      <3>1. c[1] \in Port /\ f[c[1]] + c[2] \in 1..h[c[1]]
        BY <1>2, <1>3
      <3> QED BY <3>1, InPortCells
    <2> QED BY <2>1, <2>2, <2>3
  <1> HIDE DEF A, B, D, s
  <1>9. Cardinality(A \cup D) = Cardinality(A) + Cardinality(D) - Cardinality({})
    BY <1>1, <1>6, <1>7, FS_Union
  <1> QED BY <1>1, <1>6, <1>8, <1>9, FS_EmptySet DEF A, B

\* The same number of bytes on every port.
LEMMA PortCellsEven ==
  ASSUME NEW n \in Nat
  PROVE  Cardinality(PortCells([p \in Port |-> n])) = Cardinality(Port) * n
  <1>1. PortCells([p \in Port |-> n]) = Port \X (1..n)
    <2>1. ASSUME NEW c PROVE c \in PortCells([p \in Port |-> n]) <=> c \in Port \X (1..n)
      BY InPortCells
    <2> QED BY <2>1
  <1>2. IsFiniteSet(1..n) /\ Cardinality(1..n) = n
    BY FS_Interval
  <1> QED BY <1>1, <1>2, PortAssumption, FS_Product

\* No more bytes are held than came in by the ports together.
LEMMA HeldByPort ==
  ASSUME NEW k, Queue = {k}, NEW S \in SUBSET Packet, IsFiniteSet(CellsOf(S)),
         NEW v \in [Port -> Nat], \A p \in Port : v[p] = BytesOf(From(S, p, k))
  PROVE  BytesOf(S) <= Cardinality(PortCells(v))
  <1> DEFINE Of(p) == CellsOf(From(S, p, k))
             F(p)  == CHOOSE f : f \in Bijection(1..v[p], Of(p))
             C     == PortCells(v)
             g     == [c \in C |-> F(c[1])[c[2]]]
  <1>1. \A p \in Port : F(p) \in Bijection(1..v[p], Of(p))
    <2> SUFFICES ASSUME NEW p \in Port PROVE F(p) \in Bijection(1..v[p], Of(p))
      OBVIOUS
    <2>1. From(S, p, k) \in SUBSET S
      BY DEF From
    <2>2. IsFiniteSet(Of(p))
      BY <2>1, FewerPackets
    <2>3. ExistsBijection(1..Cardinality(Of(p)), Of(p)) /\ v[p] = Cardinality(Of(p))
      BY <2>2, FS_CardinalityType DEF BytesOf
    <2>4. \E f : f \in Bijection(1..v[p], Of(p))
      BY <2>3 DEF ExistsBijection
    <2> QED BY <2>4
  <1> HIDE DEF F
  <1>2. \A p \in Port : /\ \A i \in 1..v[p] : F(p)[i] \in Of(p)
                        /\ \A d \in Of(p) : \E i \in 1..v[p] : F(p)[i] = d
    BY <1>1 DEF Bijection, Surjection
  <1>3. \A c \in C : c[1] \in Port /\ c[2] \in 1..v[c[1]]
    BY InPortCells
  <1>4. \A p \in Port : Of(p) \subseteq CellsOf(S)
    BY DEF CellsOf, From
  <1>5. \A d \in CellsOf(S) : \E p \in Port : d \in Of(p)
    <2> SUFFICES ASSUME NEW b \in S, NEW i \in 1..b.size PROVE \E p \in Port : <<b, i>> \in Of(p)
      BY DEF CellsOf
    <2>1. b.in \in Port /\ b.q = k
      BY DEF Packet
    <2>2. b \in From(S, b.in, k)
      BY <2>1 DEF From
    <2>3. <<b, i>> \in Of(b.in)
      BY <2>2 DEF CellsOf
    <2> QED BY <2>1, <2>3
  <1> HIDE DEF Of
  <1>6. g \in [C -> CellsOf(S)]
    BY <1>2, <1>3, <1>4
  <1>7. ASSUME NEW d \in CellsOf(S) PROVE \E c \in C : g[c] = d
    <2>1. PICK p \in Port : d \in Of(p)
      BY <1>5
    <2>2. PICK i \in 1..v[p] : F(p)[i] = d
      BY <1>2, <2>1
    <2>3. <<p, i>> \in C
      BY <2>2, InPortCells
    <2>4. g[<<p, i>>] = d
      BY <2>2, <2>3
    <2> QED BY <2>3, <2>4
  <1>8. g \in Surjection(C, CellsOf(S))
    BY <1>6, <1>7 DEF Surjection
  <1>9. IsFiniteSet(C)
    BY PortCellsFinite
  <1> HIDE DEF g, C
  <1>10. Cardinality(CellsOf(S)) <= Cardinality(C)
    BY <1>8, <1>9, FS_Surjection
  <1> QED BY <1>10 DEF BytesOf, C

\* What is used of the shared pool, by port.
LEMMA SharedByPort ==
  ASSUME NEW k, Queue = {k}, NEW m, SharedMatches(m),
         NEW u \in [Port -> Nat], \A p \in Port : u[p] = GetSharedUsed(m, p, k)
  PROVE  Cardinality(PortCells(u)) = m.shared_used_bytes
  <1> DEFINE C == PortCells(u)
             g == [c \in C |-> <<<<c[1], k>>, c[2]>>]
  <1>1. \A p \in Port : u[p] <= Pool
    BY DEF SharedMatches
  <1>2. \A c \in C : c = <<c[1], c[2]>> /\ c[1] \in Port /\ c[2] \in 1..u[c[1]]
    BY InPortCells
  <1>3. ASSUME NEW p \in Port, NEW i \in 1..u[p] PROVE <<<<p, k>>, i>> \in SharedCells(m)
    <2>1. i \in 1..Pool /\ i <= GetSharedUsed(m, p, k)
      BY <1>1, PoolAssumption
    <2> QED BY <2>1 DEF SharedCells, PQ
  <1>4. ASSUME NEW d \in SharedCells(m) PROVE \E c \in C : <<<<c[1], k>>, c[2]>> = d
    <2>1. PICK p \in Port, i \in 1..Pool : d = <<<<p, k>>, i>>
      BY DEF SharedCells, PQ
    <2>2. i <= u[p]
      BY <2>1 DEF SharedCells
    <2>3. i \in 1..u[p]
      BY <2>2, PoolAssumption
    <2>4. <<p, i>> \in C
      BY <2>3, InPortCells
    <2> QED BY <2>1, <2>4
  <1>5. g \in [C -> SharedCells(m)]
    BY <1>2, <1>3
  <1>6. g \in Surjection(C, SharedCells(m))
    BY <1>4, <1>5 DEF Surjection
  <1>7. g \in Injection(C, SharedCells(m))
    <2> SUFFICES ASSUME NEW c \in C, NEW d \in C, g[c] = g[d] PROVE c = d
      BY <1>5 DEF Injection, IsInjective
    <2>1. c[1] = d[1] /\ c[2] = d[2]
      OBVIOUS
    <2> QED BY <1>2, <2>1
  <1>8. IsFiniteSet(C)
    BY PortCellsFinite
  <1> HIDE DEF g, C
  <1>9. Cardinality(SharedCells(m)) = Cardinality(C)
    BY <1>6, <1>7, <1>8, FS_Surjection
  <1> QED BY <1>9 DEF SharedMatches, C

\* Each port holds its reserve, its excess over it and its headroom at most; the
\* excesses are shared_used_bytes, which is what the pool leaves at most.
LEMMA HeldFits ==
  ASSUME NEW k, Queue = {k}, NEW m, NEW S, Consistent(m, S)
  PROVE  BytesOf(S) <= buffer_size
  <1> DEFINE v == [p \in Port |-> BytesOf(From(S, p, k))]
             u == [p \in Port |-> GetSharedUsed(m, p, k)]
             r == [p \in Port |-> reserve]
             a == [p \in Port |-> r[p] + u[p]]
             b == [p \in Port |-> a[p] + headroom[p]]
  <1>1. /\ S \subseteq Packet /\ IsFiniteSet(CellsOf(S)) /\ m \in MmuState
        /\ SharedMatches(m) /\ HeadroomBounded(m) /\ IngressMatches(m, S)
        /\ m.shared_used_bytes <= Pool
    BY DEF Consistent
  <1>2. \A p \in Port : /\ m.ingress_bytes[<<p, k>>] \in Nat /\ m.hdrm_bytes[<<p, k>>] \in Nat
                        /\ m.hdrm_bytes[<<p, k>>] <= headroom[p]
                        /\ m.ingress_bytes[<<p, k>>] + m.hdrm_bytes[<<p, k>>] = v[p]
    BY <1>1 DEF MmuState, PQ, HeadroomBounded, IngressMatches
  <1>3. \A p \in Port : u[p] = IF m.ingress_bytes[<<p, k>>] > reserve
                               THEN m.ingress_bytes[<<p, k>>] - reserve ELSE 0
    BY DEF GetSharedUsed
  <1>4. \A p \in Port : headroom[p] \in Nat /\ reserve \in Nat /\ r[p] = reserve
    BY BytesAssumption
  <1> HIDE DEF u, v, r
  <1>5. \A p \in Port : /\ u[p] \in Nat /\ v[p] \in Nat /\ r[p] \in Nat
                        /\ v[p] <= (r[p] + u[p]) + headroom[p]
    <2> SUFFICES ASSUME NEW p \in Port
                 PROVE  /\ u[p] \in Nat /\ v[p] \in Nat /\ r[p] \in Nat
                        /\ v[p] <= (r[p] + u[p]) + headroom[p]
      OBVIOUS
    <2> DEFINE i == m.ingress_bytes[<<p, k>>]
               h == m.hdrm_bytes[<<p, k>>]
    <2>1. /\ i \in Nat /\ h \in Nat /\ h <= headroom[p] /\ i + h = v[p]
          /\ headroom[p] \in Nat /\ reserve \in Nat /\ r[p] = reserve
      BY <1>2, <1>4
    <2>2. u[p] = IF i > reserve THEN i - reserve ELSE 0
      BY <1>3
    <2> HIDE DEF i, h
    <2>3. u[p] \in Nat /\ i <= reserve + u[p]
      BY <2>1, <2>2
    <2>4. v[p] \in Nat
      BY <2>1
    <2>5. v[p] <= (reserve + u[p]) + headroom[p]
      BY <2>1, <2>3, <2>4
    <2> QED BY <2>1, <2>3, <2>4, <2>5
  <1>6. u \in [Port -> Nat] /\ v \in [Port -> Nat] /\ r \in [Port -> Nat]
    BY <1>5 DEF u, v, r
  <1>7. a \in [Port -> Nat] /\ b \in [Port -> Nat] /\ headroom \in [Port -> Nat]
    BY <1>4, <1>5, BytesAssumption
  <1>8. \A p \in Port : a[p] = r[p] + u[p] /\ b[p] = a[p] + headroom[p] /\ v[p] <= b[p]
    BY <1>4, <1>5
  <1> HIDE DEF a, b
  <1>9. Cardinality(PortCells(b)) = Cardinality(PortCells(a)) + total_hdrm
    BY <1>7, <1>8, PortCellsSum DEF total_hdrm
  <1>10. Cardinality(PortCells(a)) = Cardinality(PortCells(r)) + Cardinality(PortCells(u))
    <2>1. \A p \in Port : a[p] = r[p] + u[p]
      BY <1>8
    <2> QED BY <1>6, <1>7, <2>1, PortCellsSum
  <1>11. Cardinality(PortCells(r)) = Cardinality(Port) * reserve
    BY BytesAssumption, PortCellsEven DEF r
  <1>12. Cardinality(PortCells(u)) = m.shared_used_bytes
    BY <1>1, <1>6, SharedByPort DEF u
  <1>13. BytesOf(S) <= Cardinality(PortCells(v))
    BY <1>1, <1>6, HeldByPort DEF v
  <1>14. PortCells(v) \subseteq PortCells(b)
    <2> SUFFICES ASSUME NEW p \in Port, NEW i \in 1..v[p] PROVE <<p, i>> \in PortCells(b)
      BY InPortCells
    <2>1. i \in 1..b[p]
      BY <1>5, <1>7, <1>8
    <2> QED BY <2>1, InPortCells
  <1>15. Cardinality(PortCells(v)) <= Cardinality(PortCells(b))
    BY <1>7, <1>14, PortCellsFinite, FS_Subset
  <1>16. /\ Cardinality(PortCells(v)) \in Nat /\ Cardinality(PortCells(b)) \in Nat
         /\ Cardinality(PortCells(r)) \in Nat /\ Cardinality(PortCells(u)) \in Nat
         /\ total_hdrm \in Nat /\ BytesOf(S) \in Nat
    BY <1>1, <1>6, <1>7, PortCellsFinite, FS_CardinalityType DEF total_hdrm, BytesOf
  <1>17. total_rsrv = Cardinality(PortCells(r))
    BY <1>11, PortAssumption, BytesAssumption, FS_CardinalityType DEF total_rsrv
  <1>18. m.shared_used_bytes <= buffer_size - total_hdrm - total_rsrv /\ buffer_size \in Nat
    BY <1>1, BytesAssumption DEF Pool
  <1> QED BY <1>9, <1>10, <1>12, <1>13, <1>15, <1>16, <1>17, <1>18
=============================================================================
