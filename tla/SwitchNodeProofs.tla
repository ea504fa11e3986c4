-------------------------- MODULE SwitchNodeProofs --------------------------
(***************************************************************************)
(* Proofs about SwitchNode, for every number of devices and priorities.    *)
(***************************************************************************)
EXTENDS SwitchNode, SwitchMmuProofs, SequenceTheorems, WellFoundedInduction

(***************************************************************************)
(* The inductive invariant, as predicates on the record an event works on. *)
(***************************************************************************)
Entry  == Frame \cup High \cup Packet
OnWire == Frame \cup Sent \cup {Idle}

State ==
  [ mmu    : MmuState,
    queue  : [Port -> [AllQ -> Seq(Entry)]],
    rr     : [Port -> AllQ],
    cur    : [Port -> OnWire],
    paused : [Port -> [AllQ -> BOOLEAN]],
    bytes  : [Port \X Port \X AllQ -> Int],
    wire   : [PQ -> BOOLEAN] ]

\* Queue 0 holds PFC frames and packets of the highest priority; the other
\* queues hold packets of their device and priority, from other devices.
Placed(Q) ==
  \A d \in Port :
    /\ Q[d][0] \in Seq(Frame \cup High)
    /\ \A k \in Queue :
         /\ Q[d][k] \in Seq(Packet)
         /\ \A i \in 1..Len(Q[d][k]) :
              Q[d][k][i].out = d /\ Q[d][k][i].q = k /\ Q[d][k][i].in # d

\* The packets of the accounted priorities in the queues.
Pkts(Q) == UNION {ToSet(Q[d][k]) : d \in Port, k \in Queue}

\* No packet is queued twice, and none that was discarded is queued.
Unique(Q, D) ==
  \A d \in Port, k \in Queue : \A i \in 1..Len(Q[d][k]) :
    /\ \A j \in 1..Len(Q[d][k]) : Q[d][k][i] = Q[d][k][j] => i = j
    /\ Q[d][k][i] \notin D

\* The packets of H that came in by in and leave by out at priority q.
Along(H, in, out, q) == {b \in H : b.in = in /\ b.out = out /\ b.q = q}

\* m_bytes counts the packets of H.
Ledger(bytes, H) ==
  \A in \in Port, out \in Port, q \in Queue :
    bytes[<<in, out, q>>] = BytesOf(Along(H, in, out, q))

FramesAlternate(s) ==
  \A d \in Port, q \in Queue : linkUp[d] =>
    Alternates(s.queue[d][0], q, s.wire[<<d, q>>], s.mmu.paused[<<d, q>>])

\* Everything but NoLostWakeup, when the packets D have been discarded.
Good(s, D) ==
  /\ s \in State
  /\ Placed(s.queue)
  /\ Unique(s.queue, D)
  /\ Consistent(s.mmu, Pkts(s.queue) \cup D)
  /\ Ledger(s.bytes, Pkts(s.queue) \cup D)
  /\ \A in \in Port, out \in Port : s.bytes[<<in, out, 0>>] \in Nat
  /\ FramesAlternate(s)

\* Device d has nothing that it may send and does not.
Awake(s, d) ==
  linkUp[d] /\ s.cur[d] = Idle =>
    /\ s.queue[d][0] = <<>>
    /\ \A k \in Queue : s.queue[d][k] # <<>> => s.paused[d][k]

Inv ==
  /\ Good(St, discarded)
  /\ \A d \in Port : Awake(St, d)
  /\ linkUp \in [Port -> BOOLEAN]
-----------------------------------------------------------------------------
(***************************************************************************)
(* DoDequeueRR.                                                            *)
(***************************************************************************)
\* A nonempty set of natural numbers has a least element, and Min is it.
LEMMA MinIsLeast ==
  ASSUME NEW S \in SUBSET Nat, S # {}
  PROVE  Min(S) \in S /\ \A y \in S : Min(S) <= y
  <1> DEFINE R == OpToRel(<, Nat)
  <1>1. IsWellFoundedOn(R, Nat)
    BY NatLessThanWellFounded
  <1>2. \E x \in S : \A y \in S : <<y, x>> \notin R
    BY <1>1, WFMin
  <1>3. PICK x \in S : \A y \in S : <<y, x>> \notin R
    BY <1>2
  <1>4. ASSUME NEW y \in S PROVE x <= y
    <2>1. ~ (y < x)
      BY <1>3 DEF OpToRel
    <2> QED BY <2>1
  <1> QED BY <1>4 DEF Min

\* The queues of a device: queue 0, and one for each accounted priority.
LEMMA Queues ==
  /\ qCnt \in Nat /\ qCnt > 0 /\ 0 \in AllQ /\ 0 \notin Queue
  /\ Queue \subseteq AllQ /\ Queue \subseteq Nat
  /\ \A k \in AllQ : k # 0 => k \in Queue
  /\ None \notin AllQ
  BY QueueAssumption DEF AllQ, None

\* Where the loop of DoDequeueRR is after i steps from r.
LEMMA LoopReaches ==
  ASSUME NEW r \in AllQ
  PROVE  /\ \A i \in 1..qCnt : (i + r) % qCnt \in AllQ
         /\ \A k \in AllQ : \E i \in 1..qCnt : (i + r) % qCnt = k
         /\ \A i \in 1..qCnt : (i + r) % qCnt = r <=> i = qCnt
  <1> DEFINE n == qCnt
  <1>0. n \in Nat /\ n > 0 /\ r \in 0..(n - 1)
    BY Queues DEF AllQ
  <1> HIDE DEF n
  <1>1. \A x \in 0..(n - 1) : x % n = x /\ (x + n) % n = x
    BY <1>0, Z3
  <1>2. \A i \in 1..n : (i + r) % n = IF i + r < n THEN i + r ELSE i + r - n
    <2> SUFFICES ASSUME NEW i \in 1..n
                 PROVE  (i + r) % n = IF i + r < n THEN i + r ELSE i + r - n
      OBVIOUS
    <2>1. CASE i + r < n
      BY <1>0, <1>1, <2>1
    <2>2. CASE i + r >= n
      <3> DEFINE x == (i + r) - n
      <3>1. x \in 0..(n - 1) /\ i + r = x + n
        BY <1>0, <2>2
      <3> HIDE DEF x
      <3>2. (i + r) % n = x
        BY <1>1, <3>1
      <3> QED BY <1>0, <2>2, <3>2 DEF x
    <2> QED BY <1>0, <2>1, <2>2
  <1>3. ASSUME NEW k \in 0..(n - 1) PROVE \E i \in 1..n : (i + r) % n = k
    <2>1. CASE k > r
      <3>1. k - r \in 1..n /\ (k - r) + r = k /\ k < n
        BY <1>0, <2>1
      <3>2. ((k - r) + r) % n = k
        BY <1>1, <3>1
      <3> QED BY <3>1, <3>2
    <2>2. CASE k <= r
      <3>1. (k - r) + n \in 1..n /\ ((k - r) + n) + r = k + n
        BY <1>0, <2>2
      <3>2. (((k - r) + n) + r) % n = k
        BY <1>1, <3>1
      <3> QED BY <3>1, <3>2
    <2> QED BY <1>0, <2>1, <2>2
  <1>4. \A i \in 1..n : (i + r) % n \in 0..(n - 1)
    BY <1>0, <1>2
  <1>5. \A i \in 1..n : (i + r) % n = r <=> i = n
    BY <1>0, <1>2
  <1> QED BY <1>3, <1>4, <1>5 DEF n, AllQ

\* What DequeueAndTransmit chooses: queue 0 first; otherwise a nonempty queue
\* that is not paused, the one served last only if there is no other; nothing
\* only if there is none.
LEMMA NextQueueChoice ==
  ASSUME NEW s \in State, NEW d \in Port
  PROVE  LET k == NextQueue(s, d)
         IN  /\ s.queue[d][0] # <<>> => k = 0
             /\ k = None => \A j \in Queue : s.queue[d][j] # <<>> => s.paused[d][j]
             /\ k # None => k \in AllQ /\ s.queue[d][k] # <<>>
             /\ k # None /\ k # 0 /\ k = s.rr[d] =>
                  \A j \in Queue \ {k} : s.paused[d][j] \/ s.queue[d][j] = <<>>
  <1> DEFINE at(i) == (i + s.rr[d]) % qCnt
             ready == {i \in 1..qCnt : ~ s.paused[d][at(i)] /\ s.queue[d][at(i)] # <<>>}
             k     == NextQueue(s, d)
             m     == Min(ready)
  <1>1. s.rr[d] \in AllQ /\ s.paused[d] \in [AllQ -> BOOLEAN]
    BY DEF State
  <1>2. /\ \A i \in 1..qCnt : at(i) \in AllQ
        /\ \A j \in AllQ : \E i \in 1..qCnt : at(i) = j
        /\ \A i \in 1..qCnt : at(i) = s.rr[d] <=> i = qCnt
    BY <1>1, LoopReaches
  <1>3. ready \subseteq 1..qCnt /\ ready \in SUBSET Nat
    BY Queues
  <1>4. k = IF s.queue[d][0] # <<>> THEN 0 ELSE IF ready = {} THEN None ELSE at(m)
    BY DEF NextQueue
  <1>5. ready # {} => m \in ready /\ \A y \in ready : m <= y
    BY <1>3, MinIsLeast
  <1>6. ASSUME NEW j \in Queue, ~ s.paused[d][j], s.queue[d][j] # <<>>
        PROVE  \E i \in ready : at(i) = j
    BY <1>2, <1>6, Queues
  <1>7. \A i \in ready : i \in 1..qCnt /\ ~ s.paused[d][at(i)] /\ s.queue[d][at(i)] # <<>>
    OBVIOUS
  <1> HIDE DEF at, ready, k, m
  <1>8. s.queue[d][0] # <<>> => k = 0
    BY <1>4
  <1>9. k = None => \A j \in Queue : s.queue[d][j] # <<>> => s.paused[d][j]
    <2>1. k = None => ready = {}
      BY <1>2, <1>4, <1>5, <1>7, Queues
    <2> QED BY <1>6, <2>1
  <1>10. k # None => k \in AllQ /\ s.queue[d][k] # <<>>
    BY <1>2, <1>4, <1>5, <1>7, Queues
  <1>11. ASSUME k # None, k # 0, k = s.rr[d], NEW j \in Queue \ {k}
         PROVE  s.paused[d][j] \/ s.queue[d][j] = <<>>
    <2>1. k = at(m) /\ ready # {}
      BY <1>4, <1>11
    <2>2. m = qCnt
      BY <1>2, <1>5, <1>7, <1>11, <2>1
    <2>3. \A i \in ready : i = qCnt
      BY <1>3, <1>5, <2>1, <2>2, Queues
    <2> QED BY <1>6, <1>11, <2>1, <2>2, <2>3
  <1> QED BY <1>8, <1>9, <1>10, <1>11 DEF k

-----------------------------------------------------------------------------
(***************************************************************************)
(* The frames in queue 0.                                                  *)
(***************************************************************************)
\* The elements of queue 0 and their kinds.
LEMMA Kinds ==
  /\ \A f \in Frame : f.pfc = TRUE /\ f.q \in Queue /\ f.on \in BOOLEAN /\ f \notin High
  /\ \A h \in High : h.pfc = FALSE /\ h.size \in Size /\ h \notin Frame
  /\ \A b \in Packet : b \notin Frame
  /\ \A f \in Frame : f # Idle
  /\ \A x \in Sent : x # Idle /\ x \notin Frame
  /\ \A q \in Queue, on \in BOOLEAN :
       Pfc(q, on) \in Frame /\ Pfc(q, on).q = q /\ Pfc(q, on).on = on /\ Pfc(q, on).pfc
  <1>1. \A b \in Packet : b \notin Frame
    <2> SUFFICES ASSUME NEW b \in Packet, b \in Frame PROVE FALSE
      OBVIOUS
    <2>1. "pfc" \in DOMAIN b
      BY DEF Frame
    <2>2. DOMAIN b = {"id", "in", "out", "q", "size"}
      BY DEF Packet
    <2> QED BY <2>1, <2>2
  <1>2. \A f \in Frame : f.pfc = TRUE /\ f.q \in Queue /\ f.on \in BOOLEAN
    BY DEF Frame
  <1>3. \A h \in High : h.pfc = FALSE /\ h.size \in Size
    BY DEF High
  <1>4. \A x \in Sent : x.pfc = FALSE /\ x.size \in Size
    BY DEF Sent
  <1>5. Idle.pfc = FALSE /\ Idle.size = 0
    BY DEF Idle
  <1>6. 0 \notin Size
    BY SizeAssumption
  <1>7. \A q \in Queue, on \in BOOLEAN :
          Pfc(q, on) \in Frame /\ Pfc(q, on).q = q /\ Pfc(q, on).on = on /\ Pfc(q, on).pfc
    BY DEF Pfc, Frame
  <1> QED BY <1>1, <1>2, <1>3, <1>4, <1>5, <1>6, <1>7

\* The positions of the frames of q, 0 for the last one sent, and what they say.
At(z, q)        == {0} \cup {i \in 1..Len(z) : z[i].pfc /\ z[i].q = q}
On(z, first, i) == IF i = 0 THEN first ELSE z[i].on

\* i and j are positions of A with none between them.
Adjacent(A, i, j) == i < j /\ \A k \in A : k <= i \/ j <= k

LEMMA AlternatesMeans ==
  ASSUME NEW z, NEW q, NEW first, NEW last
  PROVE  Alternates(z, q, first, last) <=>
           /\ \A i \in At(z, q), j \in At(z, q) :
                Adjacent(At(z, q), i, j) => On(z, first, i) # On(z, first, j)
           /\ \A i \in At(z, q) :
                (\A j \in At(z, q) : j <= i) => On(z, first, i) = last
  <1> DEFINE A == At(z, q)
             on(i) == On(z, first, i)
  <1>1. Alternates(z, q, first, last) <=>
          \A i \in A :
            /\ \A j \in A : i < j /\ (\A k \in A : k <= i \/ j <= k) => on(i) # on(j)
            /\ (\A j \in A : j <= i) => on(i) = last
    BY DEF Alternates, At, On
  <1> HIDE DEF A, on
  <1>2. Alternates(z, q, first, last) <=>
          /\ \A i \in A, j \in A : Adjacent(A, i, j) => on(i) # on(j)
          /\ \A i \in A : (\A j \in A : j <= i) => on(i) = last
    BY <1>1 DEF Adjacent
  <1> QED BY <1>2 DEF A, on

\* A frame of another priority, or a packet, appended to queue 0.
LEMMA AppendOther ==
  ASSUME NEW S, NEW z \in Seq(S), NEW q \in Queue, NEW first, NEW last,
         Alternates(z, q, first, last), NEW x \in S, ~ (x.pfc /\ x.q = q)
  PROVE  Alternates(Append(z, x), q, first, last)
  <1> DEFINE y == Append(z, x)
  <1>1. /\ Len(z) \in Nat /\ Len(y) = Len(z) + 1 /\ y[Len(z) + 1] = x
        /\ \A i \in 1..Len(z) : y[i] = z[i]
    OBVIOUS
  <1> HIDE DEF y
  <1>2. At(y, q) = At(z, q)
    BY <1>1 DEF At
  <1>3. \A i \in At(z, q) : On(y, first, i) = On(z, first, i)
    BY <1>1 DEF At, On
  <1>4. Alternates(y, q, first, last)
    BY <1>2, <1>3, AlternatesMeans
  <1> QED BY <1>4 DEF y

\* A frame of q that says the opposite of the last one, appended to queue 0.
LEMMA AppendFrame ==
  ASSUME NEW S, NEW z \in Seq(S), NEW q \in Queue, NEW first, NEW last,
         Alternates(z, q, first, last), NEW on, on \in BOOLEAN, on # last, Pfc(q, on) \in S
  PROVE  Alternates(Append(z, Pfc(q, on)), q, first, on)
  <1> DEFINE x == Pfc(q, on)
             y == Append(z, x)
             n == Len(z) + 1
             A == At(z, q)
             B == At(y, q)
  <1>1. /\ x \in Frame /\ x.pfc /\ x.q = q /\ x.on = on
    BY Kinds
  <1> HIDE DEF x
  <1>2. /\ Len(z) \in Nat /\ Len(y) = n /\ y[n] = x
        /\ \A i \in 1..Len(z) : y[i] = z[i]
    BY <1>1
  <1> HIDE DEF y
  <1>3. B = A \cup {n}
    BY <1>1, <1>2 DEF At
  <1>4. /\ \A i \in A : On(y, first, i) = On(z, first, i) /\ i \in Nat /\ i < n
        /\ On(y, first, n) = on /\ n \in Nat
    BY <1>1, <1>2 DEF At, On
  <1>5. /\ \A i \in A, j \in A : Adjacent(A, i, j) => On(z, first, i) # On(z, first, j)
        /\ \A i \in A : (\A j \in A : j <= i) => On(z, first, i) = last
    BY AlternatesMeans
  <1> HIDE DEF A, B, n
  <1>6. ASSUME NEW i \in B, NEW j \in B, Adjacent(B, i, j)
        PROVE  On(y, first, i) # On(y, first, j)
    <2>1. i \in A
      BY <1>3, <1>4, <1>6 DEF Adjacent
    <2>2. CASE j \in A
      <3>1. Adjacent(A, i, j)
        BY <1>3, <1>6 DEF Adjacent
      <3> QED BY <1>4, <1>5, <2>1, <2>2, <3>1
    <2>3. CASE j = n
      <3>1. \A k \in A : k <= i
        BY <1>3, <1>4, <1>6, <2>1, <2>3 DEF Adjacent
      <3> QED BY <1>4, <1>5, <2>1, <2>3, <3>1
    <2> QED BY <1>3, <2>2, <2>3
  <1>7. ASSUME NEW i \in B, \A j \in B : j <= i
        PROVE  On(y, first, i) = on
    <2>1. n <= i
      BY <1>3, <1>7
    <2>2. i = n
      BY <1>3, <1>4, <2>1
    <2> QED BY <1>4, <2>2
  <1>8. Alternates(y, q, first, on)
    BY <1>6, <1>7, AlternatesMeans DEF B
  <1> QED BY <1>8 DEF x, y

\* The head of queue 0 leaves; if it is a frame of q, it is the last one sent.
LEMMA TailAlternates ==
  ASSUME NEW S, NEW z \in Seq(S), z # <<>>, NEW q \in Queue, NEW first, NEW last,
         Alternates(z, q, first, last)
  PROVE  Alternates(Tail(z), q,
                    IF Head(z).pfc /\ Head(z).q = q THEN Head(z).on ELSE first, last)
  <1> DEFINE y  == Tail(z)
             is == Head(z).pfc /\ Head(z).q = q
             f  == IF is THEN Head(z).on ELSE first
             A  == At(z, q)
             B  == At(y, q)
  <1>1. /\ Len(z) \in Nat /\ Len(z) > 0 /\ Len(y) = Len(z) - 1 /\ Head(z) = z[1]
        /\ \A i \in 1..Len(y) : y[i] = z[i + 1]
    OBVIOUS
  <1> HIDE DEF y
  <1>2. /\ \A i \in B : i \in Nat
        /\ \A i \in A : i \in Nat
        /\ 0 \in A /\ 0 \in B /\ (is <=> 1 \in A)
        /\ \A i \in Nat : i # 0 => (i \in B <=> i + 1 \in A)
    BY <1>1 DEF At
  <1> HIDE DEF is
  <1>3. /\ \A i \in B : i # 0 => On(y, f, i) = On(z, first, i + 1)
        /\ On(y, f, 0) = On(z, first, IF is THEN 1 ELSE 0)
    BY <1>1 DEF At, On
  <1>4. /\ \A i \in A, j \in A : Adjacent(A, i, j) => On(z, first, i) # On(z, first, j)
        /\ \A i \in A : (\A j \in A : j <= i) => On(z, first, i) = last
    BY AlternatesMeans
  <1> DEFINE to(i) == IF i = 0 THEN (IF is THEN 1 ELSE 0) ELSE i + 1
  <1> HIDE DEF A, B, f
  <1>5. \A i \in B : to(i) \in A /\ On(y, f, i) = On(z, first, to(i)) /\ to(i) \in Nat
    BY <1>2, <1>3
  <1>6. (\A i \in B : i \in Nat) /\ (\A i \in A : i \in Nat)
    BY <1>2
  <1>7. \A i \in B, j \in B : i < j => to(i) < to(j)
    BY <1>6
  <1>8. \A a \in A : (\E i \in B : a = to(i)) \/ (is /\ a = 0)
    <2> SUFFICES ASSUME NEW a \in A PROVE (\E i \in B : a = to(i)) \/ (is /\ a = 0)
      OBVIOUS
    <2>1. CASE a = 0
      BY <1>2, <2>1
    <2>2. CASE a = 1
      BY <1>2, <2>2
    <2>3. CASE a > 1
      <3>1. a - 1 \in Nat /\ a - 1 # 0 /\ (a - 1) + 1 = a
        BY <1>6, <2>3
      <3>2. a - 1 \in B /\ to(a - 1) = a
        BY <1>2, <3>1
      <3> QED BY <3>2
    <2> QED BY <1>6, <2>1, <2>2, <2>3
  <1>9. is => \A i \in B : 0 < to(i)
    BY <1>2
  <1> HIDE DEF to
  <1>10. ASSUME NEW i \in B, NEW j \in B, Adjacent(B, i, j)
         PROVE  On(y, f, i) # On(y, f, j)
    <2>1. to(i) < to(j)
      BY <1>7, <1>10 DEF Adjacent
    <2>2. ASSUME NEW a \in A PROVE a <= to(i) \/ to(j) <= a
      <3>1. CASE is /\ a = 0
        BY <1>5, <1>9, <3>1
      <3>2. ASSUME NEW k \in B, a = to(k) PROVE a <= to(i) \/ to(j) <= a
        <4>1. k <= i \/ j <= k
          BY <1>10 DEF Adjacent
        <4> QED BY <1>5, <1>7, <1>6, <3>2, <4>1
      <3> QED BY <1>8, <3>1, <3>2
    <2>3. Adjacent(A, to(i), to(j))
      BY <2>1, <2>2 DEF Adjacent
    <2> QED BY <1>4, <1>5, <2>3
  <1>11. ASSUME NEW i \in B, \A j \in B : j <= i
         PROVE  On(y, f, i) = last
    <2>1. ASSUME NEW a \in A PROVE a <= to(i)
      BY <1>5, <1>7, <1>8, <1>9, <1>6, <1>11
    <2> QED BY <1>4, <1>5, <2>1
  <1>12. Alternates(y, q, f, last)
    BY <1>10, <1>11, AlternatesMeans DEF B
  <1> QED BY <1>12 DEF y, f, is
-----------------------------------------------------------------------------
(***************************************************************************)
(* What the calls of an event change, field by field.                      *)
(***************************************************************************)
\* t is s after Enqueue.
EnqueueOf(s, t, d, k, pkt) ==
  /\ t \in State
  /\ t.mmu = s.mmu /\ t.rr = s.rr /\ t.cur = s.cur /\ t.paused = s.paused
  /\ t.bytes = s.bytes /\ t.wire = s.wire
  /\ t.queue = [s.queue EXCEPT ![d][k] = Append(s.queue[d][k], pkt)]

LEMMA EnqueueShape ==
  ASSUME NEW s \in State, NEW d \in Port, NEW k \in AllQ, NEW pkt \in Entry
  PROVE  EnqueueOf(s, Enqueue(s, d, k, pkt), d, k, pkt)
  <1>1. Append(s.queue[d][k], pkt) \in Seq(Entry)
    BY DEF State
  <1>2. [s.queue EXCEPT ![d][k] = Append(s.queue[d][k], pkt)] \in [Port -> [AllQ -> Seq(Entry)]]
    BY <1>1 DEF State
  <1> QED BY <1>1, <1>2 DEF State, Enqueue, EnqueueOf

\* t is s after DequeueRR took the head of queue k.
DequeueOf(s, t, d, k) ==
  /\ t \in State
  /\ t.mmu = s.mmu /\ t.cur = s.cur /\ t.paused = s.paused
  /\ t.bytes = s.bytes /\ t.wire = s.wire
  /\ t.rr = IF k # 0 THEN [s.rr EXCEPT ![d] = k] ELSE s.rr
  /\ t.queue = [s.queue EXCEPT ![d][k] = Tail(s.queue[d][k])]

LEMMA DequeuedShape ==
  ASSUME NEW s \in State, NEW d \in Port, NEW k \in AllQ, s.queue[d][k] # <<>>
  PROVE  DequeueOf(s, Dequeued(s, d, k), d, k)
  <1>1. Tail(s.queue[d][k]) \in Seq(Entry)
    BY DEF State
  <1>2. [s.queue EXCEPT ![d][k] = Tail(s.queue[d][k])] \in [Port -> [AllQ -> Seq(Entry)]]
    BY <1>1 DEF State
  <1> DEFINE r == [s.rr EXCEPT ![d] = IF k # 0 THEN k ELSE s.rr[d]]
             z == [s.queue EXCEPT ![d][k] = Tail(s.queue[d][k])]
  <1>3. r \in [Port -> AllQ] /\ r = IF k # 0 THEN [s.rr EXCEPT ![d] = k] ELSE s.rr
    BY DEF State
  <1>4. Dequeued(s, d, k) = [s EXCEPT !.queue = z, !.rr = r]
    BY DEF Dequeued
  <1>5. z \in [Port -> [AllQ -> Seq(Entry)]]
    BY <1>2
  <1> HIDE DEF r, z
  <1>6. [s EXCEPT !.queue = z, !.rr = r] \in State
    <2>1. [s EXCEPT !.queue = z] \in State
      BY <1>5 DEF State
    <2> QED BY <1>3, <2>1 DEF State
  <1>7. LET t == [s EXCEPT !.queue = z, !.rr = r]
        IN  /\ t.mmu = s.mmu /\ t.cur = s.cur /\ t.paused = s.paused
            /\ t.bytes = s.bytes /\ t.wire = s.wire /\ t.rr = r /\ t.queue = z
    BY DEF State
  <1> QED BY <1>3, <1>4, <1>6, <1>7 DEF z, DequeueOf

\* t is s after TransmitStart.
StartOf(s, t, d, pkt) ==
  /\ t \in State
  /\ t.mmu = s.mmu /\ t.queue = s.queue /\ t.rr = s.rr /\ t.paused = s.paused
  /\ t.bytes = s.bytes
  /\ \A e \in Port : e # d => t.cur[e] = s.cur[e]
  /\ t.cur[d] # Idle
  /\ IF pkt \in Frame THEN t.cur[d] = pkt ELSE t.cur[d].pfc = FALSE
  /\ t.wire = IF pkt \in Frame THEN [s.wire EXCEPT ![<<d, pkt.q>>] = pkt.on] ELSE s.wire

LEMMA TransmitStartShape ==
  ASSUME NEW s \in State, NEW d \in Port, NEW pkt \in Entry
  PROVE  StartOf(s, TransmitStart(s, d, pkt), d, pkt)
  <1>1. CASE pkt \in Frame
    <2>1. TransmitStart(s, d, pkt) =
            [ mmu |-> s.mmu, queue |-> s.queue, rr |-> s.rr,
              cur |-> [s.cur EXCEPT ![d] = pkt], paused |-> s.paused, bytes |-> s.bytes,
              wire |-> [s.wire EXCEPT ![<<d, pkt.q>>] = pkt.on] ]
      BY <1>1 DEF State, TransmitStart
    <2>2. /\ [s.cur EXCEPT ![d] = pkt] \in [Port -> OnWire]
          /\ [s.wire EXCEPT ![<<d, pkt.q>>] = pkt.on] \in [PQ -> BOOLEAN]
      BY <1>1, Kinds DEF State, OnWire
    <2>3. TransmitStart(s, d, pkt) \in State
      BY <2>1, <2>2 DEF State
    <2>4. s.cur \in [Port -> OnWire] /\ pkt # Idle
      BY <1>1, Kinds DEF State
    <2> QED BY <1>1, <2>1, <2>3, <2>4 DEF StartOf
  <1>2. CASE pkt \notin Frame
    <2> DEFINE x == [pfc |-> FALSE, size |-> pkt.size]
    <2>1. x \in Sent /\ x # Idle
      <3>1. pkt.size \in Size
        BY <1>2 DEF Entry, High, Packet
      <3> QED BY <3>1, Kinds DEF Sent
    <2>2. TransmitStart(s, d, pkt) =
            [ mmu |-> s.mmu, queue |-> s.queue, rr |-> s.rr,
              cur |-> [s.cur EXCEPT ![d] = x], paused |-> s.paused, bytes |-> s.bytes,
              wire |-> s.wire ]
      BY <1>2 DEF State, TransmitStart
    <2>a. x.pfc = FALSE
      OBVIOUS
    <2> HIDE DEF x
    <2>3. [s.cur EXCEPT ![d] = x] \in [Port -> OnWire] /\ s.cur \in [Port -> OnWire]
      BY <2>1 DEF State, OnWire
    <2>4. TransmitStart(s, d, pkt) \in State
      BY <2>2, <2>3 DEF State
    <2> QED BY <1>2, <2>1, <2>2, <2>3, <2>4, <2>a DEF StartOf
  <1> QED BY <1>1, <1>2

\* t is s after SendPfc: the frame leaves at once if the device is idle, and
\* waits in queue 0 otherwise.
PfcOf(s, t, d, q, on) ==
  /\ t \in State
  /\ t.mmu = s.mmu /\ t.rr = s.rr /\ t.paused = s.paused /\ t.bytes = s.bytes
  /\ \A e \in Port : e # d => t.cur[e] = s.cur[e]
  /\ linkUp[d] => t.cur[d] # Idle
  /\ \/ /\ linkUp[d] /\ s.cur[d] = Idle /\ t.cur[d] = Pfc(q, on)
        /\ t.queue = s.queue
        /\ s.queue[d][0] = <<>>
        /\ t.wire = [s.wire EXCEPT ![<<d, q>>] = on]
     \/ /\ t.cur = s.cur
        /\ t.queue = [s.queue EXCEPT ![d][0] = Append(s.queue[d][0], Pfc(q, on))]
        /\ t.wire = s.wire

LEMMA SendPfcShape ==
  ASSUME NEW s \in State, NEW d \in Port, NEW q \in Queue, NEW on \in BOOLEAN,
         linkUp[d] /\ s.cur[d] = Idle => s.queue[d][0] = <<>>
  PROVE  PfcOf(s, SendPfc(s, d, q, on), d, q, on)
  <1> DEFINE x == Pfc(q, on)
             e == Enqueue(s, d, 0, x)
             z == s.queue[d][0]
             t == SendPfc(s, d, q, on)
  <1>1. x \in Frame /\ x \in Entry /\ x.q = q /\ x.on = on /\ 0 \in AllQ
    BY Kinds, Queues DEF Entry
  <1> HIDE DEF x
  <1>2. EnqueueOf(s, e, d, 0, x)
    BY <1>1, EnqueueShape
  <1>3. s.queue \in [Port -> [AllQ -> Seq(Entry)]] /\ z \in Seq(Entry)
    BY <1>1 DEF State
  <1>4. t = IF ~ linkUp[d] \/ e.cur[d] # Idle THEN e
            ELSE TransmitStart(Dequeued(e, d, 0), d, Head(e.queue[d][0]))
    BY DEF SendPfc, x
  <1>5. /\ e \in State /\ e.cur = s.cur
        /\ e.queue = [s.queue EXCEPT ![d][0] = Append(z, x)]
    BY <1>2 DEF EnqueueOf
  <1> HIDE DEF e, t
  <1>6. CASE ~ linkUp[d] \/ s.cur[d] # Idle
    <2>1. t = e
      BY <1>4, <1>5, <1>6
    <2> QED BY <1>2, <1>6, <2>1 DEF EnqueueOf, PfcOf, t, x
  <1>7. CASE linkUp[d] /\ s.cur[d] = Idle
    <2>1. z = <<>> /\ e.queue[d][0] = <<x>>
      <3>1. z = <<>>
        BY <1>7
      <3>2. e.queue[d][0] = Append(z, x)
        BY <1>1, <1>3, <1>5
      <3>3. Append(<<>>, x) = <<x>>
        OBVIOUS
      <3> QED BY <3>1, <3>2, <3>3
    <2> DEFINE u == Dequeued(e, d, 0)
    <2>2. Tail(e.queue[d][0]) = z /\ Head(e.queue[d][0]) = x /\ e.queue[d][0] # <<>>
      BY <2>1
    <2>3. DequeueOf(e, u, d, 0)
      BY <1>1, <1>5, <2>2, DequeuedShape
    <2>4. u.queue = s.queue
      <3>1. u.queue = [e.queue EXCEPT ![d][0] = z]
        BY <2>2, <2>3 DEF DequeueOf
      <3> HIDE DEF u, z
      <3>2. u.queue = [s.queue EXCEPT ![d][0] = z]
        BY <1>1, <1>3, <1>5, <3>1
      <3> QED BY <1>1, <1>3, <3>2 DEF z
    <2>5. t = TransmitStart(u, d, x)
      BY <1>4, <1>5, <1>7, <2>2
    <2>6. u \in State
      BY <2>3 DEF DequeueOf
    <2> HIDE DEF u
    <2>7. StartOf(u, t, d, x)
      BY <1>1, <2>5, <2>6, TransmitStartShape
    <2>8. /\ t \in State
          /\ t.mmu = s.mmu /\ t.rr = s.rr /\ t.paused = s.paused /\ t.bytes = s.bytes
          /\ t.queue = s.queue
          /\ t.wire = [s.wire EXCEPT ![<<d, q>>] = on]
          /\ t.cur[d] # Idle /\ t.cur[d] = x
          /\ \A f \in Port : f # d => t.cur[f] = s.cur[f]
      BY <1>1, <1>2, <2>3, <2>4, <2>7 DEF EnqueueOf, DequeueOf, StartOf
    <2>9. PfcOf(s, t, d, q, on)
      BY <1>7, <2>1, <2>8 DEF PfcOf, z, x
    <2> QED BY <2>9 DEF t
  <1> QED BY <1>6, <1>7
-----------------------------------------------------------------------------
(***************************************************************************)
(* The packets in the queues.                                              *)
(***************************************************************************)
AllQueues == [Port -> [AllQ -> Seq(Entry)]]

\* One queue is replaced.
LEMMA PutQueue ==
  ASSUME NEW Q \in AllQueues, NEW d \in Port, NEW k \in AllQ, NEW z \in Seq(Entry)
  PROVE  LET R == [Q EXCEPT ![d][k] = z]
         IN  /\ R \in AllQueues
             /\ R[d][k] = z
             /\ \A e \in Port, j \in AllQ : e # d \/ j # k => R[e][j] = Q[e][j]
  BY DEF AllQueues

LEMMA InPkts ==
  ASSUME NEW Q \in AllQueues, NEW b
  PROVE  b \in Pkts(Q) <=>
           \E d \in Port, k \in Queue : \E i \in 1..Len(Q[d][k]) : b = Q[d][k][i]
  <1>1. \A d \in Port, k \in Queue : DOMAIN Q[d][k] = 1..Len(Q[d][k])
    <2> SUFFICES ASSUME NEW d \in Port, NEW k \in Queue
                 PROVE  DOMAIN Q[d][k] = 1..Len(Q[d][k])
      OBVIOUS
    <2>1. Q[d][k] \in Seq(Entry)
      BY Queues DEF AllQueues
    <2> QED BY <2>1
  <1>2. b \in Pkts(Q) <=> \E d \in Port, k \in Queue : b \in ToSet(Q[d][k])
    BY DEF Pkts
  <1>3. \A d \in Port, k \in Queue :
          b \in ToSet(Q[d][k]) <=> \E i \in 1..Len(Q[d][k]) : b = Q[d][k][i]
    BY <1>1 DEF ToSet
  <1> QED BY <1>2, <1>3

\* Queue 0 holds none of them.
LEMMA PutHigh ==
  ASSUME NEW Q \in AllQueues, NEW D, Placed(Q), Unique(Q, D),
         NEW d \in Port, NEW z \in Seq(Frame \cup High)
  PROVE  LET R == [Q EXCEPT ![d][0] = z]
         IN  R \in AllQueues /\ Placed(R) /\ Unique(R, D) /\ Pkts(R) = Pkts(Q)
  <1> DEFINE R == [Q EXCEPT ![d][0] = z]
  <1>1. z \in Seq(Entry) /\ 0 \in AllQ
    BY Queues DEF Entry
  <1>2. /\ R \in AllQueues
        /\ R[d][0] = z
        /\ \A e \in Port, j \in AllQ : e # d \/ j # 0 => R[e][j] = Q[e][j]
    BY <1>1, PutQueue
  <1> HIDE DEF R
  <1>3. \A e \in Port, j \in Queue : R[e][j] = Q[e][j]
    BY <1>2, Queues
  <1>4. \A e \in Port : R[e][0] = z \/ R[e][0] = Q[e][0]
    BY <1>1, <1>2
  <1>5. Placed(R)
    <2> SUFFICES ASSUME NEW e \in Port
                 PROVE  /\ R[e][0] \in Seq(Frame \cup High)
                        /\ \A k \in Queue :
                             /\ R[e][k] \in Seq(Packet)
                             /\ \A i \in 1..Len(R[e][k]) :
                                  R[e][k][i].out = e /\ R[e][k][i].q = k /\ R[e][k][i].in # e
      BY DEF Placed
    <2> QED BY <1>3, <1>4 DEF Placed
  <1>6. Unique(R, D)
    BY <1>3 DEF Unique
  <1>7. Pkts(R) = Pkts(Q)
    BY <1>3 DEF Pkts
  <1> QED BY <1>2, <1>5, <1>6, <1>7 DEF R

\* A packet is appended to the queue of its device and priority.
LEMMA PutLast ==
  ASSUME NEW Q \in AllQueues, NEW D, Placed(Q), Unique(Q, D),
         NEW b \in Packet, b \notin Pkts(Q) \cup D, b.in # b.out
  PROVE  LET R == [Q EXCEPT ![b.out][b.q] = Append(Q[b.out][b.q], b)]
         IN  R \in AllQueues /\ Placed(R) /\ Unique(R, D) /\ Pkts(R) = Pkts(Q) \cup {b}
  <1> DEFINE d == b.out
             k == b.q
             z == Q[d][k]
             y == Append(z, b)
             R == [Q EXCEPT ![d][k] = y]
  <1>1. d \in Port /\ k \in Queue /\ k \in AllQ /\ k # 0 /\ b.in # d
    BY Queues DEF Packet
  <1>2. z \in Seq(Packet)
    BY <1>1 DEF Placed
  <1> HIDE DEF z
  <1>3. /\ y \in Seq(Packet) /\ y \in Seq(Entry)
        /\ Len(z) \in Nat /\ Len(y) = Len(z) + 1 /\ y[Len(z) + 1] = b
        /\ \A i \in 1..Len(z) : y[i] = z[i]
    BY <1>2 DEF Entry
  <1> HIDE DEF y
  <1>4. /\ R \in AllQueues
        /\ R[d][k] = y
        /\ \A e \in Port, j \in AllQ : e # d \/ j # k => R[e][j] = Q[e][j]
    BY <1>1, <1>3, PutQueue
  <1> HIDE DEF R
  <1>5. \A e \in Port : R[e][0] = Q[e][0]
    BY <1>1, <1>4, Queues
  <1>6. \A e \in Port, j \in Queue : e # d \/ j # k => R[e][j] = Q[e][j]
    BY <1>4, Queues
  <1>7. \A i \in 1..Len(y) : y[i] = b \/ (i \in 1..Len(z) /\ y[i] = z[i])
    BY <1>3
  <1>8. Placed(R)
    <2>1. \A e \in Port : R[e][0] \in Seq(Frame \cup High)
      BY <1>5 DEF Placed
    <2>2. ASSUME NEW e \in Port, NEW j \in Queue
          PROVE  /\ R[e][j] \in Seq(Packet)
                 /\ \A i \in 1..Len(R[e][j]) :
                      R[e][j][i].out = e /\ R[e][j][i].q = j /\ R[e][j][i].in # e
      <3>1. CASE e = d /\ j = k
        <4>1. \A i \in 1..Len(z) : z[i].out = d /\ z[i].q = k /\ z[i].in # d
          BY <1>1 DEF Placed, z
        <4>2. \A i \in 1..Len(y) : y[i].out = d /\ y[i].q = k /\ y[i].in # d
          BY <1>1, <1>7, <4>1
        <4> QED BY <1>3, <1>4, <3>1, <4>2
      <3>2. CASE e # d \/ j # k
        <4>1. R[e][j] = Q[e][j]
          BY <1>6, <3>2
        <4> QED BY <4>1 DEF Placed
      <3> QED BY <3>1, <3>2
    <2> QED BY <2>1, <2>2 DEF Placed
  <1>9. \A i \in 1..Len(z) : z[i] \in Pkts(Q)
    BY <1>1, InPkts DEF z
  <1>10. Unique(R, D)
    <2> SUFFICES ASSUME NEW e \in Port, NEW j \in Queue, NEW i \in 1..Len(R[e][j])
                 PROVE  /\ \A l \in 1..Len(R[e][j]) : R[e][j][i] = R[e][j][l] => i = l
                        /\ R[e][j][i] \notin D
      BY DEF Unique
    <2>1. CASE e = d /\ j = k
      <3>1. /\ \A g \in 1..Len(z), l \in 1..Len(z) : z[g] = z[l] => g = l
            /\ \A g \in 1..Len(z) : z[g] \notin D
        BY <1>1 DEF Unique, z
      <3>2. \A g \in 1..Len(z) : z[g] # b
        BY <1>9
      <3>3. \A g \in 1..Len(y), l \in 1..Len(y) : y[g] = y[l] => g = l
        <4> SUFFICES ASSUME NEW g \in 1..Len(y), NEW l \in 1..Len(y), y[g] = y[l]
                     PROVE  g = l
          OBVIOUS
        <4>1. CASE g \in 1..Len(z) /\ l \in 1..Len(z)
          BY <1>3, <3>1, <4>1
        <4>2. CASE g = Len(z) + 1
          BY <1>3, <3>2, <4>2
        <4>3. CASE l = Len(z) + 1
          BY <1>3, <3>2, <4>3
        <4> QED BY <1>3, <4>1, <4>2, <4>3
      <3>4. \A g \in 1..Len(y) : y[g] \notin D
        BY <1>7, <3>1
      <3> QED BY <1>4, <2>1, <3>3, <3>4
    <2>2. CASE e # d \/ j # k
      <3>1. R[e][j] = Q[e][j]
        BY <1>6, <2>2
      <3> QED BY <3>1 DEF Unique
    <2> QED BY <2>1, <2>2
  <1>11. Pkts(R) = Pkts(Q) \cup {b}
    <2>1. ASSUME NEW x \in Pkts(R) PROVE x \in Pkts(Q) \cup {b}
      <3>1. PICK e \in Port, j \in Queue : \E i \in 1..Len(R[e][j]) : x = R[e][j][i]
        BY <1>4, <2>1, InPkts
      <3>2. PICK i \in 1..Len(R[e][j]) : x = R[e][j][i]
        BY <3>1
      <3>3. CASE e = d /\ j = k
        BY <1>4, <1>7, <1>9, <3>2, <3>3
      <3>4. CASE e # d \/ j # k
        <4>1. R[e][j] = Q[e][j]
          BY <1>6, <3>4
        <4> QED BY <3>2, <4>1, InPkts
      <3> QED BY <3>3, <3>4
    <2>2. b \in Pkts(R)
      <3>1. Len(y) \in 1..Len(y) /\ b = R[d][k][Len(y)]
        BY <1>3, <1>4
      <3>2. Len(y) \in 1..Len(R[d][k])
        BY <1>4, <3>1
      <3> QED BY <1>1, <1>4, <3>1, <3>2, InPkts
    <2>3. ASSUME NEW x \in Pkts(Q) PROVE x \in Pkts(R)
      <3>1. PICK e \in Port, j \in Queue : \E i \in 1..Len(Q[e][j]) : x = Q[e][j][i]
        BY <2>3, InPkts
      <3>2. PICK i \in 1..Len(Q[e][j]) : x = Q[e][j][i]
        BY <3>1
      <3>3. CASE e = d /\ j = k
        <4>1. i \in 1..Len(z) /\ x = z[i]
          BY <3>2, <3>3 DEF z
        <4>2. i \in 1..Len(R[d][k]) /\ x = R[d][k][i]
          BY <1>3, <1>4, <4>1
        <4> QED BY <1>1, <1>4, <4>2, InPkts
      <3>4. CASE e # d \/ j # k
        <4>1. R[e][j] = Q[e][j]
          BY <1>6, <3>4
        <4> QED BY <1>4, <3>2, <4>1, InPkts
      <3> QED BY <3>3, <3>4
    <2> QED BY <2>1, <2>2, <2>3
  <1> QED BY <1>4, <1>8, <1>10, <1>11 DEF R, y, z

\* From Q to R packet b left queue k of device d.
LeftOf(Q, R, D, d, k, b) ==
  /\ R \in AllQueues /\ Placed(R) /\ Unique(R, D)
  /\ b \in Pkts(Q) /\ b \notin D /\ Pkts(R) = Pkts(Q) \ {b}
  /\ b \in Packet /\ b.out = d /\ b.q = k /\ b.in # d

\* The head of a queue leaves.
LEMMA PutTail ==
  ASSUME NEW Q \in AllQueues, NEW D, Placed(Q), Unique(Q, D),
         NEW d \in Port, NEW k \in Queue, Q[d][k] # <<>>
  PROVE  LeftOf(Q, [Q EXCEPT ![d][k] = Tail(Q[d][k])], D, d, k, Head(Q[d][k]))
  <1> DEFINE z == Q[d][k]
             y == Tail(z)
             b == Head(z)
             R == [Q EXCEPT ![d][k] = y]
  <1>1. k \in AllQ /\ k # 0
    BY Queues
  <1>2. z \in Seq(Packet) /\ z # <<>>
    BY DEF Placed
  <1> HIDE DEF z
  <1>3. /\ y \in Seq(Packet) /\ y \in Seq(Entry) /\ b \in Packet
        /\ Len(z) \in Nat /\ Len(z) > 0 /\ Len(y) = Len(z) - 1 /\ b = z[1]
        /\ \A i \in 1..Len(y) : y[i] = z[i + 1]
    BY <1>2 DEF Entry
  <1> HIDE DEF y, b
  <1>4. /\ R \in AllQueues
        /\ R[d][k] = y
        /\ \A e \in Port, j \in AllQ : e # d \/ j # k => R[e][j] = Q[e][j]
    BY <1>1, <1>3, PutQueue
  <1> HIDE DEF R
  <1>5. \A e \in Port : R[e][0] = Q[e][0]
    BY <1>1, <1>4, Queues
  <1>6. \A e \in Port, j \in Queue : e # d \/ j # k => R[e][j] = Q[e][j]
    BY <1>4, Queues
  <1>7. \A i \in 1..Len(y) : i + 1 \in 1..Len(z) /\ y[i] = z[i + 1]
    BY <1>3
  <1>8. \A i \in 1..Len(z) : z[i].out = d /\ z[i].q = k /\ z[i].in # d
    BY DEF Placed, z
  <1>9. /\ \A g \in 1..Len(z), l \in 1..Len(z) : z[g] = z[l] => g = l
        /\ \A g \in 1..Len(z) : z[g] \notin D
    BY DEF Unique, z
  <1>10. 1 \in 1..Len(z)
    BY <1>3
  <1>11. Placed(R)
    <2>1. \A e \in Port : R[e][0] \in Seq(Frame \cup High)
      BY <1>5 DEF Placed
    <2>2. ASSUME NEW e \in Port, NEW j \in Queue
          PROVE  /\ R[e][j] \in Seq(Packet)
                 /\ \A i \in 1..Len(R[e][j]) :
                      R[e][j][i].out = e /\ R[e][j][i].q = j /\ R[e][j][i].in # e
      <3>1. CASE e = d /\ j = k
        <4>1. \A i \in 1..Len(y) : y[i].out = d /\ y[i].q = k /\ y[i].in # d
          BY <1>7, <1>8
        <4> QED BY <1>3, <1>4, <3>1, <4>1
      <3>2. CASE e # d \/ j # k
        <4>1. R[e][j] = Q[e][j]
          BY <1>6, <3>2
        <4> QED BY <4>1 DEF Placed
      <3> QED BY <3>1, <3>2
    <2> QED BY <2>1, <2>2 DEF Placed
  <1>12. Unique(R, D)
    <2> SUFFICES ASSUME NEW e \in Port, NEW j \in Queue, NEW i \in 1..Len(R[e][j])
                 PROVE  /\ \A l \in 1..Len(R[e][j]) : R[e][j][i] = R[e][j][l] => i = l
                        /\ R[e][j][i] \notin D
      BY DEF Unique
    <2>1. CASE e = d /\ j = k
      <3>1. \A g \in 1..Len(y), l \in 1..Len(y) : y[g] = y[l] => g = l
        <4> SUFFICES ASSUME NEW g \in 1..Len(y), NEW l \in 1..Len(y), y[g] = y[l]
                     PROVE  g = l
          OBVIOUS
        <4>1. g + 1 = l + 1
          BY <1>7, <1>9
        <4> QED BY <1>3, <4>1
      <3>2. \A g \in 1..Len(y) : y[g] \notin D
        BY <1>7, <1>9
      <3> QED BY <1>4, <2>1, <3>1, <3>2
    <2>2. CASE e # d \/ j # k
      <3>1. R[e][j] = Q[e][j]
        BY <1>6, <2>2
      <3> QED BY <3>1 DEF Unique
    <2> QED BY <2>1, <2>2
  <1>13. b \in Pkts(Q)
    <2>1. 1 \in 1..Len(Q[d][k]) /\ b = Q[d][k][1]
      BY <1>3, <1>10 DEF z
    <2> QED BY <2>1, InPkts
  <1>14. Pkts(R) = Pkts(Q) \ {b}
    <2>1. ASSUME NEW x \in Pkts(R) PROVE x \in Pkts(Q) /\ x # b
      <3>1. PICK e \in Port, j \in Queue : \E i \in 1..Len(R[e][j]) : x = R[e][j][i]
        BY <1>4, <2>1, InPkts
      <3>2. PICK i \in 1..Len(R[e][j]) : x = R[e][j][i]
        BY <3>1
      <3>3. CASE e = d /\ j = k
        <4>1. i \in 1..Len(y) /\ x = y[i]
          BY <1>4, <3>2, <3>3
        <4>2. i + 1 \in 1..Len(z) /\ x = z[i + 1]
          BY <1>7, <4>1
        <4>3. x # b
          <5>1. i + 1 # 1
            BY <4>1
          <5> QED BY <1>3, <1>9, <1>10, <4>2, <5>1
        <4>4. i + 1 \in 1..Len(Q[d][k]) /\ x = Q[d][k][i + 1]
          BY <4>2 DEF z
        <4> QED BY <4>3, <4>4, InPkts
      <3>4. CASE e # d \/ j # k
        <4>1. R[e][j] = Q[e][j]
          BY <1>6, <3>4
        <4>2. i \in 1..Len(Q[e][j]) /\ x = Q[e][j][i]
          BY <3>2, <4>1
        <4>3. x.out = e /\ x.q = j
          BY <4>2 DEF Placed
        <4>4. b.out = d /\ b.q = k
          BY <1>3, <1>8, <1>10
        <4> QED BY <3>4, <4>2, <4>3, <4>4, InPkts
      <3> QED BY <3>3, <3>4
    <2>2. ASSUME NEW x \in Pkts(Q), x # b PROVE x \in Pkts(R)
      <3>1. PICK e \in Port, j \in Queue : \E i \in 1..Len(Q[e][j]) : x = Q[e][j][i]
        BY <2>2, InPkts
      <3>2. PICK i \in 1..Len(Q[e][j]) : x = Q[e][j][i]
        BY <3>1
      <3>3. CASE e = d /\ j = k
        <4>1. i \in 1..Len(z) /\ x = z[i] /\ i # 1
          BY <1>3, <2>2, <3>2, <3>3 DEF z
        <4>2. i - 1 \in 1..Len(y) /\ (i - 1) + 1 = i
          BY <1>3, <4>1
        <4>3. x = y[i - 1]
          BY <1>7, <4>1, <4>2
        <4>4. i - 1 \in 1..Len(R[d][k]) /\ x = R[d][k][i - 1]
          BY <1>4, <4>2, <4>3
        <4> QED BY <1>4, <4>4, InPkts
      <3>4. CASE e # d \/ j # k
        <4>1. R[e][j] = Q[e][j]
          BY <1>6, <3>4
        <4> QED BY <1>4, <3>2, <4>1, InPkts
      <3> QED BY <3>3, <3>4
    <2> QED BY <2>1, <2>2
  <1>15. b.out = d /\ b.q = k /\ b.in # d /\ b \notin D
    BY <1>3, <1>8, <1>9, <1>10
  <1>16. LeftOf(Q, R, D, d, k, b)
    BY <1>3, <1>4, <1>11, <1>12, <1>13, <1>14, <1>15 DEF LeftOf
  <1> QED BY <1>16 DEF R, y, b, z

(***************************************************************************)
(* m_bytes.                                                                *)
(***************************************************************************)
\* A packet more of one flow.
LEMMA AlongMore ==
  ASSUME NEW H, H \subseteq Packet, IsFiniteSet(CellsOf(H)), NEW b \in Packet, b \notin H
  PROVE  /\ BytesOf(Along(H \cup {b}, b.in, b.out, b.q)) =
              BytesOf(Along(H, b.in, b.out, b.q)) + b.size
         /\ \A in \in Port, out \in Port, q \in Queue :
              /\ BytesOf(Along(H, in, out, q)) \in Nat
              /\ in # b.in \/ out # b.out \/ q # b.q =>
                   Along(H \cup {b}, in, out, q) = Along(H, in, out, q)
  <1>1. ASSUME NEW in, NEW out, NEW q
        PROVE  /\ Along(H, in, out, q) \subseteq Packet
               /\ IsFiniteSet(CellsOf(Along(H, in, out, q)))
               /\ BytesOf(Along(H, in, out, q)) \in Nat
    <2>1. Along(H, in, out, q) \in SUBSET H
      BY DEF Along
    <2>2. IsFiniteSet(CellsOf(Along(H, in, out, q)))
      BY <2>1, FewerPackets
    <2> QED BY <2>1, <2>2, FS_CardinalityType DEF BytesOf
  <1>2. Along(H \cup {b}, b.in, b.out, b.q) = Along(H, b.in, b.out, b.q) \cup {b}
    BY DEF Along
  <1>3. b \notin Along(H, b.in, b.out, b.q)
    BY DEF Along
  <1>4. BytesOf(Along(H, b.in, b.out, b.q) \cup {b}) = BytesOf(Along(H, b.in, b.out, b.q)) + b.size
    BY <1>1, <1>3, AddPacket
  <1>5. \A in \in Port, out \in Port, q \in Queue :
          in # b.in \/ out # b.out \/ q # b.q =>
            Along(H \cup {b}, in, out, q) = Along(H, in, out, q)
    BY DEF Along
  <1> QED BY <1>1, <1>2, <1>4, <1>5

LEMMA LedgerMore ==
  ASSUME NEW H, H \subseteq Packet, IsFiniteSet(CellsOf(H)), NEW b \in Packet, b \notin H,
         NEW f \in [Port \X Port \X AllQ -> Int], Ledger(f, H)
  PROVE  Ledger([f EXCEPT ![<<b.in, b.out, b.q>>] = f[<<b.in, b.out, b.q>>] + b.size],
                H \cup {b})
  <1> DEFINE x == <<b.in, b.out, b.q>>
             g == [f EXCEPT ![x] = f[x] + b.size]
  <1>1. b.in \in Port /\ b.out \in Port /\ b.q \in Queue
    BY DEF Packet
  <1>2. x \in Port \X Port \X AllQ
    BY <1>1, Queues
  <1>a. /\ BytesOf(Along(H \cup {b}, b.in, b.out, b.q)) =
             BytesOf(Along(H, b.in, b.out, b.q)) + b.size
        /\ \A in \in Port, out \in Port, q \in Queue :
             /\ BytesOf(Along(H, in, out, q)) \in Nat
             /\ in # b.in \/ out # b.out \/ q # b.q =>
                  Along(H \cup {b}, in, out, q) = Along(H, in, out, q)
    BY AlongMore
  <1> SUFFICES ASSUME NEW in \in Port, NEW out \in Port, NEW q \in Queue
               PROVE  g[<<in, out, q>>] = BytesOf(Along(H \cup {b}, in, out, q))
    BY DEF Ledger
  <1>3. f[<<in, out, q>>] = BytesOf(Along(H, in, out, q)) /\ <<in, out, q>> \in Port \X Port \X AllQ
    BY Queues DEF Ledger
  <1>4. CASE in = b.in /\ out = b.out /\ q = b.q
    <2>1. g[<<in, out, q>>] = f[<<in, out, q>>] + b.size
      BY <1>2, <1>4
    <2> QED BY <1>a, <1>3, <1>4, <2>1
  <1>5. CASE in # b.in \/ out # b.out \/ q # b.q
    <2>1. <<in, out, q>> # x
      BY <1>5
    <2>2. g[<<in, out, q>>] = f[<<in, out, q>>]
      BY <1>2, <1>3, <2>1
    <2> QED BY <1>a, <1>3, <1>5, <2>2
  <1> QED BY <1>4, <1>5

LEMMA LedgerLess ==
  ASSUME NEW H, H \subseteq Packet, IsFiniteSet(CellsOf(H)), NEW b \in H,
         NEW f \in [Port \X Port \X AllQ -> Int], Ledger(f, H)
  PROVE  Ledger([f EXCEPT ![<<b.in, b.out, b.q>>] = f[<<b.in, b.out, b.q>>] - b.size],
                H \ {b})
  <1> DEFINE x == <<b.in, b.out, b.q>>
             g == [f EXCEPT ![x] = f[x] - b.size]
             G == H \ {b}
  <1>1. b \in Packet /\ b.in \in Port /\ b.out \in Port /\ b.q \in Queue /\ b.size \in Nat
    BY SizeAssumption DEF Packet
  <1>2. x \in Port \X Port \X AllQ
    BY <1>1, Queues
  <1>3. G \subseteq Packet /\ G \in SUBSET H /\ b \notin G /\ G \cup {b} = H
    OBVIOUS
  <1>4. IsFiniteSet(CellsOf(G))
    BY <1>3, FewerPackets
  <1> HIDE DEF G
  <1>a. /\ BytesOf(Along(G \cup {b}, b.in, b.out, b.q)) =
             BytesOf(Along(G, b.in, b.out, b.q)) + b.size
        /\ \A in \in Port, out \in Port, q \in Queue :
             /\ BytesOf(Along(G, in, out, q)) \in Nat
             /\ in # b.in \/ out # b.out \/ q # b.q =>
                  Along(G \cup {b}, in, out, q) = Along(G, in, out, q)
    BY <1>1, <1>3, <1>4, AlongMore
  <1>5. /\ BytesOf(Along(H, b.in, b.out, b.q)) = BytesOf(Along(G, b.in, b.out, b.q)) + b.size
        /\ \A in \in Port, out \in Port, q \in Queue :
             /\ BytesOf(Along(G, in, out, q)) \in Nat
             /\ in # b.in \/ out # b.out \/ q # b.q => Along(H, in, out, q) = Along(G, in, out, q)
    BY <1>3, <1>a
  <1>6. ASSUME NEW in \in Port, NEW out \in Port, NEW q \in Queue
        PROVE  g[<<in, out, q>>] = BytesOf(Along(G, in, out, q))
    <2>1. f[<<in, out, q>>] = BytesOf(Along(H, in, out, q)) /\ <<in, out, q>> \in Port \X Port \X AllQ
      BY Queues DEF Ledger
    <2>2. CASE in = b.in /\ out = b.out /\ q = b.q
      <3>1. g[<<in, out, q>>] = f[<<in, out, q>>] - b.size
        BY <1>2, <2>2
      <3>2. BytesOf(Along(G, in, out, q)) \in Nat
        BY <1>5
      <3> QED BY <1>1, <1>5, <2>1, <2>2, <3>1, <3>2
    <2>3. CASE in # b.in \/ out # b.out \/ q # b.q
      <3>1. <<in, out, q>> # x
        BY <2>3
      <3>2. g[<<in, out, q>>] = f[<<in, out, q>>]
        BY <1>2, <2>1, <3>1
      <3> QED BY <1>5, <2>1, <2>3, <3>2
    <2> QED BY <2>2, <2>3
  <1>7. Ledger(g, G)
    BY <1>6 DEF Ledger
  <1> QED BY <1>7 DEF G
-----------------------------------------------------------------------------
(***************************************************************************)
(* A PAUSE or a RESUME of device d.                                        *)
(***************************************************************************)
\* What a device transmits changed from c to cn, and the last frame of priority j
\* it sent from w to wn: only an idle device starts to transmit, and a frame it
\* starts with says the opposite of the last one.
Moves(c, cn, w, wn, j) ==
  \/ cn = c /\ wn = w
  \/ /\ c = Idle /\ cn # Idle
     /\ IF cn.pfc /\ cn.q = j THEN wn = cn.on /\ wn # w ELSE wn = w

Starts(s, t) ==
  \A e \in Port, j \in Queue :
    Moves(s.cur[e], t.cur[e], s.wire[<<e, j>>], t.wire[<<e, j>>], j)

\* A device that transmits does not start again.
LEMMA MovesThen ==
  ASSUME NEW a, NEW b, NEW c, NEW x, NEW y, NEW z, NEW j, Moves(a, b, x, y, j), Moves(b, c, y, z, j)
  PROVE  Moves(a, c, x, z, j)
  <1>1. CASE b = a /\ y = x
    BY <1>1
  <1>2. CASE c = b /\ z = y
    BY <1>2
  <1> QED BY <1>1, <1>2 DEF Moves

LEMMA StartsThen ==
  ASSUME NEW s, NEW v, NEW t, Starts(s, v), Starts(v, t) PROVE Starts(s, t)
  <1> SUFFICES ASSUME NEW e \in Port, NEW j \in Queue
               PROVE  Moves(s.cur[e], t.cur[e], s.wire[<<e, j>>], t.wire[<<e, j>>], j)
    BY Zenon DEF Starts
  <1>1. /\ Moves(s.cur[e], v.cur[e], s.wire[<<e, j>>], v.wire[<<e, j>>], j)
        /\ Moves(v.cur[e], t.cur[e], v.wire[<<e, j>>], t.wire[<<e, j>>], j)
    BY Zenon DEF Starts
  <1> QED BY <1>1, MovesThen

LEMMA StartsNothing == ASSUME NEW s, NEW t, t.cur = s.cur, t.wire = s.wire PROVE Starts(s, t)
  BY DEF Starts, Moves

\* With no frame queued, the last one sent is the last one.
LEMMA EmptyAgrees ==
  ASSUME NEW j \in Queue, NEW first, NEW last, Alternates(<<>>, j, first, last)
  PROVE  first = last
  <1>1. At(<<>>, j) = {0} /\ On(<<>>, first, 0) = first
    BY DEF At, On
  <1>2. \A i \in At(<<>>, j) :
          (\A k \in At(<<>>, j) : k <= i) => On(<<>>, first, i) = last
    BY AlternatesMeans
  <1>3. 0 <= 0
    OBVIOUS
  <1> QED BY <1>1, <1>2, <1>3

\* A frame at the head of queue 0 says the opposite of the last one sent.
LEMMA HeadDiffers ==
  ASSUME NEW S, NEW z \in Seq(S), z # <<>>, NEW j \in Queue, NEW first, NEW last,
         Alternates(z, j, first, last), Head(z).pfc, Head(z).q = j
  PROVE  Head(z).on # first
  <1>1. Len(z) \in Nat /\ Len(z) > 0 /\ Head(z) = z[1]
    OBVIOUS
  <1>2. 0 \in At(z, j) /\ 1 \in At(z, j) /\ \A k \in At(z, j) : k \in Nat
    BY <1>1 DEF At
  <1>3. Adjacent(At(z, j), 0, 1)
    BY <1>2 DEF Adjacent
  <1>4. On(z, first, 0) # On(z, first, 1)
    BY <1>2, <1>3, AlternatesMeans
  <1>5. On(z, first, 0) = first /\ On(z, first, 1) = z[1].on
    BY DEF On
  <1> QED BY <1>1, <1>4, <1>5

\* The frames of queue 0 match the pauses P.
FramesMatch(s, P) ==
  \A e \in Port, j \in Queue : linkUp[e] =>
    Alternates(s.queue[e][0], j, s.wire[<<e, j>>], P[<<e, j>>])

\* From s to t at most a frame of d was added; the frames match the pauses again.
Announced(s, t, D, d) ==
  /\ t \in State /\ Placed(t.queue) /\ Unique(t.queue, D)
  /\ Pkts(t.queue) = Pkts(s.queue)
  /\ t.mmu = s.mmu /\ t.rr = s.rr /\ t.paused = s.paused /\ t.bytes = s.bytes
  /\ \A e \in Port, k \in Queue : t.queue[e][k] = s.queue[e][k]
  /\ \A e \in Port : e # d => t.cur[e] = s.cur[e] /\ t.queue[e][0] = s.queue[e][0]
  /\ FramesAlternate(t)
  /\ \A e \in Port : Awake(s, e) => Awake(t, e)
  /\ Starts(s, t)

\* The MMU has changed its mind, and SendPfc tells the neighbour.
LEMMA Announce ==
  ASSUME NEW s \in State, NEW D, Placed(s.queue), Unique(s.queue, D),
         NEW d \in Port, Awake(s, d), NEW q \in Queue, NEW on \in BOOLEAN,
         NEW old \in [PQ -> BOOLEAN], FramesMatch(s, old),
         old[<<d, q>>] # on, s.mmu.paused = [old EXCEPT ![<<d, q>>] = on]
  PROVE  Announced(s, SendPfc(s, d, q, on), D, d)
  <1> DEFINE t == SendPfc(s, d, q, on)
             x == Pfc(q, on)
  <1>1. PfcOf(s, t, d, q, on)
    <2>1. linkUp[d] /\ s.cur[d] = Idle => s.queue[d][0] = <<>>
      BY DEF Awake
    <2> QED BY <2>1, SendPfcShape
  <1> HIDE DEF t
  <1>2. /\ t \in State
        /\ t.mmu = s.mmu /\ t.rr = s.rr /\ t.paused = s.paused /\ t.bytes = s.bytes
        /\ \A e \in Port : e # d => t.cur[e] = s.cur[e]
        /\ linkUp[d] => t.cur[d] # Idle
    BY <1>1 DEF PfcOf
  <1>3. s.queue \in AllQueues /\ t.queue \in AllQueues /\ s.wire \in [PQ -> BOOLEAN]
    BY <1>2 DEF State, AllQueues
  <1>4. /\ x \in Frame \cup High /\ x.pfc /\ x.q = q /\ 0 \in AllQ
        /\ s.queue[d][0] \in Seq(Frame \cup High)
    BY Kinds, Queues DEF Placed
  <1> DEFINE y == Append(s.queue[d][0], x)
             R == [s.queue EXCEPT ![d][0] = y]
  <1>5. y \in Seq(Frame \cup High) /\ y \in Seq(Entry)
    BY <1>4 DEF Entry
  <1>6. <<d, q>> \in PQ /\ \A e \in Port, j \in Queue : <<e, j>> \in PQ
    BY DEF PQ
  <1>7. /\ old[<<d, q>>] \in BOOLEAN /\ s.mmu.paused[<<d, q>>] = on
        /\ \A e \in Port, j \in Queue : e # d \/ j # q =>
             s.mmu.paused[<<e, j>>] = old[<<e, j>>]
    BY <1>6
  <1>8. CASE t.queue = R /\ t.wire = s.wire /\ t.cur = s.cur
    <2> HIDE DEF y
    <2>1. R \in AllQueues /\ Placed(R) /\ Unique(R, D) /\ Pkts(R) = Pkts(s.queue)
      BY <1>3, <1>5, PutHigh
    <2>2. /\ R[d][0] = y
          /\ \A e \in Port, j \in AllQ : e # d \/ j # 0 => R[e][j] = s.queue[e][j]
      BY <1>3, <1>4, <1>5 DEF AllQueues
    <2> HIDE DEF R
    <2>3. /\ \A e \in Port, k \in Queue : t.queue[e][k] = s.queue[e][k]
          /\ \A e \in Port : e # d => t.queue[e][0] = s.queue[e][0]
          /\ t.queue[d][0] = y
      BY <1>8, <2>2, Queues
    <2>4. ASSUME NEW e \in Port, NEW j \in Queue, linkUp[e]
          PROVE  Alternates(t.queue[e][0], j, t.wire[<<e, j>>], t.mmu.paused[<<e, j>>])
      <3>0. Alternates(s.queue[e][0], j, s.wire[<<e, j>>], old[<<e, j>>])
        BY <2>4 DEF FramesMatch
      <3>a. t.wire[<<e, j>>] = s.wire[<<e, j>>] /\ t.mmu.paused[<<e, j>>] = s.mmu.paused[<<e, j>>]
        BY <1>2, <1>8
      <3>1. CASE e # d
        <4>1. t.queue[e][0] = s.queue[e][0] /\ s.mmu.paused[<<e, j>>] = old[<<e, j>>]
          BY <1>7, <2>3, <3>1
        <4> QED BY <3>a, <3>0, <4>1, Zenon
      <3>2. CASE e = d /\ j # q
        <4>1. Alternates(y, j, s.wire[<<e, j>>], old[<<e, j>>])
          BY <1>4, <3>0, <3>2, AppendOther DEF y
        <4>2. t.queue[e][0] = y /\ s.mmu.paused[<<e, j>>] = old[<<e, j>>]
          BY <1>7, <2>3, <3>2
        <4> QED BY <3>a, <4>1, <4>2, Zenon
      <3>3. CASE e = d /\ j = q
        <4>1. Alternates(s.queue[d][0], q, s.wire[<<d, q>>], old[<<d, q>>])
          BY <3>0, <3>3, Zenon
        <4>2. Alternates(y, q, s.wire[<<d, q>>], on)
          <5>1. on # old[<<d, q>>] /\ old[<<d, q>>] \in BOOLEAN
            BY <1>7
          <5> DEFINE z == s.queue[d][0]
                     w == s.wire[<<d, q>>]
                     o == old[<<d, q>>]
          <5>2. z \in Seq(Frame \cup High) /\ Alternates(z, q, w, o) /\ on # o /\ o \in BOOLEAN
            BY <1>4, <4>1, <5>1, Zenon
          <5> HIDE DEF z, w, o
          <5>3. Alternates(Append(z, Pfc(q, on)), q, w, on)
            <6>1. \A o1, on1 : on1 \in BOOLEAN /\ Alternates(z, q, w, o1) /\ on1 # o1 =>
                    Alternates(Append(z, Pfc(q, on1)), q, w, on1)
              BY <5>2, AppendFrame, Kinds
            <6> QED BY <5>2, <6>1
          <5> QED BY <5>3, Zenon DEF y, z, w, x
        <4>3. t.queue[e][0] = y /\ s.mmu.paused[<<d, q>>] = on
          BY <1>7, <2>3, <3>3
        <4> QED BY <3>a, <3>3, <4>2, <4>3, Zenon
      <3> QED BY <3>1, <3>2, <3>3
    <2>5. FramesAlternate(t)
      BY <2>4 DEF FramesAlternate
    <2>6. \A e \in Port : Awake(s, e) => Awake(t, e)
      BY <1>2, <2>3 DEF Awake
    <2>7. Starts(s, t)
      BY <1>8, StartsNothing
    <2> QED BY <1>2, <1>8, <2>1, <2>3, <2>5, <2>6, <2>7 DEF Announced, t
  <1>9. CASE /\ t.queue = s.queue /\ s.queue[d][0] = <<>>
             /\ t.wire = [s.wire EXCEPT ![<<d, q>>] = on]
             /\ linkUp[d] /\ s.cur[d] = Idle /\ t.cur[d] = x
    <2>1. ASSUME NEW e \in Port, NEW j \in Queue, linkUp[e]
          PROVE  Alternates(t.queue[e][0], j, t.wire[<<e, j>>], t.mmu.paused[<<e, j>>])
      <3>0. Alternates(s.queue[e][0], j, s.wire[<<e, j>>], old[<<e, j>>])
        BY <2>1 DEF FramesMatch
      <3>1. CASE e # d \/ j # q
        <4>1. <<e, j>> # <<d, q>>
          BY <3>1
        <4>2. t.wire[<<e, j>>] = s.wire[<<e, j>>]
          BY <1>3, <1>6, <1>9, <4>1
        <4>3. t.mmu.paused[<<e, j>>] = old[<<e, j>>] /\ t.queue[e][0] = s.queue[e][0]
          <5>1. s.mmu.paused[<<e, j>>] = old[<<e, j>>]
            BY <1>7, <3>1, Zenon
          <5> QED BY <1>2, <1>9, <5>1, Zenon
        <4> QED BY <3>0, <4>2, <4>3, Zenon
      <3>2. CASE e = d /\ j = q
        <4>1. t.queue[e][0] = <<>> /\ t.wire[<<d, q>>] = on
          BY <1>3, <1>6, <1>9, <3>2
        <4>2. At(<<>>, q) = {0} /\ On(<<>>, on, 0) = on
          BY DEF At, On
        <4>3. \A i \in {0}, k \in {0} : ~ Adjacent({0}, i, k)
          BY DEF Adjacent
        <4>4. Alternates(<<>>, q, on, on)
          BY <4>2, <4>3, AlternatesMeans
        <4> QED BY <1>2, <1>7, <3>2, <4>1, <4>4
      <3> QED BY <3>1, <3>2
    <2>2. FramesAlternate(t)
      BY <2>1 DEF FramesAlternate
    <2>3. \A e \in Port : Awake(s, e) => Awake(t, e)
      BY <1>2, <1>9 DEF Awake
    <2>4. s.wire[<<d, q>>] = old[<<d, q>>]
      <3>1. Alternates(s.queue[d][0], q, s.wire[<<d, q>>], old[<<d, q>>])
        BY <1>9 DEF FramesMatch
      <3>2. Alternates(<<>>, q, s.wire[<<d, q>>], old[<<d, q>>])
        BY <1>9, <3>1, Zenon
      <3> QED BY <3>2, EmptyAgrees, Zenon
    <2>5. ASSUME NEW e \in Port, NEW j \in Queue
          PROVE  Moves(s.cur[e], t.cur[e], s.wire[<<e, j>>], t.wire[<<e, j>>], j)
      <3>1. CASE e # d
        <4>1. t.cur[e] = s.cur[e] /\ <<e, j>> # <<d, q>>
          BY <1>2, <3>1
        <4>2. t.wire[<<e, j>>] = s.wire[<<e, j>>]
          BY <1>3, <1>6, <1>9, <4>1
        <4> QED BY <4>1, <4>2, Zenon DEF Moves
      <3>2. CASE e = d
        <4>1. s.cur[e] = Idle /\ t.cur[e] = x /\ x # Idle
          BY <1>9, <3>2, Kinds
        <4>2. CASE j = q
          <5>1. t.wire[<<e, j>>] = on
            BY <1>3, <1>6, <1>9, <3>2, <4>2
          <5>2. s.wire[<<e, j>>] # on
            BY <2>4, <3>2, <4>2
          <5>3. x.pfc /\ x.q = j /\ x.on = on
            BY <4>2, Kinds
          <5> QED BY <4>1, <5>1, <5>2, <5>3, Zenon DEF Moves
        <4>3. CASE j # q
          <5>1. <<e, j>> # <<d, q>> /\ x.q # j
            BY <1>4, <4>3
          <5>2. t.wire[<<e, j>>] = s.wire[<<e, j>>]
            BY <1>3, <1>6, <1>9, <5>1
          <5> QED BY <4>1, <5>1, <5>2, Zenon DEF Moves
        <4> QED BY <4>2, <4>3
      <3> QED BY <3>1, <3>2
    <2>6. Starts(s, t)
      BY <2>5, Zenon DEF Starts
    <2> QED BY <1>2, <1>9, <2>2, <2>3, <2>6 DEF Announced, t
  <1> QED BY <1>1, <1>8, <1>9 DEF PfcOf

\* The MMU has not, and nothing is sent.
LEMMA AnnounceNothing ==
  ASSUME NEW s \in State, NEW D, Placed(s.queue), Unique(s.queue, D),
         NEW d \in Port, FramesMatch(s, s.mmu.paused)
  PROVE  Announced(s, s, D, d)
  BY StartsNothing DEF Announced, FramesMatch, FramesAlternate
-----------------------------------------------------------------------------
(***************************************************************************)
(* DequeueAndTransmit.                                                     *)
(***************************************************************************)
\* At most one packet has left, and the MMU knows.
Released(s, t, D) ==
  \/ t.mmu = s.mmu /\ Pkts(t.queue) = Pkts(s.queue)
  \/ \E b \in Pkts(s.queue) :
       /\ t.mmu = Leave(s.mmu, b)
       /\ Pkts(t.queue) \cup D = (Pkts(s.queue) \cup D) \ {b}

\* A queue served twice in a row was the only one.
InTurn(s, t) ==
  \A e \in Port, k \in Queue : s.rr[e] = k /\ Len(t.queue[e][k]) < Len(s.queue[e][k]) =>
    \A j \in Queue \ {k} : s.paused[e][j] \/ s.queue[e][j] = <<>>

\* What DequeueAndTransmit establishes.
Served(s, t, D) ==
  /\ Good(t, D)
  /\ \A e \in Port : Awake(t, e)
  /\ t.paused = s.paused
  /\ Released(s, t, D)
  /\ InTurn(s, t)
  /\ Starts(s, t)

\* Nothing to do.
LEMMA ServeNone ==
  ASSUME NEW s, NEW D, Good(s, D), \A e \in Port : Awake(s, e)
  PROVE  Served(s, s, D)
  <1>1. \A e \in Port, k \in Queue : Len(s.queue[e][k]) \in Nat
    <2> SUFFICES ASSUME NEW e \in Port, NEW k \in Queue PROVE Len(s.queue[e][k]) \in Nat
      OBVIOUS
    <2>1. s.queue[e][k] \in Seq(Packet)
      BY DEF Good, Placed
    <2> QED BY <2>1
  <1>2. InTurn(s, s)
    BY <1>1 DEF InTurn
  <1> QED BY <1>2, StartsNothing DEF Served, Released

\* The head of queue 0 is sent.
LEMMA ServeHigh ==
  ASSUME NEW s, NEW D, Good(s, D), NEW d \in Port, \A e \in Port : e # d => Awake(s, e),
         linkUp[d], s.cur[d] = Idle, s.queue[d][0] # <<>>
  PROVE  Served(s, TransmitStart(Dequeued(s, d, 0), d, Head(s.queue[d][0])), D)
  <1> DEFINE z == s.queue[d][0]
             x == Head(z)
             u == Dequeued(s, d, 0)
             t == TransmitStart(u, d, x)
             R == [s.queue EXCEPT ![d][0] = Tail(z)]
  <1>1. /\ s \in State /\ Placed(s.queue) /\ Unique(s.queue, D)
        /\ s.queue \in AllQueues /\ s.wire \in [PQ -> BOOLEAN]
    BY DEF Good, State, AllQueues
  <1>2. z \in Seq(Frame \cup High) /\ z # <<>> /\ 0 \in AllQ
    BY <1>1, Queues DEF Placed
  <1> HIDE DEF z
  <1>3. /\ x \in Frame \cup High /\ x \in Entry
        /\ Tail(z) \in Seq(Frame \cup High) /\ Tail(z) \in Seq(Entry)
    BY <1>2 DEF Entry
  <1>4. DequeueOf(s, u, d, 0)
    BY <1>1, <1>2, DequeuedShape DEF z
  <1>5. /\ u \in State /\ u.mmu = s.mmu /\ u.cur = s.cur /\ u.paused = s.paused
        /\ u.bytes = s.bytes /\ u.wire = s.wire /\ u.rr = s.rr /\ u.queue = R
    BY <1>4 DEF DequeueOf, z
  <1> HIDE DEF u, x
  <1>6. StartOf(u, t, d, x)
    BY <1>3, <1>5, TransmitStartShape
  <1> HIDE DEF t
  <1>7. /\ t \in State /\ t.mmu = s.mmu /\ t.queue = R /\ t.rr = s.rr /\ t.paused = s.paused
        /\ t.bytes = s.bytes
        /\ \A e \in Port : e # d => t.cur[e] = s.cur[e]
        /\ t.cur[d] # Idle
        /\ IF x \in Frame THEN t.cur[d] = x ELSE t.cur[d].pfc = FALSE
        /\ t.wire = IF x \in Frame THEN [s.wire EXCEPT ![<<d, x.q>>] = x.on] ELSE s.wire
    BY <1>5, <1>6 DEF StartOf
  <1>8. R \in AllQueues /\ Placed(R) /\ Unique(R, D) /\ Pkts(R) = Pkts(s.queue)
    BY <1>1, <1>3, PutHigh
  <1>9. /\ R[d][0] = Tail(z)
        /\ \A e \in Port, j \in AllQ : e # d \/ j # 0 => R[e][j] = s.queue[e][j]
    BY <1>1, <1>2, <1>3 DEF AllQueues
  <1> HIDE DEF R
  <1>10. /\ \A e \in Port, k \in Queue : t.queue[e][k] = s.queue[e][k]
         /\ \A e \in Port : e # d => t.queue[e][0] = s.queue[e][0]
         /\ t.queue[d][0] = Tail(z)
    BY <1>7, <1>9, Queues
  <1>11. ASSUME NEW e \in Port, NEW j \in Queue, linkUp[e]
         PROVE  Alternates(t.queue[e][0], j, t.wire[<<e, j>>], t.mmu.paused[<<e, j>>])
    <2>0. Alternates(s.queue[e][0], j, s.wire[<<e, j>>], s.mmu.paused[<<e, j>>])
      BY <1>11 DEF Good, FramesAlternate
    <2>1. t.mmu.paused[<<e, j>>] = s.mmu.paused[<<e, j>>] /\ <<e, j>> \in PQ
      BY <1>7 DEF PQ
    <2>2. CASE e # d
      <3>1. t.wire[<<e, j>>] = s.wire[<<e, j>>]
        <4>1. x \in Frame => x.q \in Queue /\ <<d, x.q>> # <<e, j>> /\ <<d, x.q>> \in PQ
          BY <2>2, Kinds DEF PQ
        <4> QED BY <1>1, <1>7, <2>1, <4>1
      <3>2. t.queue[e][0] = s.queue[e][0]
        BY <1>10, <2>2
      <3> QED BY <2>0, <2>1, <3>1, <3>2, Zenon
    <2>3. CASE e = d
      <3> DEFINE f == IF x.pfc /\ x.q = j THEN x.on ELSE s.wire[<<d, j>>]
      <3>1. Alternates(z, j, s.wire[<<d, j>>], s.mmu.paused[<<d, j>>])
        BY <2>0, <2>3, Zenon DEF z
      <3>2. Alternates(Tail(z), j, f, s.mmu.paused[<<d, j>>])
        BY <1>2, <3>1, TailAlternates DEF x
      <3>3. t.wire[<<d, j>>] = f
        <4>1. CASE x \in Frame
          <5>1. x.pfc /\ x.q \in Queue /\ <<d, x.q>> \in PQ /\ <<d, j>> \in PQ
            BY <4>1, Kinds DEF PQ
          <5>2. t.wire = [s.wire EXCEPT ![<<d, x.q>>] = x.on]
            BY <1>7, <4>1
          <5>3. CASE x.q = j
            <6>1. t.wire[<<d, j>>] = x.on
              BY <1>1, <5>1, <5>2, <5>3
            <6> QED BY <5>1, <5>3, <6>1, Zenon
          <5>4. CASE x.q # j
            <6>1. <<d, x.q>> # <<d, j>>
              BY <5>4
            <6>2. t.wire[<<d, j>>] = s.wire[<<d, j>>]
              BY <1>1, <5>1, <5>2, <6>1
            <6> QED BY <5>4, <6>2, Zenon
          <5> QED BY <5>3, <5>4
        <4>2. CASE x \notin Frame
          <5>1. x.pfc = FALSE
            BY <1>3, <4>2, Kinds
          <5>2. t.wire = s.wire
            BY <1>7, <4>2
          <5> QED BY <5>1, <5>2, Zenon
        <4> QED BY <4>1, <4>2
      <3> HIDE DEF f
      <3>4. t.queue[e][0] = Tail(z)
        BY <1>10, <2>3
      <3> QED BY <2>1, <2>3, <3>2, <3>3, <3>4, Zenon
    <2> QED BY <2>2, <2>3
  <1>12. FramesAlternate(t)
    BY <1>11 DEF FramesAlternate
  <1>13. Good(t, D)
    BY <1>7, <1>8, <1>12 DEF Good
  <1>14. \A e \in Port : Awake(t, e)
    BY <1>7, <1>10 DEF Awake
  <1>15. InTurn(s, t)
    <2>1. \A e \in Port, k \in Queue : Len(s.queue[e][k]) \in Nat
      <3> SUFFICES ASSUME NEW e \in Port, NEW k \in Queue PROVE Len(s.queue[e][k]) \in Nat
        OBVIOUS
      <3>1. s.queue[e][k] \in Seq(Packet)
        BY <1>1 DEF Placed
      <3> QED BY <3>1
    <2> QED BY <1>10, <2>1 DEF InTurn
  <1>16. Released(s, t, D)
    BY <1>7, <1>8 DEF Released
  <1>17. ASSUME NEW e \in Port, NEW j \in Queue
         PROVE  Moves(s.cur[e], t.cur[e], s.wire[<<e, j>>], t.wire[<<e, j>>], j)
    <2>1. <<e, j>> \in PQ /\ (x \in Frame => x.pfc /\ <<d, x.q>> \in PQ)
      BY Kinds DEF PQ
    <2>2. CASE <<d, x.q>> # <<e, j>> \/ x \notin Frame
      <3>1. t.wire[<<e, j>>] = s.wire[<<e, j>>]
        BY <1>1, <1>7, <2>1, <2>2
      <3>2. CASE e # d
        <4>1. t.cur[e] = s.cur[e]
          BY <1>7, <3>2
        <4> QED BY <3>1, <4>1, Zenon DEF Moves
      <3>3. CASE e = d
        <4>1. s.cur[e] = Idle /\ t.cur[e] # Idle
          BY <1>7, <3>3
        <4>2. ~ (t.cur[e].pfc /\ t.cur[e].q = j)
          BY <1>7, <2>2, <3>3
        <4> QED BY <3>1, <4>1, <4>2, Zenon DEF Moves
      <3> QED BY <3>2, <3>3
    <2>3. CASE <<d, x.q>> = <<e, j>> /\ x \in Frame
      <3>1. x.q = j /\ e = d /\ x.pfc
        BY <2>1, <2>3
      <3>2. t.wire[<<e, j>>] = x.on
        BY <1>1, <1>7, <2>1, <2>3
      <3>3. Alternates(z, j, s.wire[<<d, j>>], s.mmu.paused[<<d, j>>])
        BY Zenon DEF Good, FramesAlternate, z
      <3>4. x.on # s.wire[<<d, j>>]
        BY <1>2, <3>1, <3>3, HeadDiffers DEF x
      <3>5. s.cur[e] = Idle /\ t.cur[e] # Idle /\ t.cur[e] = x
        BY <1>7, <2>3, <3>1
      <3> QED BY <3>1, <3>2, <3>4, <3>5, Zenon DEF Moves
    <2> QED BY <2>2, <2>3
  <1>18. Starts(s, t)
    BY <1>17, Zenon DEF Starts
  <1> QED BY <1>7, <1>13, <1>14, <1>15, <1>16, <1>18 DEF Served, t, u, x, z

\* t is s with other counters m and other bytes f.
CountedOf(s, t, m, f) ==
  /\ t \in State
  /\ t.mmu = m /\ t.bytes = f
  /\ t.queue = s.queue /\ t.rr = s.rr /\ t.cur = s.cur /\ t.paused = s.paused
  /\ t.wire = s.wire

LEMMA CountedShape ==
  ASSUME NEW s \in State, NEW m \in MmuState, NEW f \in [Port \X Port \X AllQ -> Int]
  PROVE  /\ CountedOf(s, [s EXCEPT !.mmu = m, !.bytes = f], m, f)
         /\ CountedOf(s, [s EXCEPT !.mmu = m], m, s.bytes)
         /\ CountedOf(s, [s EXCEPT !.bytes = f], s.mmu, f)
  <1>1. [s EXCEPT !.mmu = m] \in State /\ [s EXCEPT !.bytes = f] \in State
    BY DEF State
  <1>2. [s EXCEPT !.mmu = m, !.bytes = f] \in State
    <2> DEFINE a == [s EXCEPT !.mmu = m]
    <2>1. a \in State
      BY <1>1
    <2> HIDE DEF a
    <2>2. [a EXCEPT !.bytes = f] \in State
      BY <2>1 DEF State
    <2> QED BY <2>2 DEF a
  <1> QED BY <1>1, <1>2 DEF State, CountedOf

\* SwitchNotifyDequeue, when pkt has just left queue pkt.q of device d: the
\* counters, m_bytes, and the RESUME if the MMU decided to send one.
LEMMA NotifyShape ==
  ASSUME NEW s \in State, NEW D, Placed(s.queue), Unique(s.queue, D),
         NEW pkt \in Packet, NEW d \in Port, d = pkt.out, Awake(s, pkt.in),
         FramesMatch(s, s.mmu.paused), Leave(s.mmu, pkt) \in MmuState
  PROVE  LET x == <<pkt.in, pkt.out, pkt.q>>
             f == [s.bytes EXCEPT ![x] = s.bytes[x] - pkt.size]
         IN  \E w : /\ CountedOf(s, w, Leave(s.mmu, pkt), f)
                    /\ Announced(w, SwitchNotifyDequeue(s, d, pkt), D, pkt.in)
  <1> DEFINE x  == <<pkt.in, pkt.out, pkt.q>>
             y  == <<pkt.in, pkt.q>>
             f  == [s.bytes EXCEPT ![x] = s.bytes[x] - pkt.size]
             m  == Leave(s.mmu, pkt)
             w  == [s EXCEPT !.mmu = m, !.bytes = f]
             in == pkt.in
             q  == pkt.q
  <1>1. /\ in \in Port /\ pkt.out \in Port /\ q \in Queue /\ pkt.size \in Int
        /\ y \in PQ /\ x \in Port \X Port \X AllQ
    BY SizeAssumption, Queues DEF Packet, PQ
  <1>2. s.bytes \in [Port \X Port \X AllQ -> Int] /\ s.mmu \in MmuState
    BY DEF State
  <1>3. f \in [Port \X Port \X AllQ -> Int]
    BY <1>1, <1>2
  <1>4. SwitchNotifyDequeue(s, d, pkt) =
          IF s.mmu.paused[y] /\ ~ m.paused[y] THEN SendPfc(w, in, q, FALSE) ELSE w
    BY DEF SwitchNotifyDequeue
  <1> HIDE DEF f
  <1>5. CountedOf(s, w, m, f)
    BY <1>3, CountedShape
  <1>6. \/ m.paused = s.mmu.paused
        \/ s.mmu.paused[y] /\ m.paused = [s.mmu.paused EXCEPT ![y] = FALSE]
    BY <1>2, LeavePauses
  <1> HIDE DEF m, w
  <1>7. /\ w \in State /\ w.mmu = m /\ w.queue = s.queue /\ w.cur = s.cur
        /\ w.paused = s.paused /\ w.wire = s.wire
    BY <1>5 DEF CountedOf
  <1>8. Placed(w.queue) /\ Unique(w.queue, D) /\ FramesMatch(w, s.mmu.paused) /\ Awake(w, in)
    BY <1>7 DEF FramesMatch, Awake
  <1>9. s.mmu.paused \in [PQ -> BOOLEAN]
    BY <1>2 DEF MmuState
  <1>10. CASE m.paused = s.mmu.paused
    <2>1. SwitchNotifyDequeue(s, d, pkt) = w
      BY <1>4, <1>10
    <2>2. FramesMatch(w, w.mmu.paused)
      BY <1>7, <1>8, <1>10
    <2>3. Announced(w, w, D, in)
      BY <1>1, <1>7, <1>8, <2>2, AnnounceNothing
    <2> QED BY <1>5, <2>1, <2>3 DEF f, m
  <1>11. CASE s.mmu.paused[y] /\ m.paused = [s.mmu.paused EXCEPT ![y] = FALSE]
    <2>1. ~ m.paused[y]
      BY <1>1, <1>9, <1>11
    <2>2. SwitchNotifyDequeue(s, d, pkt) = SendPfc(w, in, q, FALSE)
      BY <1>4, <1>11, <2>1
    <2>3. w.mmu.paused = [s.mmu.paused EXCEPT ![<<in, q>>] = FALSE]
      BY <1>7, <1>11
    <2>4. s.mmu.paused[<<in, q>>] # FALSE
      BY <1>11
    <2>5. Announced(w, SendPfc(w, in, q, FALSE), D, in)
      BY <1>1, <1>7, <1>8, <1>9, <2>3, <2>4, Announce
    <2> QED BY <1>5, <2>2, <2>5 DEF f, m
  <1> QED BY <1>6, <1>10, <1>11

\* The head of queue k of an accounted priority is sent.
LEMMA ServeData ==
  ASSUME NEW s, NEW D, Good(s, D), NEW d \in Port, \A e \in Port : e # d => Awake(s, e),
         NEW k \in Queue, s.queue[d][k] # <<>>, s.cur[d] = Idle,
         s.rr[d] = k => \A j \in Queue \ {k} : s.paused[d][j] \/ s.queue[d][j] = <<>>
  PROVE  LET pkt == Head(s.queue[d][k])
             u   == Dequeued(s, d, k)
         IN  Served(s, TransmitStart(SwitchNotifyDequeue(u, d, pkt), d, pkt), D)
  <1> DEFINE pkt == Head(s.queue[d][k])
             H   == Pkts(s.queue) \cup D
             R   == [s.queue EXCEPT ![d][k] = Tail(s.queue[d][k])]
             u   == Dequeued(s, d, k)
             v   == SwitchNotifyDequeue(u, d, pkt)
             t   == TransmitStart(v, d, pkt)
             x   == <<pkt.in, pkt.out, pkt.q>>
             m   == Leave(s.mmu, pkt)
             f   == [s.bytes EXCEPT ![x] = s.bytes[x] - pkt.size]
  <1>1. /\ s \in State /\ Placed(s.queue) /\ Unique(s.queue, D) /\ s.queue \in AllQueues
        /\ Consistent(s.mmu, H) /\ Ledger(s.bytes, H) /\ FramesMatch(s, s.mmu.paused)
        /\ s.bytes \in [Port \X Port \X AllQ -> Int]
        /\ \A in \in Port, out \in Port : s.bytes[<<in, out, 0>>] \in Nat
    BY DEF Good, State, AllQueues, FramesAlternate, FramesMatch
  <1>2. k \in AllQ /\ k # 0 /\ 0 \in AllQ
    BY Queues
  <1>3. /\ R \in AllQueues /\ Placed(R) /\ Unique(R, D)
        /\ pkt \in Pkts(s.queue) /\ pkt \notin D /\ Pkts(R) = Pkts(s.queue) \ {pkt}
        /\ pkt \in Packet /\ pkt.out = d /\ pkt.q = k /\ pkt.in # d
    <2>1. LeftOf(s.queue, R, D, d, k, pkt)
      BY <1>1, PutTail
    <2> QED BY <2>1 DEF LeftOf
  <1>4. DequeueOf(s, u, d, k)
    BY <1>1, <1>2, DequeuedShape
  <1>5. /\ u \in State /\ u.mmu = s.mmu /\ u.cur = s.cur /\ u.paused = s.paused
        /\ u.bytes = s.bytes /\ u.wire = s.wire /\ u.queue = R
    BY <1>4 DEF DequeueOf
  <1>6. /\ \A e \in Port, j \in AllQ : e # d \/ j # k => R[e][j] = s.queue[e][j]
    <2>1. Tail(s.queue[d][k]) \in Seq(Entry)
      BY <1>1, <1>2 DEF AllQueues
    <2> QED BY <1>1, <1>2, <2>1 DEF AllQueues
  <1>7. /\ \A e \in Port : R[e][0] = s.queue[e][0]
        /\ \A e \in Port, j \in Queue : e # d \/ j # k => R[e][j] = s.queue[e][j]
    BY <1>2, <1>6, Queues
  <1>8. pkt.in \in Port /\ pkt \in H /\ pkt \in Entry /\ pkt \notin Frame
    BY <1>3, Kinds DEF Packet, Entry
  <1> HIDE DEF pkt, u, R, H
  <1>9. Consistent(m, H \ {pkt}) /\ m \in MmuState
    <2>1. Consistent(m, H \ {pkt})
      BY <1>1, <1>8, LeaveInv
    <2> QED BY <2>1 DEF Consistent
  <1>10. Ledger(f, H \ {pkt})
    <2>1. H \subseteq Packet /\ IsFiniteSet(CellsOf(H))
      BY <1>1 DEF Consistent
    <2> QED BY <1>1, <1>8, <2>1, LedgerLess
  <1>11. \A in \in Port, out \in Port : f[<<in, out, 0>>] \in Nat
    <2> SUFFICES ASSUME NEW in \in Port, NEW out \in Port PROVE f[<<in, out, 0>>] \in Nat
      OBVIOUS
    <2>1. <<in, out, 0>> # x /\ <<in, out, 0>> \in Port \X Port \X AllQ
      BY <1>2, <1>3
    <2>2. f[<<in, out, 0>>] = s.bytes[<<in, out, 0>>]
      BY <1>1, <2>1
    <2> QED BY <1>1, <2>2
  <1>12. \A e \in Port : e # d => Awake(u, e)
    <2> SUFFICES ASSUME NEW e \in Port, e # d PROVE Awake(u, e)
      OBVIOUS
    <2>1. Awake(s, e)
      OBVIOUS
    <2>2. u.queue[e][0] = s.queue[e][0] /\ \A j \in Queue : u.queue[e][j] = s.queue[e][j]
      BY <1>5, <1>7
    <2> QED BY <1>5, <2>1, <2>2 DEF Awake
  <1>13. FramesMatch(u, u.mmu.paused)
    BY <1>1, <1>5, <1>7 DEF FramesMatch
  <1>14. PICK w : CountedOf(u, w, m, f) /\ Announced(w, v, D, pkt.in)
    <2>1. Placed(u.queue) /\ Unique(u.queue, D) /\ Awake(u, pkt.in) /\ Leave(u.mmu, pkt) \in MmuState
      BY <1>3, <1>5, <1>8, <1>9, <1>12
    <2> QED BY <1>3, <1>5, <1>13, <2>1, NotifyShape
  <1> HIDE DEF v, f, m
  <1>15. /\ w.mmu = m /\ w.bytes = f /\ w.queue = R /\ w.cur = s.cur /\ w.paused = s.paused
         /\ w.wire = s.wire
    BY <1>5, <1>14 DEF CountedOf
  <1>16. /\ v \in State /\ Placed(v.queue) /\ Unique(v.queue, D) /\ Pkts(v.queue) = Pkts(R)
         /\ v.mmu = m /\ v.paused = s.paused /\ v.bytes = f
         /\ \A e \in Port, j \in Queue : v.queue[e][j] = R[e][j]
         /\ FramesAlternate(v)
         /\ \A e \in Port : Awake(w, e) => Awake(v, e)
    BY <1>14, <1>15 DEF Announced
  <1>17. \A e \in Port : e # d => Awake(v, e)
    <2>1. \A e \in Port : Awake(u, e) => Awake(w, e)
      BY <1>5, <1>15 DEF Awake
    <2> QED BY <1>12, <1>16, <2>1
  <1>18. StartOf(v, t, d, pkt)
    BY <1>8, <1>16, TransmitStartShape
  <1> HIDE DEF t
  <1>19. /\ t \in State /\ t.mmu = m /\ t.queue = v.queue /\ t.paused = s.paused /\ t.bytes = f
         /\ \A e \in Port : e # d => t.cur[e] = v.cur[e]
         /\ t.cur[d] # Idle /\ t.cur[d].pfc = FALSE
         /\ t.wire = v.wire
    BY <1>8, <1>16, <1>18 DEF StartOf
  <1>20. Pkts(t.queue) \cup D = H \ {pkt}
    BY <1>3, <1>16, <1>19 DEF H
  <1>21. FramesAlternate(t)
    BY <1>16, <1>19 DEF FramesAlternate
  <1>22. Good(t, D)
    BY <1>9, <1>10, <1>11, <1>16, <1>19, <1>20, <1>21 DEF Good
  <1>23. \A e \in Port : Awake(t, e)
    <2> SUFFICES ASSUME NEW e \in Port PROVE Awake(t, e)
      OBVIOUS
    <2>1. CASE e = d
      BY <1>19, <2>1 DEF Awake
    <2>2. CASE e # d
      <3>1. Awake(v, e) /\ t.cur[e] = v.cur[e]
        BY <1>17, <1>19, <2>2
      <3> QED BY <1>16, <1>19, <3>1 DEF Awake
    <2> QED BY <2>1, <2>2
  <1>24. InTurn(s, t)
    <2> SUFFICES ASSUME NEW e \in Port, NEW l \in Queue, s.rr[e] = l,
                        Len(t.queue[e][l]) < Len(s.queue[e][l]), NEW j \in Queue \ {l}
                 PROVE  s.paused[e][j] \/ s.queue[e][j] = <<>>
      BY DEF InTurn
    <2>1. CASE e = d /\ l = k
      BY <2>1
    <2>2. CASE e # d \/ l # k
      <3>1. t.queue[e][l] = s.queue[e][l]
        BY <1>7, <1>16, <1>19, <2>2
      <3>2. s.queue[e][l] \in Seq(Packet)
        BY <1>1 DEF Placed
      <3>3. Len(s.queue[e][l]) \in Nat
        BY <3>2
      <3> QED BY <3>1, <3>3
    <2> QED BY <2>1, <2>2
  <1>25. Released(s, t, D)
    BY <1>3, <1>19, <1>20 DEF Released, m, H
  <1>26. Starts(s, t)
    <2>1. Starts(s, w)
      BY <1>15, StartsNothing
    <2>2. Starts(w, v) /\ v.cur[d] = Idle
      BY <1>3, <1>14, <1>15 DEF Announced
    <2>3. ASSUME NEW e \in Port, NEW j \in Queue
          PROVE  Moves(v.cur[e], t.cur[e], v.wire[<<e, j>>], t.wire[<<e, j>>], j)
      <3>1. CASE e # d
        BY <1>19, <3>1 DEF Moves
      <3>2. CASE e = d
        BY <1>19, <2>2, <3>2 DEF Moves
      <3> QED BY <3>1, <3>2
    <2>4. Starts(v, t)
      BY <2>3, Zenon DEF Starts
    <2> QED BY <2>1, <2>2, <2>4, StartsThen
  <1> QED BY <1>19, <1>22, <1>23, <1>24, <1>25, <1>26 DEF Served, t, v, u, pkt

\* DequeueAndTransmit of a device that may have something to send.
LEMMA Serve ==
  ASSUME NEW s, NEW D, Good(s, D), NEW d \in Port, \A e \in Port : e # d => Awake(s, e)
  PROVE  Served(s, DequeueAndTransmit(s, d), D)
  <1> DEFINE k   == NextQueue(s, d)
             pkt == Head(s.queue[d][k])
             u   == Dequeued(s, d, k)
  <1>1. s \in State
    BY DEF Good
  <1>2. /\ s.queue[d][0] # <<>> => k = 0
        /\ k = None => \A j \in Queue : s.queue[d][j] # <<>> => s.paused[d][j]
        /\ k # None => k \in AllQ /\ s.queue[d][k] # <<>>
        /\ k # None /\ k # 0 /\ k = s.rr[d] =>
             \A j \in Queue \ {k} : s.paused[d][j] \/ s.queue[d][j] = <<>>
    BY <1>1, NextQueueChoice
  <1>3. DequeueAndTransmit(s, d) =
          IF ~ linkUp[d] \/ s.cur[d] # Idle \/ k = None THEN s
          ELSE TransmitStart(IF k = 0 THEN u ELSE SwitchNotifyDequeue(u, d, pkt), d, pkt)
    BY DEF DequeueAndTransmit
  <1>4. 0 # None
    BY Queues
  <1> HIDE DEF k
  <1>5. CASE ~ linkUp[d] \/ s.cur[d] # Idle \/ k = None
    <2>1. Awake(s, d)
      BY <1>2, <1>4, <1>5 DEF Awake
    <2> QED BY <1>3, <1>5, <2>1, ServeNone
  <1>6. CASE linkUp[d] /\ s.cur[d] = Idle /\ k # None /\ k = 0
    <2>1. DequeueAndTransmit(s, d) =
            TransmitStart(Dequeued(s, d, 0), d, Head(s.queue[d][0]))
      BY <1>3, <1>6
    <2> QED BY <1>2, <1>6, <2>1, ServeHigh
  <1>7. CASE linkUp[d] /\ s.cur[d] = Idle /\ k # None /\ k # 0
    <2>1. DequeueAndTransmit(s, d) = TransmitStart(SwitchNotifyDequeue(u, d, pkt), d, pkt)
      BY <1>3, <1>7
    <2>2. k \in Queue
      BY <1>2, <1>7, Queues
    <2> QED BY <1>2, <1>7, <2>1, <2>2, ServeData
  <1> QED BY <1>5, <1>6, <1>7
-----------------------------------------------------------------------------
(***************************************************************************)
(* What the events do before they call DequeueAndTransmit.                 *)
(***************************************************************************)
\* From s to w no packet has left, and at most one was admitted.
Prepared(s, w, D) ==
  /\ w.rr = s.rr
  /\ \A e \in Port, k \in Queue :
       /\ Len(s.queue[e][k]) <= Len(w.queue[e][k])
       /\ w.queue[e][k] = <<>> => s.queue[e][k] = <<>>
  /\ \/ w.mmu = s.mmu /\ Pkts(w.queue) = Pkts(s.queue)
     \/ \E pkt \in Packet :
          /\ \A b \in Pkts(s.queue) \cup D : b.id # pkt.id
          /\ Admits(s.mmu, pkt)
          /\ w.mmu = Enter(s.mmu, pkt)
          /\ Pkts(w.queue) = Pkts(s.queue) \cup {pkt}

\* The lengths of queues are numbers.
LEMMA Lengths ==
  ASSUME NEW Q, Placed(Q), NEW e \in Port, NEW k \in Queue
  PROVE  Len(Q[e][k]) \in Nat
  <1>1. Q[e][k] \in Seq(Packet)
    BY DEF Placed
  <1> QED BY <1>1

LEMMA PacketFields ==
  \A b \in Packet : /\ b.in \in Port /\ b.out \in Port /\ b.q \in Queue
                    /\ b.size \in Nat /\ b \in Entry
  BY SizeAssumption DEF Packet, Entry

\* SendToDev of a packet that is admitted.
LEMMA PrepareData ==
  ASSUME NEW s, NEW D, Good(s, D), \A e \in Port : Awake(s, e),
         NEW pkt \in Packet, pkt.in # pkt.out, Admits(s.mmu, pkt),
         \A b \in Pkts(s.queue) \cup D : b.id # pkt.id
  PROVE  \E w : /\ SendToDev(s, pkt) = DequeueAndTransmit(w, pkt.out)
                /\ Good(w, D)
                /\ \A e \in Port : e # pkt.out => Awake(w, e)
                /\ Prepared(s, w, D)
                /\ w.paused = s.paused /\ Starts(s, w)
  <1> DEFINE H  == Pkts(s.queue) \cup D
             m  == Enter(s.mmu, pkt)
             in == pkt.in
             d  == pkt.out
             q  == pkt.q
             y  == <<in, q>>
             x  == <<in, d, q>>
             t  == [s EXCEPT !.mmu = m]
             u  == IF ~ s.mmu.paused[y] /\ m.paused[y] THEN SendPfc(t, in, q, TRUE) ELSE t
             f  == [u.bytes EXCEPT ![x] = u.bytes[x] + pkt.size]
             v  == [u EXCEPT !.bytes = f]
             w  == Enqueue(v, d, q, pkt)
  <1>1. /\ s \in State /\ Placed(s.queue) /\ Unique(s.queue, D) /\ s.queue \in AllQueues
        /\ Consistent(s.mmu, H) /\ Ledger(s.bytes, H) /\ FramesMatch(s, s.mmu.paused)
        /\ s.bytes \in [Port \X Port \X AllQ -> Int] /\ s.mmu \in MmuState
        /\ \A i \in Port, o \in Port : s.bytes[<<i, o, 0>>] \in Nat
    BY DEF Good, State, AllQueues, FramesAlternate, FramesMatch
  <1>2. /\ in \in Port /\ d \in Port /\ q \in Queue /\ pkt.size \in Int /\ y \in PQ
        /\ q \in AllQ /\ 0 \in AllQ /\ q # 0 /\ x \in Port \X Port \X AllQ
        /\ pkt \in Entry /\ in # d
    <2>1. in \in Port /\ d \in Port /\ q \in Queue /\ pkt.size \in Int
      BY PacketFields
    <2>2. pkt \in Entry /\ in # d
      BY PacketFields
    <2> QED BY <2>1, <2>2, Queues DEF PQ
  <1>3. pkt \notin H
    OBVIOUS
  <1>4. SendToDev(s, pkt) = DequeueAndTransmit(w, d)
    BY DEF SendToDev
  <1>5. Consistent(m, H \cup {pkt}) /\ m \in MmuState
    <2>1. Consistent(m, H \cup {pkt})
      BY <1>1, <1>3, EnterInv
    <2> QED BY <2>1 DEF Consistent
  <1>6. \/ m.paused = s.mmu.paused
        \/ ~ s.mmu.paused[y] /\ m.paused = [s.mmu.paused EXCEPT ![y] = TRUE]
    BY <1>1, EnterPauses
  <1> HIDE DEF H, m
  <1>7. CountedOf(s, t, m, s.bytes)
    <2>1. \A g \in [Port \X Port \X AllQ -> Int] : CountedOf(s, [s EXCEPT !.mmu = m], m, s.bytes)
      BY <1>1, <1>5, CountedShape
    <2> QED BY <1>1, <2>1
  <1>8. /\ t \in State /\ t.mmu = m /\ t.queue = s.queue /\ t.cur = s.cur /\ t.rr = s.rr
        /\ t.paused = s.paused /\ t.wire = s.wire /\ t.bytes = s.bytes
    BY <1>7 DEF CountedOf
  <1> HIDE DEF t
  <1>9. /\ Placed(t.queue) /\ Unique(t.queue, D) /\ FramesMatch(t, s.mmu.paused)
        /\ \A e \in Port : Awake(t, e)
    BY <1>1, <1>8 DEF FramesMatch, Awake
  <1>10. s.mmu.paused \in [PQ -> BOOLEAN]
    BY <1>1 DEF MmuState
  <1>11. Announced(t, u, D, in)
    <2>1. CASE m.paused = s.mmu.paused
      <3>1. u = t
        BY <2>1
      <3>2. FramesMatch(t, t.mmu.paused)
        BY <1>8, <1>9, <2>1
      <3>3. Announced(t, t, D, in)
        BY <1>2, <1>8, <1>9, <3>2, AnnounceNothing
      <3> QED BY <3>1, <3>3
    <2>2. CASE ~ s.mmu.paused[y] /\ m.paused = [s.mmu.paused EXCEPT ![y] = TRUE]
      <3>1. m.paused[y]
        BY <1>2, <1>10, <2>2
      <3>2. u = SendPfc(t, in, q, TRUE)
        BY <2>2, <3>1
      <3>3. t.mmu.paused = [s.mmu.paused EXCEPT ![<<in, q>>] = TRUE]
        BY <1>8, <2>2
      <3>4. s.mmu.paused[<<in, q>>] # TRUE
        BY <2>2
      <3>5. Announced(t, SendPfc(t, in, q, TRUE), D, in)
        BY <1>2, <1>8, <1>9, <1>10, <3>3, <3>4, Announce
      <3> QED BY <3>2, <3>5
    <2> QED BY <1>6, <2>1, <2>2
  <1> HIDE DEF u
  <1>12. /\ u \in State /\ Placed(u.queue) /\ Unique(u.queue, D) /\ Pkts(u.queue) = Pkts(s.queue)
         /\ u.mmu = m /\ u.rr = s.rr /\ u.paused = s.paused /\ u.bytes = s.bytes
         /\ \A e \in Port, k \in Queue : u.queue[e][k] = s.queue[e][k]
         /\ FramesAlternate(u)
         /\ \A e \in Port : Awake(u, e)
    BY <1>8, <1>9, <1>11 DEF Announced
  <1>13. f = [s.bytes EXCEPT ![x] = s.bytes[x] + pkt.size] /\ f \in [Port \X Port \X AllQ -> Int]
    BY <1>1, <1>2, <1>12
  <1> HIDE DEF f
  <1>14. CountedOf(u, v, u.mmu, f)
    <2>1. u.mmu \in MmuState
      BY <1>5, <1>12
    <2> QED BY <1>12, <1>13, <2>1, CountedShape
  <1>15. /\ v \in State /\ v.mmu = m /\ v.queue = u.queue /\ v.cur = u.cur /\ v.rr = s.rr
         /\ v.paused = s.paused /\ v.wire = u.wire /\ v.bytes = f
    BY <1>12, <1>14 DEF CountedOf
  <1> HIDE DEF v
  <1>16. EnqueueOf(v, w, d, q, pkt)
    BY <1>2, <1>15, EnqueueShape
  <1> HIDE DEF w
  <1> DEFINE R == [u.queue EXCEPT ![d][q] = Append(u.queue[d][q], pkt)]
  <1>17. /\ w \in State /\ w.mmu = m /\ w.queue = R /\ w.cur = u.cur /\ w.rr = s.rr
         /\ w.paused = s.paused /\ w.wire = u.wire /\ w.bytes = f
    BY <1>15, <1>16 DEF EnqueueOf
  <1>18. u.queue \in AllQueues /\ pkt \notin Pkts(u.queue) \cup D
    BY <1>3, <1>12 DEF State, AllQueues, H
  <1>19. R \in AllQueues /\ Placed(R) /\ Unique(R, D) /\ Pkts(R) = Pkts(u.queue) \cup {pkt}
    BY <1>12, <1>18, PutLast
  <1>20. /\ R[d][q] = Append(u.queue[d][q], pkt)
         /\ \A e \in Port, j \in AllQ : e # d \/ j # q => R[e][j] = u.queue[e][j]
    <2>1. Append(u.queue[d][q], pkt) \in Seq(Entry)
      BY <1>2, <1>18 DEF AllQueues
    <2> QED BY <1>2, <1>18, <2>1 DEF AllQueues
  <1> HIDE DEF R
  <1>21. /\ \A e \in Port : w.queue[e][0] = u.queue[e][0]
         /\ \A e \in Port, k \in Queue : e # d => w.queue[e][k] = u.queue[e][k]
         /\ \A e \in Port, k \in Queue : k # q => w.queue[e][k] = u.queue[e][k]
         /\ w.queue[d][q] = Append(s.queue[d][q], pkt)
    <2>1. /\ 0 \in AllQ /\ q # 0 /\ \A k \in Queue : k \in AllQ
      BY <1>2, Queues, Zenon
    <2>2. w.queue = R /\ u.queue[d][q] = s.queue[d][q]
      BY <1>2, <1>12, <1>17
    <2> QED BY <1>20, <2>1, <2>2, Zenon
  <1>22. FramesAlternate(w)
    BY <1>12, <1>17, <1>21 DEF FramesAlternate
  <1>23. Ledger(w.bytes, H \cup {pkt})
    <2>1. H \subseteq Packet /\ IsFiniteSet(CellsOf(H))
      BY <1>1 DEF Consistent
    <2>2. Ledger([s.bytes EXCEPT ![x] = s.bytes[x] + pkt.size], H \cup {pkt})
      BY <1>1, <1>3, <2>1, LedgerMore
    <2> QED BY <1>13, <1>17, <2>2
  <1>24. \A i \in Port, o \in Port : w.bytes[<<i, o, 0>>] \in Nat
    <2> SUFFICES ASSUME NEW i \in Port, NEW o \in Port PROVE w.bytes[<<i, o, 0>>] \in Nat
      OBVIOUS
    <2>1. <<i, o, 0>> # x /\ <<i, o, 0>> \in Port \X Port \X AllQ
      BY <1>2
    <2>2. w.bytes[<<i, o, 0>>] = s.bytes[<<i, o, 0>>]
      BY <1>1, <1>13, <1>17, <2>1
    <2> QED BY <1>1, <2>2
  <1>25. Pkts(w.queue) \cup D = H \cup {pkt} /\ Pkts(w.queue) = Pkts(s.queue) \cup {pkt}
    BY <1>12, <1>17, <1>19 DEF H
  <1>26. Good(w, D)
    BY <1>5, <1>17, <1>19, <1>22, <1>23, <1>24, <1>25 DEF Good
  <1>27. \A e \in Port : e # d => Awake(w, e)
    BY <1>12, <1>17, <1>21 DEF Awake
  <1>28. Prepared(s, w, D)
    <2>1. ASSUME NEW e \in Port, NEW k \in Queue
          PROVE  /\ Len(s.queue[e][k]) <= Len(w.queue[e][k])
                 /\ w.queue[e][k] = <<>> => s.queue[e][k] = <<>>
      <3>1. s.queue[e][k] \in Seq(Packet)
        BY <1>1 DEF Placed
      <3>2. CASE e = d /\ k = q
        <4>1. w.queue[e][k] = Append(s.queue[e][k], pkt)
          BY <1>21, <3>2
        <4> QED BY <3>1, <4>1
      <3>3. CASE e # d \/ k # q
        <4>1. w.queue[e][k] = s.queue[e][k]
          BY <1>12, <1>21, <3>3
        <4>2. Len(s.queue[e][k]) \in Nat
          BY <3>1
        <4> QED BY <4>1, <4>2
      <3> QED BY <3>2, <3>3
    <2>2. \E b \in Packet :
            /\ \A c \in Pkts(s.queue) \cup D : c.id # b.id
            /\ Admits(s.mmu, b) /\ w.mmu = Enter(s.mmu, b)
            /\ Pkts(w.queue) = Pkts(s.queue) \cup {b}
      BY <1>17, <1>25 DEF m
    <2> QED BY <1>17, <2>1, <2>2 DEF Prepared
  <1>29. Starts(s, w)
    <2>1. Starts(s, t)
      BY <1>8, StartsNothing
    <2>2. Starts(t, u)
      BY <1>11 DEF Announced
    <2>3. Starts(u, w)
      BY <1>17, StartsNothing
    <2> QED BY <2>1, <2>2, <2>3, StartsThen
  <1> QED BY <1>4, <1>17, <1>26, <1>27, <1>28, <1>29

\* SendToDev of a packet of the highest priority.
LEMMA PrepareHigh ==
  ASSUME NEW s, NEW D, Good(s, D), \A e \in Port : Awake(s, e),
         NEW in \in Port, NEW out \in Port, NEW size \in Size
  PROVE  \E w : /\ SendHighToDev(s, in, out, size) = DequeueAndTransmit(w, out)
                /\ Good(w, D)
                /\ \A e \in Port : e # out => Awake(w, e)
                /\ Prepared(s, w, D)
                /\ w.paused = s.paused /\ Starts(s, w)
  <1> DEFINE x == <<in, out, 0>>
             f == [s.bytes EXCEPT ![x] = s.bytes[x] + size]
             v == [s EXCEPT !.bytes = f]
             h == [pfc |-> FALSE, in |-> in, size |-> size]
             w == Enqueue(v, out, 0, h)
             H == Pkts(s.queue) \cup D
  <1>1. /\ s \in State /\ Placed(s.queue) /\ Unique(s.queue, D) /\ s.queue \in AllQueues
        /\ Consistent(s.mmu, H) /\ Ledger(s.bytes, H) /\ FramesAlternate(s)
        /\ s.bytes \in [Port \X Port \X AllQ -> Int] /\ s.mmu \in MmuState
        /\ \A i \in Port, o \in Port : s.bytes[<<i, o, 0>>] \in Nat
    BY DEF Good, State, AllQueues
  <1>2. 0 \in AllQ /\ x \in Port \X Port \X AllQ /\ size \in Nat
    BY Queues, SizeAssumption
  <1>3. h \in High /\ h \in Entry /\ h.pfc = FALSE
    BY DEF High, Entry
  <1>4. SendHighToDev(s, in, out, size) = DequeueAndTransmit(w, out)
    BY DEF SendHighToDev
  <1> HIDE DEF h, H
  <1>5. f \in [Port \X Port \X AllQ -> Int]
    BY <1>1, <1>2
  <1>6. \A i \in Port, o \in Port : f[<<i, o, 0>>] \in Nat
    <2> SUFFICES ASSUME NEW i \in Port, NEW o \in Port PROVE f[<<i, o, 0>>] \in Nat
      OBVIOUS
    <2>1. <<i, o, 0>> \in Port \X Port \X AllQ
      BY <1>2
    <2>2. f[<<i, o, 0>>] = IF <<i, o, 0>> = x THEN s.bytes[x] + size ELSE s.bytes[<<i, o, 0>>]
      BY <1>1, <2>1
    <2>3. s.bytes[<<i, o, 0>>] \in Nat /\ s.bytes[x] \in Nat
      BY <1>1
    <2> HIDE DEF f, x
    <2> QED BY <1>2, <2>2, <2>3
  <1>7. Ledger(f, H)
    <2> SUFFICES ASSUME NEW i \in Port, NEW o \in Port, NEW q \in Queue
                 PROVE  f[<<i, o, q>>] = BytesOf(Along(H, i, o, q))
      BY DEF Ledger
    <2>1. q # 0 /\ q \in AllQ
      BY Queues
    <2>2. <<i, o, q>> # x /\ <<i, o, q>> \in Port \X Port \X AllQ
      BY <2>1
    <2>3. f[<<i, o, q>>] = s.bytes[<<i, o, q>>]
      BY <1>1, <1>2, <2>2
    <2> QED BY <1>1, <2>3 DEF Ledger
  <1> HIDE DEF f
  <1>8. CountedOf(s, v, s.mmu, f)
    BY <1>1, <1>5, CountedShape
  <1>9. /\ v \in State /\ v.mmu = s.mmu /\ v.queue = s.queue /\ v.cur = s.cur /\ v.rr = s.rr
        /\ v.paused = s.paused /\ v.wire = s.wire /\ v.bytes = f
    BY <1>8 DEF CountedOf
  <1> HIDE DEF v
  <1>10. EnqueueOf(v, w, out, 0, h)
    BY <1>2, <1>3, <1>9, EnqueueShape
  <1> HIDE DEF w
  <1> DEFINE y == Append(s.queue[out][0], h)
             R == [s.queue EXCEPT ![out][0] = y]
  <1>11. /\ w \in State /\ w.mmu = s.mmu /\ w.queue = R /\ w.cur = s.cur /\ w.rr = s.rr
         /\ w.paused = s.paused /\ w.wire = s.wire /\ w.bytes = f
    BY <1>9, <1>10 DEF EnqueueOf
  <1>12. s.queue[out][0] \in Seq(Frame \cup High)
    BY <1>1 DEF Placed
  <1>13. y \in Seq(Frame \cup High) /\ y \in Seq(Entry)
    BY <1>3, <1>12 DEF Entry
  <1> HIDE DEF y
  <1>14. R \in AllQueues /\ Placed(R) /\ Unique(R, D) /\ Pkts(R) = Pkts(s.queue)
    BY <1>1, <1>13, PutHigh
  <1>15. /\ R[out][0] = y
         /\ \A e \in Port, j \in AllQ : e # out \/ j # 0 => R[e][j] = s.queue[e][j]
    BY <1>1, <1>2, <1>13 DEF AllQueues
  <1> HIDE DEF R
  <1>16. /\ \A e \in Port, k \in Queue : w.queue[e][k] = s.queue[e][k]
         /\ \A e \in Port : e # out => w.queue[e][0] = s.queue[e][0]
         /\ w.queue[out][0] = y
    BY <1>11, <1>15, Queues
  <1>17. ASSUME NEW e \in Port, NEW j \in Queue, linkUp[e]
         PROVE  Alternates(w.queue[e][0], j, w.wire[<<e, j>>], w.mmu.paused[<<e, j>>])
    <2>1. Alternates(s.queue[e][0], j, s.wire[<<e, j>>], s.mmu.paused[<<e, j>>])
      BY <1>1, <1>17 DEF FramesAlternate
    <2>2. w.wire[<<e, j>>] = s.wire[<<e, j>>] /\ w.mmu.paused[<<e, j>>] = s.mmu.paused[<<e, j>>]
      BY <1>11
    <2>3. CASE e = out
      <3>1. Alternates(y, j, s.wire[<<e, j>>], s.mmu.paused[<<e, j>>])
        BY <1>3, <1>12, <2>1, <2>3, AppendOther DEF y
      <3>2. w.queue[e][0] = y
        BY <1>16, <2>3
      <3> QED BY <2>2, <3>1, <3>2, Zenon
    <2>4. CASE e # out
      <3>1. w.queue[e][0] = s.queue[e][0]
        BY <1>16, <2>4
      <3> QED BY <2>1, <2>2, <3>1, Zenon
    <2> QED BY <2>3, <2>4
  <1>18. FramesAlternate(w)
    BY <1>17 DEF FramesAlternate
  <1>19. Good(w, D)
    BY <1>1, <1>6, <1>7, <1>11, <1>14, <1>18 DEF Good, H
  <1>20. \A e \in Port : e # out => Awake(w, e)
    BY <1>11, <1>16 DEF Awake
  <1>21. Prepared(s, w, D)
    <2>1. \A e \in Port, k \in Queue : Len(s.queue[e][k]) \in Nat
      BY <1>1, Lengths
    <2> QED BY <1>11, <1>14, <1>16, <2>1 DEF Prepared
  <1>22. Starts(s, w)
    BY <1>11, StartsNothing
  <1> QED BY <1>4, <1>11, <1>19, <1>20, <1>21, <1>22

\* A device is resumed, or has ended a transmission: the queues stay as they are.
LEMMA PrepareFree ==
  ASSUME NEW s, NEW D, Good(s, D), \A e \in Port : Awake(s, e), NEW d \in Port
  PROVE  /\ \A q \in Queue :
              LET w == [s EXCEPT !.paused[d][q] = FALSE]
              IN  /\ Good(w, D) /\ Prepared(s, w, D)
                  /\ \A e \in Port : e # d => Awake(w, e)
         /\ LET w == [s EXCEPT !.cur[d] = Idle]
            IN  /\ Good(w, D) /\ Prepared(s, w, D)
                /\ \A e \in Port : e # d => Awake(w, e)
  <1>1. s \in State /\ Placed(s.queue)
    BY DEF Good
  <1>2. \A e \in Port, k \in Queue : Len(s.queue[e][k]) \in Nat
    BY <1>1, Lengths
  <1>3. ASSUME NEW w, w \in State, w.mmu = s.mmu, w.queue = s.queue, w.rr = s.rr,
               w.bytes = s.bytes, w.wire = s.wire
        PROVE  Good(w, D) /\ Prepared(s, w, D)
    <2>1. FramesAlternate(w)
      BY <1>3 DEF Good, FramesAlternate
    <2>2. Good(w, D)
      BY <1>3, <2>1 DEF Good
    <2> QED BY <1>2, <1>3, <2>2 DEF Prepared
  <1>4. ASSUME NEW q \in Queue
        PROVE  LET w == [s EXCEPT !.paused[d][q] = FALSE]
               IN  /\ Good(w, D) /\ Prepared(s, w, D)
                   /\ \A e \in Port : e # d => Awake(w, e)
    <2> DEFINE p == [s.paused EXCEPT ![d][q] = FALSE]
               w == [s EXCEPT !.paused = p]
    <2>1. s.paused \in [Port -> [AllQ -> BOOLEAN]] /\ q \in AllQ
      BY <1>1, Queues DEF State
    <2>2. p \in [Port -> [AllQ -> BOOLEAN]] /\ \A e \in Port : e # d => p[e] = s.paused[e]
      BY <2>1
    <2> HIDE DEF p
    <2>3. /\ w \in State /\ w.mmu = s.mmu /\ w.queue = s.queue /\ w.rr = s.rr
          /\ w.bytes = s.bytes /\ w.wire = s.wire /\ w.cur = s.cur /\ w.paused = p
      BY <1>1, <2>2 DEF State
    <2> HIDE DEF w
    <2>4. \A e \in Port : e # d => Awake(w, e)
      BY <2>2, <2>3 DEF Awake
    <2> QED BY <1>3, <2>3, <2>4 DEF w, p
  <1>5. LET w == [s EXCEPT !.cur[d] = Idle]
        IN  /\ Good(w, D) /\ Prepared(s, w, D)
            /\ \A e \in Port : e # d => Awake(w, e)
    <2> DEFINE c == [s.cur EXCEPT ![d] = Idle]
               w == [s EXCEPT !.cur = c]
    <2>1. s.cur \in [Port -> OnWire] /\ Idle \in OnWire
      BY <1>1 DEF State, OnWire
    <2>2. c \in [Port -> OnWire] /\ \A e \in Port : e # d => c[e] = s.cur[e]
      BY <2>1
    <2> HIDE DEF c
    <2>3. /\ w \in State /\ w.mmu = s.mmu /\ w.queue = s.queue /\ w.rr = s.rr
          /\ w.bytes = s.bytes /\ w.wire = s.wire /\ w.cur = c /\ w.paused = s.paused
      BY <1>1, <2>2 DEF State
    <2> HIDE DEF w
    <2>4. \A e \in Port : e # d => Awake(w, e)
      BY <2>2, <2>3 DEF Awake
    <2> QED BY <1>3, <2>3, <2>4 DEF w, c
  <1> QED BY <1>4, <1>5
-----------------------------------------------------------------------------
(***************************************************************************)
(* The events.                                                             *)
(***************************************************************************)
\* An event that ends in DequeueAndTransmit.
Event ==
  /\ UNCHANGED <<linkUp, discarded>>
  /\ \E w, t : /\ Prepared(St, w, discarded) /\ Good(w, discarded)
               /\ Served(w, t, discarded)
               /\ Become(t)

LEMMA StateFields ==
  /\ St.mmu = mmu /\ St.queue = queue /\ St.rr = m_rrlast /\ St.cur = m_currentPkt
  /\ St.paused = m_paused /\ St.bytes = m_bytes /\ St.wire = wire
  BY DEF St

\* A state of the program is a record of its parts.
LEMMA Parts ==
  ASSUME NEW t \in State
  PROVE  t = [mmu |-> t.mmu, queue |-> t.queue, rr |-> t.rr, cur |-> t.cur,
              paused |-> t.paused, bytes |-> t.bytes, wire |-> t.wire]
  BY DEF State

LEMMA BecomeIs == ASSUME NEW t \in State, Become(t) PROVE St' = t
  BY Parts DEF Become, St

\* What the event, whose first state is s, did to the transmissions, when the
\* neighbours' pauses are p in the end.
Sends(s, p) == Starts(s, St') /\ m_paused' = p

LEMMA ServedSends ==
  ASSUME NEW s, NEW w, NEW t, NEW D, Starts(s, w), Served(w, t, D), Become(t)
  PROVE  Sends(s, w.paused)
  <1>1. t \in State /\ t.paused = w.paused /\ Starts(w, t)
    BY DEF Served, Good
  <1>2. St' = t /\ m_paused' = t.paused
    BY <1>1, BecomeIs DEF Become
  <1>3. Starts(s, t)
    BY <1>1, StartsThen
  <1> QED BY <1>1, <1>2, <1>3 DEF Sends

\* The packets the queues hold.
LEMMA BufferedIs == Buffered = Pkts(queue)
  BY DEF Buffered, Queued, Pkts

LEMMA DataEvent ==
  ASSUME Inv, NEW f \in Flow, NEW q \in Queue, NEW size \in Size,
         ReceiveData(f[1], f[2], q, size)
  PROVE  (Event /\ Sends(St, m_paused)) \/ UNCHANGED vars
  <1> DEFINE i   == CHOOSE i \in FreeId : TRUE
             pkt == [id |-> i, in |-> f[1], out |-> f[2], q |-> q, size |-> size]
  <1>1. f[1] \in Port /\ f[2] \in Port /\ f[1] # f[2]
    BY FlowAssumption
  <1>2. i \in FreeId
    BY DEF ReceiveData
  <1>3. Become(SendToDev(St, pkt)) /\ UNCHANGED <<linkUp, discarded>>
    BY DEF ReceiveData
  <1>4. i \in PktId /\ \A b \in Pkts(queue) \cup discarded : b.id # i
    BY <1>2, BufferedIs DEF FreeId
  <1> HIDE DEF i
  <1>5. pkt \in Packet /\ pkt.in # pkt.out /\ pkt.id = i /\ pkt.out \in Port
    BY <1>1, <1>4 DEF Packet
  <1>6. \A b \in Pkts(St.queue) \cup discarded : b.id # pkt.id
    BY <1>4, <1>5, StateFields
  <1> HIDE DEF pkt
  <1>7. Good(St, discarded) /\ \A e \in Port : Awake(St, e)
    BY DEF Inv
  <1>8. CASE Admits(St.mmu, pkt)
    <2>1. PICK w : /\ SendToDev(St, pkt) = DequeueAndTransmit(w, pkt.out)
                   /\ Good(w, discarded)
                   /\ \A e \in Port : e # pkt.out => Awake(w, e)
                   /\ Prepared(St, w, discarded)
                   /\ w.paused = St.paused /\ Starts(St, w)
      BY <1>5, <1>6, <1>7, <1>8, PrepareData
    <2>2. Served(w, DequeueAndTransmit(w, pkt.out), discarded)
      BY <1>5, <2>1, Serve
    <2>3. Sends(St, m_paused)
      BY <1>3, <2>1, <2>2, ServedSends, StateFields
    <2> QED BY <1>3, <2>1, <2>2, <2>3 DEF Event
  <1>9. CASE ~ Admits(St.mmu, pkt)
    <2>1. SendToDev(St, pkt) = St
      BY <1>9 DEF SendToDev
    <2> QED BY <1>3, <2>1, StateFields DEF Become, vars
  <1> QED BY <1>8, <1>9

LEMMA HighEvent ==
  ASSUME Inv, NEW f \in Flow, NEW size \in Size, ReceiveHigh(f[1], f[2], size)
  PROVE  Event /\ Sends(St, m_paused)
  <1>1. f[1] \in Port /\ f[2] \in Port
    BY FlowAssumption
  <1>2. Become(SendHighToDev(St, f[1], f[2], size)) /\ UNCHANGED <<linkUp, discarded>>
    BY DEF ReceiveHigh
  <1>3. Good(St, discarded) /\ \A e \in Port : Awake(St, e)
    BY DEF Inv
  <1>4. PICK w : /\ SendHighToDev(St, f[1], f[2], size) = DequeueAndTransmit(w, f[2])
                 /\ Good(w, discarded)
                 /\ \A e \in Port : e # f[2] => Awake(w, e)
                 /\ Prepared(St, w, discarded)
                 /\ w.paused = St.paused /\ Starts(St, w)
    BY <1>1, <1>3, PrepareHigh
  <1>5. Served(w, DequeueAndTransmit(w, f[2]), discarded)
    BY <1>1, <1>4, Serve
  <1>6. Sends(St, m_paused)
    BY <1>2, <1>4, <1>5, ServedSends, StateFields
  <1> QED BY <1>2, <1>4, <1>5, <1>6 DEF Event

LEMMA ResumeEvent ==
  ASSUME Inv, NEW d \in Port, NEW q \in Queue, ReceiveResume(d, q)
  PROVE  Event /\ Sends(St, [m_paused EXCEPT ![d][q] = FALSE])
  <1> DEFINE w == [St EXCEPT !.paused[d][q] = FALSE]
  <1>1. Become(DequeueAndTransmit(w, d)) /\ UNCHANGED <<linkUp, discarded>>
    BY DEF ReceiveResume
  <1>2. Good(St, discarded) /\ \A e \in Port : Awake(St, e)
    BY DEF Inv
  <1>3. /\ Good(w, discarded) /\ Prepared(St, w, discarded)
        /\ \A e \in Port : e # d => Awake(w, e)
    BY <1>2, PrepareFree
  <1>4. w.paused = [m_paused EXCEPT ![d][q] = FALSE] /\ w.cur = St.cur /\ w.wire = St.wire
    BY DEF St
  <1> HIDE DEF w
  <1>5. Served(w, DequeueAndTransmit(w, d), discarded)
    BY <1>3, Serve
  <1>6. Sends(St, w.paused)
    BY <1>1, <1>4, <1>5, StartsNothing, ServedSends
  <1> QED BY <1>1, <1>3, <1>4, <1>5, <1>6 DEF Event

LEMMA CompleteEvent ==
  ASSUME Inv, NEW d \in Port, TransmitComplete(d)
  PROVE  Event /\ Sends([St EXCEPT !.cur[d] = Idle], m_paused)
  <1> DEFINE w == [St EXCEPT !.cur[d] = Idle]
  <1>1. Become(DequeueAndTransmit(w, d)) /\ UNCHANGED <<linkUp, discarded>>
    BY DEF TransmitComplete
  <1>2. Good(St, discarded) /\ \A e \in Port : Awake(St, e)
    BY DEF Inv
  <1>3. /\ Good(w, discarded) /\ Prepared(St, w, discarded)
        /\ \A e \in Port : e # d => Awake(w, e)
    BY <1>2, PrepareFree
  <1>4. w.paused = m_paused
    BY DEF St
  <1> HIDE DEF w
  <1>5. Served(w, DequeueAndTransmit(w, d), discarded)
    BY <1>3, Serve
  <1>6. Sends(w, m_paused)
    BY <1>1, <1>4, <1>5, StartsNothing, ServedSends
  <1> QED BY <1>1, <1>3, <1>5, <1>6 DEF Event, w

\* The actions that are not such events.
Pausing  == \E d \in Port, q \in Queue : ReceivePause(d, q)
Dropping == \E d \in Port : TakeDown(d)

LEMMA Steps ==
  ASSUME Inv, [Next]_vars
  PROVE  Event \/ Pausing \/ Dropping \/ UNCHANGED vars
  <1>1. ASSUME NEW f \in Flow PROVE f[2] \in Port
    BY FlowAssumption
  <1>2. CASE Arrival
    <2>1. CASE \E f \in Flow, q \in Queue, size \in Size : ReceiveData(f[1], f[2], q, size)
      BY <2>1, DataEvent
    <2>2. CASE \E f \in Flow, size \in Size : ReceiveHigh(f[1], f[2], size)
      BY <2>2, HighEvent
    <2>3. CASE \E d \in {f[2] : f \in Flow}, q \in Queue : ReceivePause(d, q)
      BY <1>1, <2>3 DEF Pausing
    <2> QED BY <1>2, <2>1, <2>2, <2>3 DEF Arrival
  <1>3. CASE Progress
    BY <1>3, ResumeEvent, CompleteEvent DEF Progress
  <1> QED BY <1>2, <1>3, FragileAssumption DEF Next, Dropping
-----------------------------------------------------------------------------
(***************************************************************************)
(* The invariant.                                                          *)
(***************************************************************************)
\* With no frame queued, the last one sent is the MMU's decision.
LEMMA NoFrames == ASSUME NEW q \in Queue PROVE Alternates(<<>>, q, FALSE, FALSE)
  <1>1. At(<<>>, q) = {0}
    BY DEF At
  <1>2. On(<<>>, FALSE, 0) = FALSE
    BY DEF On
  <1>3. \A i \in At(<<>>, q), j \in At(<<>>, q) : ~ Adjacent(At(<<>>, q), i, j)
    BY <1>1 DEF Adjacent
  <1>4. \A i \in At(<<>>, q) : On(<<>>, FALSE, i) = FALSE
    BY <1>1, <1>2
  <1> QED BY <1>3, <1>4, AlternatesMeans, Zenon

LEMMA InitInv == Init => Inv
  <1> SUFFICES ASSUME Init PROVE Inv
    OBVIOUS
  <1>1. \A d \in Port, k \in AllQ : queue[d][k] = <<>>
    BY DEF Init
  <1>2. Pkts(queue) = {} /\ discarded = {} /\ mmu = InitMmu
    <2>1. \A d \in Port, k \in Queue : ToSet(queue[d][k]) = {}
      BY <1>1, Queues DEF ToSet
    <2>2. \A b : b \notin Pkts(queue)
      BY <2>1 DEF Pkts
    <2> QED BY <2>2 DEF Init
  <1>3. \A x \in PQ : wire[x] = FALSE /\ mmu.paused[x] = FALSE
    BY DEF Init, InitMmu
  <1>4. St \in State
    <2>1. mmu \in MmuState
      BY <1>2, InitConsistent DEF Consistent
    <2>2. queue \in [Port -> [AllQ -> Seq(Entry)]] /\ wire \in [PQ -> BOOLEAN]
      BY DEF Init
    <2>3. m_rrlast \in [Port -> AllQ] /\ m_paused \in [Port -> [AllQ -> BOOLEAN]]
      BY Queues DEF Init
    <2>4. m_currentPkt \in [Port -> OnWire]
      BY DEF Init, OnWire
    <2>5. m_bytes \in [Port \X Port \X AllQ -> Int]
      BY DEF Init
    <2> QED BY <2>1, <2>2, <2>3, <2>4, <2>5 DEF St, State
  <1>5. Placed(queue) /\ Unique(queue, discarded)
    <2>1. ASSUME NEW d \in Port, NEW k \in Queue
          PROVE  /\ queue[d][0] \in Seq(Frame \cup High)
                 /\ queue[d][k] \in Seq(Packet) /\ Len(queue[d][k]) = 0
      <3>1. queue[d][0] = <<>> /\ queue[d][k] = <<>>
        BY <1>1, Queues
      <3> QED BY <3>1
    <2>2. ASSUME NEW d \in Port PROVE queue[d][0] \in Seq(Frame \cup High)
      <3>1. queue[d][0] = <<>>
        BY <1>1, Queues
      <3> QED BY <3>1
    <2> QED BY <2>1, <2>2 DEF Placed, Unique
  <1>6. Consistent(mmu, Pkts(queue) \cup discarded)
    BY <1>2, InitConsistent
  <1>7. Ledger(m_bytes, Pkts(queue) \cup discarded)
    <2> SUFFICES ASSUME NEW in \in Port, NEW out \in Port, NEW q \in Queue
                 PROVE  m_bytes[<<in, out, q>>] = BytesOf(Along({}, in, out, q))
      BY <1>2 DEF Ledger
    <2>1. Along({}, in, out, q) = {}
      BY DEF Along
    <2>2. m_bytes[<<in, out, q>>] = 0
      BY Queues DEF Init
    <2> QED BY <2>1, <2>2, NoPackets
  <1>8. \A in \in Port, out \in Port : m_bytes[<<in, out, 0>>] \in Nat
    BY Queues DEF Init
  <1>9. FramesAlternate(St)
    <2> SUFFICES ASSUME NEW d \in Port, NEW q \in Queue
                 PROVE  Alternates(queue[d][0], q, wire[<<d, q>>], mmu.paused[<<d, q>>])
      BY StateFields DEF FramesAlternate
    <2>1. <<d, q>> \in PQ
      BY DEF PQ
    <2>2. wire[<<d, q>>] = FALSE /\ mmu.paused[<<d, q>>] = FALSE
      BY <1>3, <2>1
    <2>3. queue[d][0] = <<>>
      BY <1>1, Queues
    <2>4. Alternates(<<>>, q, FALSE, FALSE)
      BY NoFrames
    <2> QED BY <2>2, <2>3, <2>4, Zenon
  <1>10. \A d \in Port : Awake(St, d)
    BY <1>1, Queues, StateFields DEF Awake
  <1>11. linkUp \in [Port -> BOOLEAN]
    BY DEF Init
  <1>12. Good(St, discarded)
    BY <1>4, <1>5, <1>6, <1>7, <1>8, <1>9, StateFields DEF Good
  <1> QED BY <1>10, <1>11, <1>12 DEF Inv

LEMMA EventInv == ASSUME Inv, Event PROVE Inv'
  <1>1. PICK w, t : Served(w, t, discarded) /\ Become(t)
    BY DEF Event
  <1>2. linkUp' = linkUp /\ discarded' = discarded
    BY DEF Event
  <1>3. Good(t, discarded) /\ \A e \in Port : Awake(t, e)
    BY <1>1 DEF Served
  <1>4. St' = t
    BY <1>1, <1>3, BecomeIs DEF Good
  <1>5. FramesAlternate(St)' /\ \A e \in Port : Awake(St, e)'
    BY <1>2, <1>3, <1>4, Zenon DEF Good, FramesAlternate, Awake
  <1>6. Good(St, discarded)'
    BY <1>2, <1>3, <1>4, <1>5 DEF Good
  <1> QED BY <1>2, <1>5, <1>6 DEF Inv

\* What a step does to the parts.
LEMMA StateFieldsNext ==
  /\ St.mmu' = mmu' /\ St.queue' = queue' /\ St.rr' = m_rrlast' /\ St.cur' = m_currentPkt'
  /\ St.paused' = m_paused' /\ St.bytes' = m_bytes' /\ St.wire' = wire'
  BY DEF St

\* A PAUSE only lets fewer queues be served.
LEMMA PauseInv == ASSUME Inv, Pausing PROVE Inv'
  <1>1. PICK d \in Port, q \in Queue : ReceivePause(d, q)
    BY DEF Pausing
  <1>2. /\ m_paused' = [m_paused EXCEPT ![d][q] = TRUE]
        /\ mmu' = mmu /\ queue' = queue /\ m_rrlast' = m_rrlast
        /\ m_currentPkt' = m_currentPkt /\ linkUp' = linkUp /\ m_bytes' = m_bytes
        /\ wire' = wire /\ discarded' = discarded
    BY <1>1 DEF ReceivePause
  <1>3. Good(St, discarded) /\ (\A e \in Port : Awake(St, e)) /\ linkUp \in [Port -> BOOLEAN]
    BY DEF Inv
  <1>4. m_paused \in [Port -> [AllQ -> BOOLEAN]] /\ q \in AllQ
    BY <1>3, Queues DEF Good, State, St
  <1>5. /\ m_paused' \in [Port -> [AllQ -> BOOLEAN]]
        /\ \A e \in Port, k \in AllQ : m_paused[e][k] => m_paused'[e][k]
    BY <1>2, <1>4
  <1>6. St' \in State
    BY <1>2, <1>3, <1>5 DEF Good, State, St
  <1>7. FramesAlternate(St)'
    BY <1>2, <1>3, StateFields, StateFieldsNext, Zenon DEF Good, FramesAlternate
  <1>8. Good(St, discarded)'
    BY <1>2, <1>3, <1>6, <1>7, StateFields, StateFieldsNext DEF Good
  <1>9. ASSUME NEW e \in Port PROVE Awake(St, e)'
    BY <1>2, <1>3, <1>5, Queues, StateFields, StateFieldsNext DEF Awake
  <1> QED BY <1>2, <1>3, <1>8, <1>9 DEF Inv

\* The queues of d are emptied into the set of discarded packets.
Emptied(Q, d) == [Q EXCEPT ![d] = [k \in AllQ |-> <<>>]]
Contents(Q, d) == UNION {ToSet(Q[d][k]) : k \in Queue}

LEMMA DropQueues ==
  ASSUME NEW Q \in AllQueues, NEW D, Placed(Q), Unique(Q, D), NEW d \in Port
  PROVE  /\ Emptied(Q, d) \in AllQueues
         /\ Placed(Emptied(Q, d))
         /\ Unique(Emptied(Q, d), D \cup Contents(Q, d))
         /\ Pkts(Emptied(Q, d)) \cup (D \cup Contents(Q, d)) = Pkts(Q) \cup D
         /\ \A e \in Port : e # d => Emptied(Q, d)[e] = Q[e]
  <1> DEFINE R == Emptied(Q, d)
             F == Contents(Q, d)
             E == D \cup F
  <1>1. /\ R \in AllQueues
        /\ \A e \in Port : e # d => R[e] = Q[e]
        /\ \A k \in AllQ : R[d][k] = <<>>
    BY DEF AllQueues, Emptied
  <1>2. \A b : b \in F <=> \E k \in Queue : \E i \in 1..Len(Q[d][k]) : b = Q[d][k][i]
    <2> TAKE b
    <2>1. b \in F <=> \E k \in Queue : b \in ToSet(Q[d][k])
      BY DEF Contents
    <2>2. ASSUME NEW k \in Queue PROVE DOMAIN Q[d][k] = 1..Len(Q[d][k])
      <3>1. Q[d][k] \in Seq(Packet)
        BY DEF Placed
      <3> QED BY <3>1
    <2>3. \A k \in Queue : b \in ToSet(Q[d][k]) <=> \E i \in 1..Len(Q[d][k]) : b = Q[d][k][i]
      BY <2>2 DEF ToSet
    <2> QED BY <2>1, <2>3
  <1> HIDE DEF R, F
  <1>3. Placed(R)
    <2> SUFFICES ASSUME NEW e \in Port
                 PROVE  /\ R[e][0] \in Seq(Frame \cup High)
                        /\ \A k \in Queue :
                             /\ R[e][k] \in Seq(Packet)
                             /\ \A i \in 1..Len(R[e][k]) :
                                  R[e][k][i].out = e /\ R[e][k][i].q = k /\ R[e][k][i].in # e
      BY DEF Placed
    <2>1. CASE e = d
      <3>1. \A k \in AllQ : R[e][k] = <<>>
        BY <1>1, <2>1
      <3>2. R[e][0] \in Seq(Frame \cup High)
        <4>1. R[e][0] = <<>>
          BY <3>1, Queues
        <4> QED BY <4>1
      <3>3. ASSUME NEW k \in Queue PROVE R[e][k] \in Seq(Packet) /\ Len(R[e][k]) = 0
        <4>1. R[e][k] = <<>>
          BY <3>1, Queues
        <4> QED BY <4>1
      <3> QED BY <3>2, <3>3
    <2>2. CASE e # d
      BY <1>1, <2>2 DEF Placed
    <2> QED BY <2>1, <2>2
  <1>4. Unique(R, E)
    <2> SUFFICES ASSUME NEW e \in Port, NEW k \in Queue, NEW i \in 1..Len(R[e][k])
                 PROVE  /\ \A j \in 1..Len(R[e][k]) : R[e][k][i] = R[e][k][j] => i = j
                        /\ R[e][k][i] \notin E
      BY DEF Unique
    <2>1. e # d
      <3> SUFFICES ASSUME e = d PROVE FALSE
        OBVIOUS
      <3>1. R[e][k] = <<>>
        BY <1>1, Queues
      <3>2. Len(R[e][k]) = 0
        BY <3>1
      <3> QED BY <3>2
    <2>2. R[e] = Q[e]
      BY <1>1, <2>1
    <2>3. R[e][k][i] \notin F
      <3>1. R[e][k][i].out = e
        BY <2>2 DEF Placed
      <3>2. \A b \in F : b.out = d
        BY <1>2 DEF Placed
      <3> QED BY <2>1, <3>1, <3>2
    <2>4. R[e][k][i] \notin D
      BY <2>2 DEF Unique
    <2> QED BY <2>2, <2>3, <2>4 DEF Unique
  <1>5. Pkts(R) \cup E = Pkts(Q) \cup D
    <2> SUFFICES ASSUME NEW b PROVE b \in Pkts(R) \/ b \in F <=> b \in Pkts(Q)
      OBVIOUS
    <2>1. ASSUME b \in Pkts(R) PROVE b \in Pkts(Q)
      <3>1. PICK e \in Port, k \in Queue : \E i \in 1..Len(R[e][k]) : b = R[e][k][i]
        BY <1>1, <2>1, InPkts
      <3>2. e # d
        <4> SUFFICES ASSUME e = d PROVE FALSE
          OBVIOUS
        <4>1. R[e][k] = <<>>
          BY <1>1, Queues
        <4>2. Len(R[e][k]) = 0
          BY <4>1
        <4> QED BY <3>1, <4>2
      <3>3. R[e] = Q[e]
        BY <1>1, <3>2
      <3> QED BY <3>1, <3>3, InPkts
    <2>2. ASSUME b \in F PROVE b \in Pkts(Q)
      BY <1>2, <2>2, InPkts
    <2>3. ASSUME b \in Pkts(Q) PROVE b \in Pkts(R) \/ b \in F
      <3>1. PICK e \in Port, k \in Queue : \E i \in 1..Len(Q[e][k]) : b = Q[e][k][i]
        BY <2>3, InPkts
      <3>2. CASE e = d
        BY <1>2, <3>1, <3>2
      <3>3. CASE e # d
        <4>1. R[e] = Q[e]
          BY <1>1, <3>3
        <4> QED BY <1>1, <3>1, <4>1, InPkts
      <3> QED BY <3>2, <3>3
    <2> QED BY <2>1, <2>2, <2>3
  <1> QED BY <1>1, <1>3, <1>4, <1>5 DEF R, F

\* TakeDown: the accounting now counts the discarded packets.
LEMMA DropInv == ASSUME Inv, Dropping PROVE Inv'
  <1>1. PICK d \in Port : TakeDown(d)
    BY DEF Dropping
  <1>2. /\ linkUp' = [linkUp EXCEPT ![d] = FALSE]
        /\ m_paused' = [m_paused EXCEPT ![d] = [k \in AllQ |-> FALSE]]
        /\ queue' = [queue EXCEPT ![d] = [k \in AllQ |-> <<>>]]
        /\ discarded' = discarded \cup UNION {ToSet(queue[d][k]) : k \in Queue}
        /\ mmu' = mmu /\ m_rrlast' = m_rrlast /\ m_currentPkt' = m_currentPkt
        /\ m_bytes' = m_bytes /\ wire' = wire
    BY <1>1 DEF TakeDown, Queued
  <1>3. Good(St, discarded) /\ (\A e \in Port : Awake(St, e)) /\ linkUp \in [Port -> BOOLEAN]
    BY DEF Inv
  <1>4. /\ queue \in AllQueues /\ Placed(queue) /\ Unique(queue, discarded)
        /\ m_paused \in [Port -> [AllQ -> BOOLEAN]]
    BY <1>3, StateFields DEF Good, State, AllQueues
  <1>5. /\ queue' \in AllQueues /\ Placed(queue') /\ Unique(queue', discarded')
        /\ Pkts(queue') \cup discarded' = Pkts(queue) \cup discarded
        /\ \A e \in Port : e # d => queue'[e] = queue[e]
    <2>1. queue' = Emptied(queue, d) /\ discarded' = discarded \cup Contents(queue, d)
      BY <1>2 DEF Emptied, Contents
    <2> QED BY <1>4, <2>1, DropQueues
  <1>6. /\ linkUp' \in [Port -> BOOLEAN] /\ ~ linkUp'[d]
        /\ m_paused' \in [Port -> [AllQ -> BOOLEAN]]
        /\ \A e \in Port : e # d => linkUp'[e] = linkUp[e] /\ m_paused'[e] = m_paused[e]
    BY <1>2, <1>3, <1>4
  <1>7. St' \in State
    BY <1>2, <1>3, <1>5, <1>6 DEF Good, State, St, AllQueues
  <1>8. FramesAlternate(St)'
    <2> SUFFICES ASSUME NEW e \in Port, NEW q \in Queue, linkUp'[e]
                 PROVE  Alternates(queue'[e][0], q, wire'[<<e, q>>], mmu'.paused[<<e, q>>])
      BY StateFieldsNext, Zenon DEF FramesAlternate
    <2>1. e # d
      BY <1>6
    <2>2. queue'[e] = queue[e] /\ linkUp[e]
      BY <1>5, <1>6, <2>1
    <2>3. Alternates(queue[e][0], q, wire[<<e, q>>], mmu.paused[<<e, q>>])
      BY <1>3, <2>2, StateFields, Zenon DEF Good, FramesAlternate
    <2> QED BY <1>2, <2>2, <2>3, Zenon
  <1>9. Good(St, discarded)'
    BY <1>2, <1>3, <1>5, <1>7, <1>8, StateFields, StateFieldsNext DEF Good
  <1>10. ASSUME NEW e \in Port PROVE Awake(St, e)'
    BY <1>2, <1>3, <1>5, <1>6, StateFields, StateFieldsNext DEF Awake
  <1> QED BY <1>6, <1>9, <1>10 DEF Inv

LEMMA NextInv == Inv /\ [Next]_vars => Inv'
  <1> SUFFICES ASSUME Inv, [Next]_vars PROVE Inv'
    OBVIOUS
  <1>1. CASE UNCHANGED vars
    <2>1. UNCHANGED <<St, linkUp, discarded>>
      BY <1>1 DEF vars, St
    <2> QED BY <2>1, Zenon DEF Inv, Good, FramesAlternate, Awake
  <1> QED BY <1>1, Steps, EventInv, PauseInv, DropInv

\* Invariance holds of every switch, whatever its number of devices and
\* priorities, its routes, the sizes of packets and the configuration of its MMU.
THEOREM Invariance == Spec => []Inv
  BY InitInv, NextInv, PTL DEF Spec

\* The types of all variables; in particular m_bytes, an unsigned number that
\* SwitchNotifyDequeue subtracts from, never wraps around.
THEOREM TypeCorrect == Spec => []TypeOK
  <1>1. ASSUME Inv PROVE TypeOK
    <2>1. St \in State /\ linkUp \in [Port -> BOOLEAN] /\ Placed(queue)
      BY <1>1, StateFields DEF Inv, Good
    <2>2. /\ mmu \in MmuState /\ m_rrlast \in [Port -> AllQ]
          /\ m_currentPkt \in [Port -> OnWire]
          /\ m_paused \in [Port -> [AllQ -> BOOLEAN]]
          /\ m_bytes \in [Port \X Port \X AllQ -> Int]
          /\ wire \in [PQ -> BOOLEAN]
      BY <2>1, StateFields DEF State
    <2>3. /\ Consistent(mmu, Pkts(queue) \cup discarded)
          /\ Ledger(m_bytes, Pkts(queue) \cup discarded)
          /\ \A in \in Port, out \in Port : m_bytes[<<in, out, 0>>] \in Nat
      BY <1>1, StateFields DEF Inv, Good
    <2>4. IsFiniteSet(CellsOf(Pkts(queue) \cup discarded)) /\ discarded \subseteq Packet
      BY <2>3 DEF Consistent
    <2>5. ASSUME NEW in \in Port, NEW out \in Port, NEW k \in Queue
          PROVE  m_bytes[<<in, out, k>>] \in Nat
      <3>1. Along(Pkts(queue) \cup discarded, in, out, k) \subseteq Pkts(queue) \cup discarded
        BY DEF Along
      <3>2. BytesOf(Along(Pkts(queue) \cup discarded, in, out, k)) \in Nat
        BY <2>4, <3>1, FewerPackets, FS_CardinalityType DEF BytesOf
      <3> QED BY <2>3, <3>2 DEF Ledger
    <2>6. m_bytes \in [Port \X Port \X AllQ -> Nat]
      <3>1. \A in \in Port, out \in Port, k \in AllQ : m_bytes[<<in, out, k>>] \in Nat
        BY <2>3, <2>5, Queues
      <3> QED BY <2>2, <3>1
    <2> QED BY <2>1, <2>2, <2>4, <2>6 DEF TypeOK, Placed, OnWire
  <1> QED BY <1>1, Invariance, PTL

\* A device of a link that is up never sleeps on a packet it may send, after
\* any chain of calls between the devices that share the switch.
THEOREM NoWakeupLost == Spec => []NoLostWakeup
  <1>1. Inv => NoLostWakeup
    BY StateFields DEF Inv, Awake, NoLostWakeup
  <1> QED BY <1>1, Invariance, PTL

\* m_bytes is what its comment says, for every pair of devices and every
\* accounted priority.
THEOREM BytesExact == Spec => []BytesMatchQueues
  <1>1. ASSUME Inv PROVE BytesMatchQueues
    <2> SUFFICES ASSUME NEW in \in Port, NEW out \in Port, NEW q \in Queue
                 PROVE  m_bytes[<<in, out, q>>] = BytesOfFlow(in, out, q)
      BY DEF BytesMatchQueues
    <2>1. queue \in AllQueues /\ Placed(queue)
      BY <1>1, StateFields DEF Inv, Good, State, AllQueues
    <2>2. m_bytes[<<in, out, q>>] = BytesOf(Along(Pkts(queue) \cup discarded, in, out, q))
      BY <1>1, StateFields DEF Inv, Good, Ledger
    <2>3. ASSUME NEW b \in Pkts(queue), b.out = out, b.q = q PROVE b \in Queued(out, q)
      <3>1. PICK d \in Port, k \in Queue : \E i \in 1..Len(queue[d][k]) : b = queue[d][k][i]
        BY <2>1, InPkts
      <3>2. d = out /\ k = q
        BY <2>1, <2>3, <3>1 DEF Placed
      <3>3. queue[d][k] \in Seq(Packet)
        BY <2>1 DEF Placed
      <3>4. \A i \in 1..Len(queue[d][k]) : queue[d][k][i] \in ToSet(queue[d][k])
        BY <3>3 DEF ToSet
      <3> QED BY <3>1, <3>2, <3>4 DEF Queued
    <2>4. Queued(out, q) \subseteq Pkts(queue)
      BY DEF Queued, Pkts
    <2>5. Along(Pkts(queue) \cup discarded, in, out, q)
            = {b \in Queued(out, q) \cup discarded : b.in = in /\ b.out = out /\ b.q = q}
      BY <2>3, <2>4 DEF Along
    <2> QED BY <2>2, <2>5 DEF BytesOfFlow
  <1> QED BY <1>1, Invariance, PTL

\* The PFC frames of every device and priority alternate, from the last one
\* sent to the MMU's decision: no neighbour gets a RESUME it did not wait for.
THEOREM PfcAlternation == Spec => []PfcAlternates
  <1>1. ASSUME Inv PROVE PfcAlternates
    <2>1. FramesAlternate(St)
      BY <1>1 DEF Inv, Good
    <2> QED BY <2>1, StateFields, Zenon DEF FramesAlternate, PfcAlternates
  <1> QED BY <1>1, Invariance, PTL
-----------------------------------------------------------------------------
(***************************************************************************)
(* Round robin, and the shared buffer the switch implements.               *)
(***************************************************************************)
LEMMA FairStep ==
  ASSUME Inv, Inv', [Next]_vars
  PROVE  [\A d \in Port, k \in Queue :
            linkUp'[d] /\ m_rrlast[d] = k /\ Len(queue'[d][k]) < Len(queue[d][k]) =>
              \A j \in Queue \ {k} : m_paused'[d][j] \/ queue[d][j] = <<>>]_vars
  <1> SUFFICES ASSUME ~ UNCHANGED vars, NEW d \in Port, NEW k \in Queue,
                      linkUp'[d], m_rrlast[d] = k, Len(queue'[d][k]) < Len(queue[d][k]),
                      NEW j \in Queue \ {k}
               PROVE  m_paused'[d][j] \/ queue[d][j] = <<>>
    OBVIOUS
  <1>1. Placed(queue) /\ Placed(queue')
    BY StateFields, StateFieldsNext DEF Inv, Good
  <1>2. Len(queue[d][k]) \in Nat /\ Len(queue'[d][k]) \in Nat
    BY <1>1, Lengths
  <1>3. CASE Event
    <2>1. PICK w, t : /\ Prepared(St, w, discarded) /\ Good(w, discarded)
                      /\ Served(w, t, discarded) /\ Become(t)
      BY <1>3 DEF Event
    <2>2. Len(w.queue[d][k]) \in Nat
      BY <2>1, Lengths DEF Good
    <2>3. /\ Len(queue[d][k]) <= Len(w.queue[d][k]) /\ w.rr[d] = k
          /\ w.queue[d][j] = <<>> => queue[d][j] = <<>>
      BY <2>1, StateFields DEF Prepared
    <2>4. InTurn(w, t) /\ t.paused = w.paused /\ queue' = t.queue /\ m_paused' = t.paused
      BY <2>1 DEF Served, Become
    <2>5. Len(t.queue[d][k]) < Len(w.queue[d][k])
      <3> DEFINE a == Len(queue[d][k])
                 b == Len(w.queue[d][k])
                 c == Len(queue'[d][k])
      <3>1. a \in Nat /\ b \in Nat /\ c \in Nat /\ c < a /\ a <= b
        BY <1>2, <2>2, <2>3
      <3> HIDE DEF a, b, c
      <3>2. c < b
        BY <3>1
      <3> QED BY <2>4, <3>2 DEF b, c
    <2>6. w.paused[d][j] \/ w.queue[d][j] = <<>>
      BY <2>3, <2>4, <2>5 DEF InTurn
    <2> QED BY <2>3, <2>4, <2>6
  <1>4. CASE Pausing
    BY <1>2, <1>4 DEF Pausing, ReceivePause
  <1>5. CASE Dropping
    <2>1. PICK e \in Port : TakeDown(e)
      BY <1>5 DEF Dropping
    <2>2. /\ linkUp' = [linkUp EXCEPT ![e] = FALSE] /\ linkUp \in [Port -> BOOLEAN]
          /\ queue' = Emptied(queue, e)
      BY <2>1 DEF TakeDown, Emptied, Inv
    <2>3. e # d
      BY <2>2
    <2>4. queue \in AllQueues
      BY StateFields DEF Inv, Good, State, AllQueues
    <2>5. queue'[d] = queue[d]
      BY <2>2, <2>3, <2>4 DEF AllQueues, Emptied
    <2> QED BY <1>2, <2>5
  <1> QED BY <1>3, <1>4, <1>5, Steps

\* No queue of a device is served twice in a row while another one that is not
\* paused waits, through every chain of calls an event sets off.
THEOREM RoundRobinFair == Spec => RoundRobin
  <1>1. Inv /\ Inv' /\ [Next]_vars =>
          [\A d \in Port, k \in Queue :
             linkUp'[d] /\ m_rrlast[d] = k /\ Len(queue'[d][k]) < Len(queue[d][k]) =>
               \A j \in Queue \ {k} : m_paused'[d][j] \/ queue[d][j] = <<>>]_vars
    BY FairStep
  <1> QED BY <1>1, Invariance, PTL DEF Spec, RoundRobin

\* The instance Buffer computes with the MMU of this switch.
LEMMA SamePool == Buffer!total_hdrm = total_hdrm /\ Buffer!total_rsrv = total_rsrv
  <1>1. Buffer!Cardinality(Port) = Cardinality(Port)
    BY DEF Buffer!Cardinality, Cardinality
  <1>2. Buffer!total_hdrm = total_hdrm
    BY DEF Buffer!total_hdrm, total_hdrm, Buffer!PortCells, PortCells,
           Buffer!Cardinality, Cardinality
  <1> QED BY <1>1, <1>2 DEF Buffer!total_rsrv, total_rsrv

LEMMA SameTests ==
  /\ Buffer!PQ = PQ /\ Buffer!Packet = Packet /\ Buffer!InitMmu = InitMmu
  /\ \A a, b : Buffer!MinOf(a, b) = MinOf(a, b)
  /\ \A m, p : Buffer!GetPfcThreshold(m, p) = GetPfcThreshold(m, p)
  /\ \A m, p, q : Buffer!GetSharedUsed(m, p, q) = GetSharedUsed(m, p, q)
  <1>1. \A m, p : Buffer!GetPfcThreshold(m, p) = GetPfcThreshold(m, p)
    BY SamePool DEF Buffer!GetPfcThreshold, GetPfcThreshold
  <1>2. Buffer!PQ = PQ /\ Buffer!Packet = Packet
    BY DEF Buffer!PQ, PQ, Buffer!Packet, Packet
  <1>3. Buffer!InitMmu = InitMmu
    BY <1>2 DEF Buffer!InitMmu, InitMmu
  <1>4. \A a, b : Buffer!MinOf(a, b) = MinOf(a, b)
    BY DEF Buffer!MinOf, MinOf
  <1>5. \A m, p, q : Buffer!GetSharedUsed(m, p, q) = GetSharedUsed(m, p, q)
    BY DEF Buffer!GetSharedUsed, GetSharedUsed
  <1> QED BY <1>1, <1>2, <1>3, <1>4, <1>5

LEMMA SameUpdates ==
  /\ \A m, p, q, n : Buffer!CheckIngressAdmission(m, p, q, n) <=> CheckIngressAdmission(m, p, q, n)
  /\ \A m, p, q, n : Buffer!UpdateIngressAdmission(m, p, q, n) = UpdateIngressAdmission(m, p, q, n)
  /\ \A m, p, q, n : Buffer!UpdateEgressAdmission(m, p, q, n) = UpdateEgressAdmission(m, p, q, n)
  /\ \A m, p, q, n :
       Buffer!RemoveFromIngressAdmission(m, p, q, n) = RemoveFromIngressAdmission(m, p, q, n)
  /\ \A m, p, q, n :
       Buffer!RemoveFromEgressAdmission(m, p, q, n) = RemoveFromEgressAdmission(m, p, q, n)
  /\ \A m, p, q : Buffer!CheckShouldPause(m, p, q) <=> CheckShouldPause(m, p, q)
  /\ \A m, p, q : Buffer!CheckShouldResume(m, p, q) <=> CheckShouldResume(m, p, q)
  /\ \A m, p, q : Buffer!SetPause(m, p, q) = SetPause(m, p, q)
  /\ \A m, p, q : Buffer!SetResume(m, p, q) = SetResume(m, p, q)
  <1>1. \A m, p, q, n : Buffer!CheckIngressAdmission(m, p, q, n) <=> CheckIngressAdmission(m, p, q, n)
    BY SameTests DEF Buffer!CheckIngressAdmission, CheckIngressAdmission
  <1>2. \A m, p, q, n : Buffer!UpdateIngressAdmission(m, p, q, n) = UpdateIngressAdmission(m, p, q, n)
    BY DEF Buffer!UpdateIngressAdmission, UpdateIngressAdmission, Buffer!MinOf, MinOf,
           Buffer!GetPfcThreshold, GetPfcThreshold, Buffer!total_hdrm, total_hdrm,
           Buffer!PortCells, PortCells, Buffer!total_rsrv, total_rsrv, Buffer!Cardinality, Cardinality
  <1>3. \A m, p, q, n : Buffer!UpdateEgressAdmission(m, p, q, n) = UpdateEgressAdmission(m, p, q, n)
    BY DEF Buffer!UpdateEgressAdmission, UpdateEgressAdmission
  <1>4. \A m, p, q, n :
          Buffer!RemoveFromIngressAdmission(m, p, q, n) = RemoveFromIngressAdmission(m, p, q, n)
    BY DEF Buffer!RemoveFromIngressAdmission, RemoveFromIngressAdmission,
           Buffer!MinOf, MinOf, Buffer!GetSharedUsed, GetSharedUsed
  <1>5. \A m, p, q, n :
          Buffer!RemoveFromEgressAdmission(m, p, q, n) = RemoveFromEgressAdmission(m, p, q, n)
    BY DEF Buffer!RemoveFromEgressAdmission, RemoveFromEgressAdmission
  <1>6. \A m, p, q : Buffer!CheckShouldPause(m, p, q) <=> CheckShouldPause(m, p, q)
    BY SameTests DEF Buffer!CheckShouldPause, CheckShouldPause
  <1>7. \A m, p, q : Buffer!CheckShouldResume(m, p, q) <=> CheckShouldResume(m, p, q)
    BY SameTests DEF Buffer!CheckShouldResume, CheckShouldResume
  <1>8. \A m, p, q : Buffer!SetPause(m, p, q) = SetPause(m, p, q)
    BY DEF Buffer!SetPause, SetPause
  <1>9. \A m, p, q : Buffer!SetResume(m, p, q) = SetResume(m, p, q)
    BY DEF Buffer!SetResume, SetResume
  <1> QED BY <1>1, <1>2, <1>3, <1>4, <1>5, <1>6, <1>7, <1>8, <1>9

LEMMA SameMmu ==
  /\ \A m, pkt : Buffer!Admits(m, pkt) <=> Admits(m, pkt)
  /\ \A m, pkt : Buffer!Enter(m, pkt) = Enter(m, pkt)
  /\ \A m, pkt : Buffer!Leave(m, pkt) = Leave(m, pkt)
  <1>1. \A m, pkt : Buffer!Admits(m, pkt) <=> Admits(m, pkt)
    BY SameUpdates DEF Buffer!Admits, Admits
  <1>2. \A m, pkt : Buffer!Enter(m, pkt) = Enter(m, pkt)
    BY SameUpdates DEF Buffer!Enter, Enter
  <1>3. \A m, pkt : Buffer!Leave(m, pkt) = Leave(m, pkt)
    BY SameUpdates DEF Buffer!Leave, Leave
  <1> QED BY <1>1, <1>2, <1>3

LEMMA BufferedNext == Buffered' = Pkts(queue')
  BY DEF Buffered, Queued, Pkts

\* Every event is a step of the shared buffer, or leaves it as it is.
LEMMA RefineStep == ASSUME Inv, [Next]_vars PROVE [Buffer!Next]_(Buffer!vars)
  <1> DEFINE H == Pkts(queue) \cup discarded
             G == Pkts(queue') \cup discarded'
  <1>1. Buffered \cup discarded = H /\ (Buffered \cup discarded)' = G
    BY BufferedIs, BufferedNext
  <1>2. ASSUME mmu' = mmu, G = H PROVE UNCHANGED Buffer!vars
    BY <1>1, <1>2 DEF Buffer!vars
  <1>3. Consistent(mmu, H)
    BY StateFields DEF Inv, Good
  <1> HIDE DEF H, G
  <1>4. H \subseteq Packet
    BY <1>3 DEF Consistent
  <1>5. ASSUME NEW pkt \in Packet, \A b \in H : b.id # pkt.id, Admits(mmu, pkt),
               mmu' = Enter(mmu, pkt), G = H \cup {pkt}
        PROVE  Buffer!Next
    <2>1. Buffer!Receive(pkt)
      BY <1>1, <1>5, SameMmu DEF Buffer!Receive, Buffer!Fresh
    <2> QED BY <2>1, SameTests DEF Buffer!Next
  <1>6. ASSUME NEW b \in H, mmu' = Leave(mmu, b), G = H \ {b}
        PROVE  Buffer!Next
    <2>1. Buffer!Dequeue(b)
      BY <1>1, <1>6, SameMmu DEF Buffer!Dequeue
    <2> QED BY <1>1, <2>1 DEF Buffer!Next
  <1>7. ASSUME NEW pkt \in Packet, \A b \in H : b.id # pkt.id, Admits(mmu, pkt),
               NEW b \in H \cup {pkt}, mmu' = Leave(Enter(mmu, pkt), b),
               G = (H \cup {pkt}) \ {b}
        PROVE  Buffer!Next
    <2>1. Buffer!ReceiveAndDequeue(pkt, b)
      BY <1>1, <1>7, SameMmu DEF Buffer!ReceiveAndDequeue, Buffer!Fresh
    <2> QED BY <1>1, <2>1, SameTests DEF Buffer!Next
  <1>8. CASE Event
    <2>1. PICK w, t : /\ Prepared(St, w, discarded) /\ Served(w, t, discarded) /\ Become(t)
      BY <1>8 DEF Event
    <2>2. discarded' = discarded /\ mmu' = t.mmu /\ queue' = t.queue
      BY <1>8, <2>1 DEF Event, Become
    <2>3. \/ w.mmu = mmu /\ Pkts(w.queue) \cup discarded = H
          \/ \E pkt \in Packet :
               /\ \A b \in H : b.id # pkt.id
               /\ Admits(mmu, pkt)
               /\ w.mmu = Enter(mmu, pkt)
               /\ Pkts(w.queue) \cup discarded = H \cup {pkt}
      <3>1. \/ w.mmu = mmu /\ Pkts(w.queue) = Pkts(queue)
            \/ \E pkt \in Packet :
                 /\ \A b \in Pkts(queue) \cup discarded : b.id # pkt.id
                 /\ Admits(mmu, pkt)
                 /\ w.mmu = Enter(mmu, pkt)
                 /\ Pkts(w.queue) = Pkts(queue) \cup {pkt}
        BY <2>1, StateFields DEF Prepared
      <3>2. \A pkt : (Pkts(queue) \cup {pkt}) \cup discarded = H \cup {pkt}
        BY DEF H
      <3> QED BY <3>1, <3>2 DEF H
    <2>4. \/ mmu' = w.mmu /\ G = Pkts(w.queue) \cup discarded
          \/ \E b \in Pkts(w.queue) \cup discarded :
               /\ mmu' = Leave(w.mmu, b)
               /\ G = (Pkts(w.queue) \cup discarded) \ {b}
      BY <2>1, <2>2 DEF Served, Released, G
    <2> DEFINE W == Pkts(w.queue) \cup discarded
    <2> HIDE DEF W
    <2>5. CASE w.mmu = mmu /\ W = H
      BY <1>2, <1>6, <2>4, <2>5 DEF W
    <2>6. CASE \E pkt \in Packet :
                 /\ \A b \in H : b.id # pkt.id
                 /\ Admits(mmu, pkt)
                 /\ w.mmu = Enter(mmu, pkt)
                 /\ W = H \cup {pkt}
      <3>1. PICK pkt \in Packet : /\ \A b \in H : b.id # pkt.id
                                  /\ Admits(mmu, pkt)
                                  /\ w.mmu = Enter(mmu, pkt)
                                  /\ W = H \cup {pkt}
        BY <2>6
      <3>2. CASE mmu' = w.mmu /\ G = W
        BY <1>5, <3>1, <3>2
      <3>3. CASE \E b \in W : mmu' = Leave(w.mmu, b) /\ G = W \ {b}
        <4>1. PICK b \in H \cup {pkt} : /\ mmu' = Leave(Enter(mmu, pkt), b)
                                        /\ G = (H \cup {pkt}) \ {b}
          BY <3>1, <3>3
        <4> QED BY <1>7, <3>1, <4>1
      <3> QED BY <2>4, <3>2, <3>3 DEF W
    <2> QED BY <2>3, <2>5, <2>6 DEF W
  <1>9. CASE Pausing
    <2>1. mmu' = mmu /\ queue' = queue /\ discarded' = discarded
      BY <1>9 DEF Pausing, ReceivePause
    <2> QED BY <1>2, <2>1 DEF H, G
  <1>10. CASE Dropping
    <2>1. PICK d \in Port : TakeDown(d)
      BY <1>10 DEF Dropping
    <2>2. /\ queue' = Emptied(queue, d) /\ discarded' = discarded \cup Contents(queue, d)
          /\ mmu' = mmu
      BY <2>1 DEF TakeDown, Queued, Emptied, Contents
    <2>3. queue \in AllQueues /\ Placed(queue) /\ Unique(queue, discarded)
      BY StateFields DEF Inv, Good, State, AllQueues
    <2>4. G = H
      BY <2>2, <2>3, DropQueues DEF G, H
    <2> QED BY <1>2, <2>2, <2>4
  <1>11. CASE UNCHANGED vars
    BY <1>2, <1>11 DEF vars, H, G
  <1> QED BY <1>8, <1>9, <1>10, <1>11, Steps

\* The switch, with its devices, queues and chains of calls, implements the
\* shared buffer: what the theorems of SwitchBufferProofs say of the counters
\* of the MMU holds of every switch.
THEOREM Refinement == Spec => BufferSpec
  <1>1. Init => Buffer!Init
    <2> SUFFICES ASSUME Init PROVE Buffer!Init
      OBVIOUS
    <2>1. \A d \in Port, k \in Queue : queue[d][k] = <<>>
      BY Queues DEF Init
    <2>2. \A d \in Port, k \in Queue : ToSet(queue[d][k]) = {}
      BY <2>1 DEF ToSet
    <2>3. \A b : b \notin Pkts(queue)
      BY <2>2 DEF Pkts
    <2>4. Buffered \cup discarded = {}
      BY <2>3, BufferedIs DEF Init
    <2> QED BY <2>4, SameTests DEF Init, Buffer!Init
  <1>2. Inv /\ [Next]_vars => [Buffer!Next]_(Buffer!vars)
    BY RefineStep
  <1> QED BY <1>1, <1>2, Invariance, PTL DEF Spec, BufferSpec, Buffer!Spec
=============================================================================
