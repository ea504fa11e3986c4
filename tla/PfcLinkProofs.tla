---------------------------- MODULE PfcLinkProofs ----------------------------
(***************************************************************************)
(* Priority flow control between one switch and its hosts, for every       *)
(* number of hosts, every set of flows, and every size of packets and      *)
(* buffers.  What the switch does by itself is taken from                  *)
(* SwitchNodeProofs.                                                       *)
(***************************************************************************)
EXTENDS PfcLink, SwitchNodeProofs

Nic ==
  [ cur : Item \cup {Idle}, paused : BOOLEAN, ackQ : Seq({Ack} \cup Frame), left : Nat,
    got : Nat, opened : BOOLEAN, enable : BOOLEAN, times : Nat, resume : BOOLEAN,
    rearm : BOOLEAN ]

\* What is on a wire and what is being put on it, c.
Ends(z, c) == IF c = Idle THEN z ELSE Append(z, c)

\* The frames on the way to a host lead from the pauses it obeys to the last
\* frame its device of the switch has begun to send.
Down(z, c, p, w) == Alternates(Ends(z, c), q, p, w)

\* The frames on the way from host n, on the wire z and in m_ackQ, lead from the
\* pause p the switch obeys to whether PCIeResume is pending.
Up(z, n, p) ==
  \E w \in BOOLEAN : Alternates(Ends(z, n.cur), q, p, w) /\ Alternates(n.ackQ, q, w, n.resume)

\* A PCIe pause is not begun before the last one has ended.
OnePause(n) == /\ ~ (n.resume /\ n.enable) /\ ~ (n.resume /\ n.rearm)
               /\ ~ (n.rearm /\ n.enable)

\* A host that does not send has nothing that it may send.
NicAwake(n) ==
  n.cur = Idle => /\ n.ackQ # <<>> => AckPaused(n)
                  /\ n.left > 0 => n.paused

LinkInv ==
  /\ Inv
  /\ \A h \in Port : linkUp[h]
  /\ discarded = {}
  /\ host \in [Port -> Nic]
  /\ toHost \in [Port -> Seq(Frame \cup Sent)]
  /\ toSwitch \in [Port -> Seq(Item)]
  /\ \A h \in Port :
       /\ Down(toHost[h], m_currentPkt[h], host[h].paused, wire[<<h, q>>])
       /\ Up(toSwitch[h], host[h], m_paused[h][q])
       /\ OnePause(host[h])
       /\ NicAwake(host[h])
-----------------------------------------------------------------------------
(***************************************************************************)
(* The NIC of a host.                                                      *)
(***************************************************************************)
LEMMA OneQueue == q \in Queue /\ \A k \in Queue : k = q
  BY LinkAssumption DEF q

\* What travels on the wires.
LEMMA Items ==
  /\ Data \in Item /\ Ack \in Item /\ Data \in Sent /\ Ack \in Sent /\ Data # Ack
  /\ ~ Data.pfc /\ ~ Ack.pfc /\ ~ Idle.pfc /\ Data # Idle /\ Ack # Idle
  /\ Data.size = DataSize /\ Ack.size = AckSize /\ DataSize \in Size /\ AckSize \in Size
  /\ \A x \in Frame : /\ x \in Item /\ x # Idle /\ x.pfc = TRUE /\ x.q = q /\ x.on \in BOOLEAN
                      /\ x = Pfc(q, x.on) /\ x # Data /\ x # Ack
  /\ \A on \in BOOLEAN : Pfc(q, on) \in Frame /\ Pfc(q, on).on = on
  /\ \A x \in Item : x # Idle
  <1>1. DataSize \in Size /\ AckSize \in Size /\ DataSize # AckSize
    BY LinkAssumption
  <1>2. DataSize # 0 /\ AckSize # 0
    BY <1>1, SizeAssumption
  <1>3. /\ Data \in Sent /\ Ack \in Sent /\ Data # Ack
        /\ Data.pfc = FALSE /\ Ack.pfc = FALSE /\ Idle.pfc = FALSE
        /\ Data.size = DataSize /\ Ack.size = AckSize /\ Idle.size = 0
    BY <1>1 DEF Data, Ack, Idle, Sent
  <1>4. \A x \in Frame : x.pfc = TRUE /\ x.q = q /\ x.on \in BOOLEAN /\ x = Pfc(q, x.on)
    <2> TAKE x \in Frame
    <2>1. x = [pfc |-> x.pfc, q |-> x.q, on |-> x.on] /\ x.pfc = TRUE /\ x.q \in Queue /\ x.on \in BOOLEAN
      BY DEF Frame
    <2>2. x.q = q
      BY <2>1, OneQueue
    <2> QED BY <2>1, <2>2 DEF Pfc
  <1>5. \A on \in BOOLEAN : Pfc(q, on) \in Frame /\ Pfc(q, on).on = on
    BY OneQueue DEF Frame, Pfc
  <1> QED BY <1>1, <1>2, <1>3, <1>4, <1>5 DEF Item

\* From n to m the NIC has sent nothing, and what it has queued fits what it had
\* queued before.
Same(n, m) ==
  /\ m \in Nic /\ m.paused = n.paused
  /\ \A z \in Seq(Item), p \in BOOLEAN : Up(z, n, p) => Up(z, m, p)

LEMMA SameThen == ASSUME NEW l, NEW n, NEW m, Same(l, n), Same(n, m) PROVE Same(l, m)
  BY Zenon DEF Same

\* Up only looks at m_currentPkt, m_ackQ, and whether PCIeResume is pending.
LEMMA SameQueues ==
  ASSUME NEW n, NEW m \in Nic, m.paused = n.paused, m.cur = n.cur, m.ackQ = n.ackQ,
         m.resume = n.resume
  PROVE  Same(n, m)
  BY Zenon DEF Same, Up

\* The next packet moves from m_ackQ to the wire.
LEMMA HeadGoesOut ==
  ASSUME NEW z \in Seq(Item), NEW y \in Seq({Ack} \cup Frame), y # <<>>,
         NEW p \in BOOLEAN, NEW w \in BOOLEAN, NEW r,
         Alternates(z, q, p, w), Alternates(y, q, w, r)
  PROVE  \E v \in BOOLEAN : Alternates(Append(z, Head(y)), q, p, v) /\ Alternates(Tail(y), q, v, r)
  <1> DEFINE x == Head(y)
  <1>1. x \in {Ack} \cup Frame
    OBVIOUS
  <1>2. q \in Queue /\ x \in Item
    BY <1>1, OneQueue, Items
  <1>3. CASE x \in Frame
    <2>1. x.pfc = TRUE /\ x.q = q /\ x.on \in BOOLEAN /\ x = Pfc(q, x.on)
      BY <1>3, Items
    <2>2. x.on # w
      BY <1>2, <2>1, HeadDiffers
    <2>3. Alternates(Append(z, Pfc(q, x.on)), q, p, x.on)
      BY <1>2, <2>1, <2>2, AppendFrame
    <2>4. Alternates(Tail(y), q, x.on, r)
      BY <1>2, <2>1, TailAlternates
    <2> QED BY <2>1, <2>3, <2>4
  <1>4. CASE x = Ack
    <2>1. ~ x.pfc
      BY <1>4, Items
    <2>2. Alternates(Append(z, x), q, p, w)
      BY <1>2, <2>1, AppendOther
    <2>3. Alternates(Tail(y), q, w, r)
      BY <1>2, <2>1, TailAlternates
    <2> QED BY <2>2, <2>3
  <1> QED BY <1>1, <1>3, <1>4

LEMMA NicDequeueKeeps ==
  ASSUME NEW n \in Nic
  PROVE  /\ Same(n, NicDequeue(n)) /\ NicAwake(NicDequeue(n))
         /\ NicDequeue(n).enable = n.enable /\ NicDequeue(n).rearm = n.rearm
         /\ NicDequeue(n).resume = n.resume
  <1>2. CASE n.cur # Idle \/ (/\ n.ackQ # <<>> => AckPaused(n)
                              /\ n.left > 0 => n.paused)
    <2>1. NicDequeue(n) = n
      BY <1>2 DEF NicDequeue
    <2>2. Same(n, n)
      BY SameQueues
    <2> QED BY <1>2, <2>1, <2>2 DEF NicAwake
  <1>3. CASE n.cur = Idle /\ n.ackQ # <<>> /\ ~ AckPaused(n)
    <2> DEFINE m == [n EXCEPT !.cur = Head(n.ackQ), !.ackQ = Tail(n.ackQ)]
    <2>1. NicDequeue(n) = m
      BY <1>3 DEF NicDequeue
    <2>2. Head(n.ackQ) \in {Ack} \cup Frame /\ Tail(n.ackQ) \in Seq({Ack} \cup Frame)
      BY <1>3 DEF Nic
    <2>3. Head(n.ackQ) \in Item /\ Head(n.ackQ) # Idle
      BY <2>2, Items
    <2>4. /\ m \in Nic /\ m.cur = Head(n.ackQ) /\ m.ackQ = Tail(n.ackQ)
          /\ m.resume = n.resume /\ m.enable = n.enable /\ m.rearm = n.rearm
          /\ m.paused = n.paused
      BY <2>2, <2>3 DEF Nic
    <2> HIDE DEF m
    <2>6. ASSUME NEW z \in Seq(Item), NEW p \in BOOLEAN, Up(z, n, p)
          PROVE  Up(z, m, p)
      <3>1. PICK w \in BOOLEAN : Alternates(z, q, p, w) /\ Alternates(n.ackQ, q, w, n.resume)
        BY <1>3, <2>6 DEF Up, Ends
      <3>2. n.ackQ \in Seq({Ack} \cup Frame)
        BY DEF Nic
      <3>3. \E v \in BOOLEAN : /\ Alternates(Append(z, Head(n.ackQ)), q, p, v)
                               /\ Alternates(Tail(n.ackQ), q, v, n.resume)
        BY <1>3, <3>1, <3>2, HeadGoesOut
      <3> QED BY <2>3, <2>4, <3>3 DEF Up, Ends
    <2> QED BY <2>1, <2>3, <2>4, <2>6 DEF Same, NicAwake
  <1>4. CASE n.cur = Idle /\ ~ (n.ackQ # <<>> /\ ~ AckPaused(n)) /\ n.left > 0 /\ ~ n.paused
    <2> DEFINE m == [n EXCEPT !.cur = Data, !.left = n.left - 1]
    <2>1. NicDequeue(n) = m
      BY <1>4 DEF NicDequeue
    <2>a. Data \in Item /\ n.left - 1 \in Nat
      BY <1>4, Items DEF Nic
    <2>2. /\ m \in Nic /\ m.cur = Data /\ m.ackQ = n.ackQ /\ m.resume = n.resume
          /\ m.enable = n.enable /\ m.rearm = n.rearm /\ m.paused = n.paused
      BY <2>a DEF Nic
    <2> HIDE DEF m
    <2>4. ASSUME NEW z \in Seq(Item), NEW p \in BOOLEAN, Up(z, n, p)
          PROVE  Up(z, m, p)
      <3>1. PICK w \in BOOLEAN : Alternates(z, q, p, w) /\ Alternates(n.ackQ, q, w, n.resume)
        BY <1>4, <2>4 DEF Up, Ends
      <3>2. Alternates(Append(z, Data), q, p, w)
        BY <3>1, AppendOther, Items, OneQueue
      <3> QED BY <2>2, <3>1, <3>2, Items DEF Up, Ends
    <2> QED BY <2>1, <2>2, <2>4, Items DEF Same, NicAwake
  <1> QED BY <1>2, <1>3, <1>4

\* A packet x is queued behind what n had queued, and m is n but for what the
\* packet tells of PCIeResume.
LEMMA NicEnqueueKeeps ==
  ASSUME NEW n \in Nic, NEW m \in Nic, NEW x \in {Ack} \cup Frame,
         m.cur = n.cur, m.ackQ = n.ackQ, m.paused = n.paused,
         x = Ack => m.resume = n.resume,
         x # Ack => m.resume # n.resume /\ x.on = m.resume
  PROVE  /\ Same(n, NicEnqueue(m, x)) /\ NicAwake(NicEnqueue(m, x))
         /\ NicEnqueue(m, x).enable = m.enable /\ NicEnqueue(m, x).rearm = m.rearm
         /\ NicEnqueue(m, x).resume = m.resume
  <1> DEFINE l == [m EXCEPT !.ackQ = Append(m.ackQ, x)]
  <1>1. Append(m.ackQ, x) \in Seq({Ack} \cup Frame)
    BY DEF Nic
  <1>2. /\ l \in Nic /\ l.cur = n.cur /\ l.ackQ = Append(n.ackQ, x) /\ l.paused = n.paused
        /\ l.resume = m.resume /\ l.enable = m.enable /\ l.rearm = m.rearm
    BY <1>1 DEF Nic
  <1>3. NicEnqueue(m, x) = NicDequeue(l)
    BY DEF NicEnqueue
  <1> HIDE DEF l
  <1>5. ASSUME NEW z \in Seq(Item), NEW p \in BOOLEAN, Up(z, n, p)
        PROVE  Up(z, l, p)
    <2>1. PICK w \in BOOLEAN :
            Alternates(Ends(z, n.cur), q, p, w) /\ Alternates(n.ackQ, q, w, n.resume)
      BY <1>5 DEF Up
    <2>2. n.ackQ \in Seq({Ack} \cup Frame) /\ n.resume \in BOOLEAN /\ m.resume \in BOOLEAN
      BY DEF Nic
    <2>3. Alternates(Append(n.ackQ, x), q, w, m.resume)
      <3>1. CASE x = Ack
        <4>1. ~ x.pfc
          BY <3>1, Items
        <4>2. Alternates(Append(n.ackQ, x), q, w, n.resume)
          BY <2>1, <2>2, <4>1, OneQueue, AppendOther
        <4> QED BY <3>1, <4>2
      <3>2. CASE x # Ack
        <4>1. x = Pfc(q, m.resume)
          BY <3>2, Items
        <4>2. Alternates(Append(n.ackQ, Pfc(q, m.resume)), q, w, m.resume)
          BY <2>1, <2>2, <3>2, <4>1, OneQueue, AppendFrame
        <4> QED BY <4>1, <4>2
      <3> QED BY <3>1, <3>2
    <2> QED BY <1>2, <2>1, <2>3 DEF Up
  <1>6. Same(n, l)
    BY <1>2, <1>5 DEF Same
  <1>7. /\ Same(l, NicDequeue(l)) /\ NicAwake(NicDequeue(l))
        /\ NicDequeue(l).enable = l.enable /\ NicDequeue(l).rearm = l.rearm
        /\ NicDequeue(l).resume = l.resume
    BY <1>2, NicDequeueKeeps
  <1>8. Same(n, NicDequeue(l))
    BY <1>6, <1>7, SameThen
  <1> QED BY <1>2, <1>3, <1>7, <1>8

\* What a step of NIC n to m keeps.
Keeps(n, m) == Same(n, m) /\ OnePause(m) /\ NicAwake(m)

LEMMA SameAwake ==
  ASSUME NEW n, NicAwake(n), NEW m, m.paused = n.paused, m.cur = n.cur, m.ackQ = n.ackQ,
         m.left = n.left
  PROVE  NicAwake(m)
  BY DEF NicAwake, AckPaused

\* A PCIe pause begins, unless there have been m_total_pause_times of them.
LEMMA PCIePauseKeeps ==
  ASSUME NEW n \in Nic, OnePause(n), NicAwake(n), n.enable
  PROVE  Keeps(n, [PCIePause(n) EXCEPT !.enable = FALSE])
  <1> DEFINE k == PCIePause(n)
             m == [k EXCEPT !.enable = FALSE]
  <1>1. ~ n.rearm /\ ~ n.resume
    BY DEF OnePause
  <1>2. Same(n, k) /\ NicAwake(k) /\ k.rearm = n.rearm
    <2>1. CASE n.times >= TotalPauseTimes
      <3>1. k = n
        BY <2>1 DEF PCIePause
      <3> QED BY <3>1, SameQueues
    <2>2. CASE ~ n.times >= TotalPauseTimes
      <3> DEFINE l == [n EXCEPT !.times = n.times + 1, !.resume = TRUE]
                 x == Pfc(q, TRUE)
      <3>1. k = NicEnqueue(l, x)
        BY <2>2 DEF PCIePause
      <3>2. n.times + 1 \in Nat
        BY DEF Nic
      <3>3. /\ l \in Nic /\ l.cur = n.cur /\ l.ackQ = n.ackQ /\ l.paused = n.paused
            /\ l.resume = TRUE /\ l.rearm = n.rearm
        BY <3>2 DEF Nic
      <3>4. x \in Frame /\ x # Ack /\ x.on = TRUE
        BY Items
      <3> HIDE DEF k, l, x
      <3>5. /\ Same(n, NicEnqueue(l, x)) /\ NicAwake(NicEnqueue(l, x))
            /\ NicEnqueue(l, x).rearm = l.rearm
        BY <1>1, <3>3, <3>4, NicEnqueueKeeps
      <3> QED BY <3>1, <3>3, <3>5
    <2> QED BY <2>1, <2>2
  <1>3. k \in Nic
    BY <1>2 DEF Same
  <1> HIDE DEF k
  <1>4. /\ m \in Nic /\ m.cur = k.cur /\ m.ackQ = k.ackQ /\ m.paused = k.paused
        /\ m.left = k.left /\ m.resume = k.resume /\ m.rearm = k.rearm /\ m.enable = FALSE
    BY <1>3 DEF Nic
  <1> HIDE DEF m
  <1>5. Same(k, m) /\ NicAwake(m)
    BY <1>2, <1>4, SameQueues, SameAwake
  <1>6. Same(n, m)
    BY <1>2, <1>5, SameThen
  <1>7. OnePause(m)
    BY <1>1, <1>2, <1>4 DEF OnePause
  <1> QED BY <1>5, <1>6, <1>7 DEF Keeps, k, m

\* A packet arrives: perhaps a PCIe pause begins, perhaps an ACK is sent.
LEMMA ReceiveUdpKeeps ==
  ASSUME NEW n \in Nic, OnePause(n), NicAwake(n)
  PROVE  Keeps(n, ReceiveUdp(n))
  <1> DEFINE m == IF n.enable THEN [PCIePause(n) EXCEPT !.enable = FALSE] ELSE n
  <1>1. Keeps(n, m)
    <2>1. CASE n.enable
      BY <2>1, PCIePauseKeeps
    <2>2. CASE ~ n.enable
      BY <2>2, SameQueues DEF Keeps
    <2> QED BY <2>1, <2>2
  <1>2. ReceiveUdp(n) = IF n.got + 1 = AckInterval THEN NicEnqueue([m EXCEPT !.got = 0], Ack)
                        ELSE [m EXCEPT !.got = m.got + 1]
    BY DEF ReceiveUdp
  <1> HIDE DEF m
  <1>3. m \in Nic /\ Same(n, m) /\ OnePause(m) /\ NicAwake(m)
    BY <1>1 DEF Keeps, Same
  <1>4. CASE n.got + 1 = AckInterval
    <2> DEFINE l == [m EXCEPT !.got = 0]
    <2>1. /\ l \in Nic /\ l.cur = m.cur /\ l.ackQ = m.ackQ /\ l.paused = m.paused
          /\ l.resume = m.resume /\ l.rearm = m.rearm /\ l.enable = m.enable
      BY <1>3 DEF Nic
    <2>2. ReceiveUdp(n) = NicEnqueue(l, Ack)
      BY <1>2, <1>4
    <2> HIDE DEF l
    <2>3. /\ Same(m, NicEnqueue(l, Ack)) /\ NicAwake(NicEnqueue(l, Ack))
          /\ NicEnqueue(l, Ack).enable = l.enable /\ NicEnqueue(l, Ack).rearm = l.rearm
          /\ NicEnqueue(l, Ack).resume = l.resume
      BY <1>3, <2>1, NicEnqueueKeeps
    <2>4. Same(n, NicEnqueue(l, Ack))
      BY <1>3, <2>3, SameThen
    <2>5. OnePause(NicEnqueue(l, Ack))
      BY <1>3, <2>1, <2>3 DEF OnePause
    <2> QED BY <2>2, <2>3, <2>4, <2>5 DEF Keeps
  <1>5. CASE n.got + 1 # AckInterval
    <2> DEFINE l == [m EXCEPT !.got = m.got + 1]
    <2>1. m.got + 1 \in Nat
      BY <1>3 DEF Nic
    <2>2. /\ l \in Nic /\ l.cur = m.cur /\ l.ackQ = m.ackQ /\ l.paused = m.paused
          /\ l.left = m.left /\ l.resume = m.resume /\ l.rearm = m.rearm
          /\ l.enable = m.enable
      BY <1>3, <2>1 DEF Nic
    <2>3. ReceiveUdp(n) = l
      BY <1>2, <1>5
    <2> HIDE DEF l
    <2>4. Same(m, l) /\ NicAwake(l)
      BY <1>3, <2>2, SameQueues, SameAwake
    <2>5. Same(n, l)
      BY <1>3, <2>4, SameThen
    <2>6. OnePause(l)
      BY <1>3, <2>2 DEF OnePause
    <2> QED BY <2>3, <2>4, <2>5, <2>6 DEF Keeps
  <1> QED BY <1>4, <1>5
-----------------------------------------------------------------------------
(***************************************************************************)
(* The steps of a host.                                                    *)
(***************************************************************************)
\* What LinkInv says of host h.
LEMMA HostParts ==
  ASSUME LinkInv, NEW h \in Port
  PROVE  /\ host[h] \in Nic /\ toHost[h] \in Seq(Frame \cup Sent) /\ toSwitch[h] \in Seq(Item)
         /\ Down(toHost[h], m_currentPkt[h], host[h].paused, wire[<<h, q>>])
         /\ Up(toSwitch[h], host[h], m_paused[h][q])
         /\ OnePause(host[h]) /\ NicAwake(host[h])
         /\ m_paused[h][q] \in BOOLEAN /\ m_currentPkt[h] \in OnWire
  <1>1. St \in State
    BY DEF LinkInv, Inv, Good
  <1>2. m_paused \in [Port -> [AllQ -> BOOLEAN]] /\ m_currentPkt \in [Port -> OnWire]
    BY <1>1, StateFields DEF State
  <1>3. m_paused[h][q] \in BOOLEAN /\ m_currentPkt[h] \in OnWire
    BY <1>2, OneQueue, Queues
  <1> QED BY <1>3 DEF LinkInv

\* The NIC of h becomes m, and z and y are on its wires then.
LEMMA HostStep ==
  ASSUME LinkInv, NEW h \in Port, NEW m \in Nic, Becomes(h, m),
         UNCHANGED <<vars, ack_q_idx>>,
         NEW z \in Seq(Frame \cup Sent), toHost' = [toHost EXCEPT ![h] = z],
         NEW y \in Seq(Item), toSwitch' = [toSwitch EXCEPT ![h] = y],
         Down(z, m_currentPkt[h], m.paused, wire[<<h, q>>]),
         Up(y, m, m_paused[h][q]),
         OnePause(m), NicAwake(m)
  PROVE  LinkInv'
  <1>1. Inv'
    <2>1. UNCHANGED vars
      OBVIOUS
    <2> QED BY <2>1, NextInv DEF LinkInv
  <1>2. /\ m_currentPkt' = m_currentPkt /\ wire' = wire /\ m_paused' = m_paused
        /\ linkUp' = linkUp /\ discarded' = discarded /\ ack_q_idx' = ack_q_idx
    BY DEF vars
  <1>3. /\ host' \in [Port -> Nic] /\ toHost' \in [Port -> Seq(Frame \cup Sent)]
        /\ toSwitch' \in [Port -> Seq(Item)]
    BY DEF LinkInv, Becomes
  <1>4. ASSUME NEW e \in Port
        PROVE  /\ Down(toHost[e], m_currentPkt[e], host[e].paused, wire[<<e, q>>])'
               /\ Up(toSwitch[e], host[e], m_paused[e][q])'
               /\ OnePause(host[e])' /\ NicAwake(host[e])'
    <2>1. CASE e = h
      <3>1. host'[e] = m /\ toHost'[e] = z /\ toSwitch'[e] = y
        BY <2>1 DEF LinkInv, Becomes
      <3>2. NicAwake(host[e])'
        BY <1>2, <3>1 DEF NicAwake, AckPaused
      <3> QED BY <1>2, <2>1, <3>1, <3>2
    <2>2. CASE e # h
      <3>1. host'[e] = host[e] /\ toHost'[e] = toHost[e] /\ toSwitch'[e] = toSwitch[e]
        BY <2>2 DEF LinkInv, Becomes
      <3>2. /\ Down(toHost[e], m_currentPkt[e], host[e].paused, wire[<<e, q>>])
            /\ Up(toSwitch[e], host[e], m_paused[e][q])
            /\ OnePause(host[e]) /\ NicAwake(host[e])
        BY HostParts
      <3>3. NicAwake(host[e])'
        BY <1>2, <3>1, <3>2 DEF NicAwake, AckPaused
      <3> QED BY <1>2, <3>1, <3>2, <3>3
    <2> QED BY <2>1, <2>2
  <1>5. (\A e \in Port : linkUp[e])' /\ discarded' = {}
    BY <1>2 DEF LinkInv
  <1> QED BY <1>1, <1>3, <1>4, <1>5 DEF LinkInv

\* A step that touches neither wire.
LEMMA QuietHostStep ==
  ASSUME LinkInv, NEW h \in Port, NEW m, Becomes(h, m), Keeps(host[h], m),
         UNCHANGED <<vars, toHost, toSwitch, ack_q_idx>>
  PROVE  LinkInv'
  <1> DEFINE z == toHost[h]
             y == toSwitch[h]
  <1>1. /\ host[h] \in Nic /\ z \in Seq(Frame \cup Sent) /\ y \in Seq(Item)
        /\ Down(z, m_currentPkt[h], host[h].paused, wire[<<h, q>>])
        /\ Up(y, host[h], m_paused[h][q]) /\ m_paused[h][q] \in BOOLEAN
    BY HostParts
  <1>2. /\ m \in Nic /\ m.paused = host[h].paused /\ Up(y, m, m_paused[h][q])
        /\ OnePause(m) /\ NicAwake(m)
    BY <1>1 DEF Keeps, Same
  <1>3. toHost' = [toHost EXCEPT ![h] = z] /\ toSwitch' = [toSwitch EXCEPT ![h] = y]
    BY DEF LinkInv
  <1>4. UNCHANGED <<vars, ack_q_idx>>
    OBVIOUS
  <1>5. Down(z, m_currentPkt[h], m.paused, wire[<<h, q>>])
    BY <1>1, <1>2
  <1> HIDE DEF z, y
  <1> QED BY <1>1, <1>2, <1>3, <1>4, <1>5, HostStep

LEMMA OpenFlowInv == ASSUME LinkInv, NEW h \in Port, OpenFlow(h) PROVE LinkInv'
  <1> DEFINE n == host[h]
             l == [n EXCEPT !.opened = TRUE, !.left = FlowPackets[h]]
  <1>1. n \in Nic /\ OnePause(n)
    BY HostParts
  <1>2. FlowPackets[h] \in Nat
    BY LinkAssumption
  <1>3. Becomes(h, NicDequeue(l)) /\ UNCHANGED <<vars, toHost, toSwitch, ack_q_idx>>
    BY DEF OpenFlow
  <1> HIDE DEF n
  <1>4. /\ l \in Nic /\ l.cur = n.cur /\ l.ackQ = n.ackQ /\ l.paused = n.paused
        /\ l.resume = n.resume /\ l.rearm = n.rearm /\ l.enable = n.enable
    BY <1>1, <1>2 DEF Nic
  <1> HIDE DEF l
  <1>5. Same(n, l)
    BY <1>4, SameQueues
  <1>6. /\ Same(l, NicDequeue(l)) /\ NicAwake(NicDequeue(l))
        /\ NicDequeue(l).enable = l.enable /\ NicDequeue(l).rearm = l.rearm
        /\ NicDequeue(l).resume = l.resume
    BY <1>4, NicDequeueKeeps
  <1>7. Same(n, NicDequeue(l)) /\ OnePause(NicDequeue(l))
    BY <1>1, <1>4, <1>5, <1>6, SameThen DEF OnePause
  <1> QED BY <1>3, <1>6, <1>7, QuietHostStep DEF Keeps, n

LEMMA PCIeResumeInv == ASSUME LinkInv, NEW h \in Port, PCIeResume(h) PROVE LinkInv'
  <1> DEFINE n == host[h]
             l == [n EXCEPT !.resume = FALSE, !.rearm = TRUE]
             x == Pfc(q, FALSE)
  <1>1. n \in Nic /\ OnePause(n)
    BY HostParts
  <1>2. n.resume /\ Becomes(h, NicEnqueue(l, x)) /\ UNCHANGED <<vars, toHost, toSwitch, ack_q_idx>>
    BY DEF PCIeResume
  <1>3. x \in Frame /\ x # Ack /\ x.on = FALSE
    BY Items
  <1> HIDE DEF n, x
  <1>4. /\ l \in Nic /\ l.cur = n.cur /\ l.ackQ = n.ackQ /\ l.paused = n.paused
        /\ l.resume = FALSE /\ l.rearm = TRUE /\ l.enable = n.enable
    BY <1>1 DEF Nic
  <1> HIDE DEF l
  <1>5. /\ Same(n, NicEnqueue(l, x)) /\ NicAwake(NicEnqueue(l, x))
        /\ NicEnqueue(l, x).enable = l.enable /\ NicEnqueue(l, x).rearm = l.rearm
        /\ NicEnqueue(l, x).resume = l.resume
    <2>1. x \in {Ack} \cup Frame /\ l.resume # n.resume /\ x.on = l.resume
      BY <1>2, <1>3, <1>4
    <2> QED BY <1>1, <1>3, <1>4, <2>1, NicEnqueueKeeps, Zenon
  <1>6. OnePause(NicEnqueue(l, x))
    <2>1. ~ n.enable
      BY <1>1, <1>2, Zenon DEF OnePause
    <2>2. /\ NicEnqueue(l, x).enable = n.enable /\ NicEnqueue(l, x).resume = FALSE
      BY <1>4, <1>5
    <2> QED BY <2>1, <2>2, Zenon DEF OnePause
  <1> QED BY <1>2, <1>5, <1>6, QuietHostStep DEF Keeps, n

LEMMA EnablePauseInv == ASSUME LinkInv, NEW h \in Port, EnablePause(h) PROVE LinkInv'
  <1> DEFINE n == host[h]
             l == [n EXCEPT !.rearm = FALSE, !.enable = TRUE]
  <1>1. n \in Nic /\ OnePause(n) /\ NicAwake(n)
    BY HostParts
  <1>2. n.rearm /\ Becomes(h, l) /\ UNCHANGED <<vars, toHost, toSwitch, ack_q_idx>>
    BY DEF EnablePause
  <1> HIDE DEF n
  <1>3. /\ l \in Nic /\ l.cur = n.cur /\ l.ackQ = n.ackQ /\ l.paused = n.paused
        /\ l.left = n.left /\ l.resume = n.resume /\ l.rearm = FALSE /\ l.enable = TRUE
    BY <1>1 DEF Nic
  <1> HIDE DEF l
  <1>4. Same(n, l) /\ NicAwake(l)
    BY <1>1, <1>3, SameQueues, SameAwake
  <1>5. OnePause(l)
    BY <1>1, <1>2, <1>3 DEF OnePause
  <1> QED BY <1>2, <1>4, <1>5, QuietHostStep DEF Keeps, n

LEMMA NicTransmitCompleteInv ==
  ASSUME LinkInv, NEW h \in Port, NicTransmitComplete(h) PROVE LinkInv'
  <1> DEFINE n == host[h]
             l == [n EXCEPT !.cur = Idle]
             m == NicDequeue(l)
             y == Append(toSwitch[h], n.cur)
             z == toHost[h]
  <1>1. /\ n \in Nic /\ OnePause(n) /\ toSwitch[h] \in Seq(Item) /\ z \in Seq(Frame \cup Sent)
        /\ Down(z, m_currentPkt[h], n.paused, wire[<<h, q>>])
        /\ Up(toSwitch[h], n, m_paused[h][q]) /\ m_paused[h][q] \in BOOLEAN
    BY HostParts
  <1>2. /\ n.cur # Idle /\ Becomes(h, m) /\ toSwitch' = [toSwitch EXCEPT ![h] = y]
        /\ UNCHANGED <<vars, ack_q_idx>> /\ toHost' = [toHost EXCEPT ![h] = z]
    BY DEF NicTransmitComplete, LinkInv
  <1> HIDE DEF n, z
  <1>3. n.cur \in Item
    BY <1>1, <1>2 DEF Nic
  <1>4. y \in Seq(Item)
    BY <1>1, <1>3
  <1>5. /\ l \in Nic /\ l.cur = Idle /\ l.ackQ = n.ackQ /\ l.paused = n.paused
        /\ l.resume = n.resume /\ l.rearm = n.rearm /\ l.enable = n.enable
    BY <1>1 DEF Nic
  <1>6. Up(y, l, m_paused[h][q])
    BY <1>1, <1>2, <1>5 DEF Up, Ends
  <1> HIDE DEF l, y
  <1>7. /\ Same(l, m) /\ NicAwake(m) /\ m.enable = l.enable /\ m.rearm = l.rearm
        /\ m.resume = l.resume
    BY <1>5, NicDequeueKeeps
  <1> HIDE DEF m
  <1>8. /\ m \in Nic /\ m.paused = n.paused /\ Up(y, m, m_paused[h][q])
    BY <1>1, <1>4, <1>5, <1>6, <1>7 DEF Same
  <1>9. OnePause(m) /\ Down(z, m_currentPkt[h], m.paused, wire[<<h, q>>])
    BY <1>1, <1>5, <1>7, <1>8 DEF OnePause
  <1> QED BY <1>1, <1>2, <1>4, <1>7, <1>8, <1>9, HostStep

\* The first packet leaves a wire at its end; c is still being put on it.
LEMMA EndsTail ==
  ASSUME NEW S, NEW z \in Seq(S), z # <<>>, NEW c \in S \cup {Idle}
  PROVE  /\ Ends(z, c) \in Seq(S) /\ Ends(z, c) # <<>>
         /\ Head(Ends(z, c)) = Head(z) /\ Tail(Ends(z, c)) = Ends(Tail(z), c)
  <1>1. CASE c = Idle
    BY <1>1 DEF Ends
  <1>2. CASE c # Idle
    <2>1. c \in S /\ Ends(z, c) = Append(z, c) /\ Ends(Tail(z), c) = Append(Tail(z), c)
      BY <1>2 DEF Ends
    <2>2. /\ Append(z, c) \in Seq(S) /\ Append(z, c) # <<>> /\ Head(Append(z, c)) = Head(z)
          /\ Tail(Append(z, c)) = Append(Tail(z), c)
      BY <2>1, HeadTailAppend
    <2> QED BY <2>1, <2>2
  <1> QED BY <1>1, <1>2

LEMMA FirstArrives ==
  ASSUME NEW S, NEW z \in Seq(S), z # <<>>, NEW c \in S \cup {Idle},
         NEW p, NEW w, Alternates(Ends(z, c), q, p, w),
         Head(z).pfc => Head(z).q = q
  PROVE  /\ Alternates(Ends(Tail(z), c), q, IF Head(z).pfc THEN Head(z).on ELSE p, w)
         /\ Head(z).pfc => Head(z).on # p
  <1> DEFINE y == Ends(z, c)
  <1>1. y \in Seq(S) /\ y # <<>> /\ Head(y) = Head(z) /\ Tail(y) = Ends(Tail(z), c)
    BY EndsTail
  <1>2. Alternates(y, q, p, w)
    OBVIOUS
  <1> HIDE DEF y
  <1>3. Alternates(Tail(y), q, IF Head(y).pfc /\ Head(y).q = q THEN Head(y).on ELSE p, w)
    BY <1>1, <1>2, OneQueue, TailAlternates
  <1>4. (IF Head(y).pfc /\ Head(y).q = q THEN Head(y).on ELSE p)
          = IF Head(z).pfc THEN Head(z).on ELSE p
    BY <1>1
  <1>5. Head(z).pfc => Head(z).on # p
    BY <1>1, <1>2, OneQueue, HeadDiffers
  <1> QED BY <1>1, <1>3, <1>4, <1>5

\* A host obeys a frame, takes a packet, or ignores an ACK.
LEMMA NicReceiveKeeps ==
  ASSUME NEW n \in Nic, OnePause(n), NicAwake(n), NEW x \in Frame \cup Sent,
         NEW y \in Seq(Item), NEW p \in BOOLEAN, Up(y, n, p)
  PROVE  /\ NicReceive(n, x) \in Nic /\ Up(y, NicReceive(n, x), p)
         /\ OnePause(NicReceive(n, x)) /\ NicAwake(NicReceive(n, x))
         /\ NicReceive(n, x).paused = IF x.pfc THEN x.on ELSE n.paused
  <1>1. CASE x \in Frame /\ x.on
    <2> DEFINE l == [n EXCEPT !.paused = TRUE]
    <2>1. x.pfc = TRUE /\ x.on = TRUE
      BY <1>1, Items
    <2>2. NicReceive(n, x) = l
      BY <2>1 DEF NicReceive
    <2>3. /\ l \in Nic /\ l.cur = n.cur /\ l.ackQ = n.ackQ /\ l.paused = TRUE /\ l.left = n.left
          /\ l.resume = n.resume /\ l.rearm = n.rearm /\ l.enable = n.enable
      BY DEF Nic
    <2> HIDE DEF l
    <2>4. OnePause(l) /\ NicAwake(l)
      BY <2>3 DEF OnePause, NicAwake, AckPaused
    <2>5. Up(y, l, p)
      BY <2>3 DEF Up
    <2> QED BY <2>1, <2>2, <2>3, <2>4, <2>5
  <1>2. CASE x \in Frame /\ ~ x.on
    <2> DEFINE l == [n EXCEPT !.paused = FALSE]
    <2>1. x.pfc = TRUE /\ x.on = FALSE
      BY <1>2, Items
    <2>2. NicReceive(n, x) = NicDequeue(l)
      BY <2>1 DEF NicReceive
    <2>3. /\ l \in Nic /\ l.cur = n.cur /\ l.ackQ = n.ackQ /\ l.paused = FALSE
          /\ l.resume = n.resume /\ l.rearm = n.rearm /\ l.enable = n.enable
      BY DEF Nic
    <2> HIDE DEF l
    <2>4. Up(y, l, p)
      BY <2>3 DEF Up
    <2>5. /\ Same(l, NicDequeue(l)) /\ NicAwake(NicDequeue(l))
          /\ NicDequeue(l).enable = l.enable /\ NicDequeue(l).rearm = l.rearm
          /\ NicDequeue(l).resume = l.resume
      BY <2>3, NicDequeueKeeps
    <2>6. NicDequeue(l) \in Nic /\ Up(y, NicDequeue(l), p) /\ NicDequeue(l).paused = FALSE
      BY <2>3, <2>4, <2>5 DEF Same
    <2>7. OnePause(NicDequeue(l))
      BY <2>3, <2>5 DEF OnePause
    <2> QED BY <2>1, <2>2, <2>5, <2>6, <2>7
  <1>3. CASE x \in Sent
    <2>1. x.pfc = FALSE
      BY <1>3 DEF Sent
    <2>2. CASE x = Data
      <3>1. NicReceive(n, x) = ReceiveUdp(n)
        BY <2>1, <2>2 DEF NicReceive
      <3>2. Keeps(n, ReceiveUdp(n))
        BY ReceiveUdpKeeps
      <3> QED BY <2>1, <3>1, <3>2 DEF Keeps, Same
    <2>3. CASE x # Data
      BY <2>1, <2>3 DEF NicReceive
    <2> QED BY <2>2, <2>3
  <1> QED BY <1>1, <1>2, <1>3

LEMMA HostReceivesInv == ASSUME LinkInv, NEW h \in Port, HostReceives(h) PROVE LinkInv'
  <1> DEFINE n == host[h]
             c == m_currentPkt[h]
             p == m_paused[h][q]
             x == Head(toHost[h])
             m == NicReceive(n, x)
             z == Tail(toHost[h])
             y == toSwitch[h]
  <1>1. /\ n \in Nic /\ toHost[h] \in Seq(Frame \cup Sent) /\ y \in Seq(Item)
        /\ Down(toHost[h], c, n.paused, wire[<<h, q>>])
        /\ Up(y, n, p) /\ p \in BOOLEAN /\ OnePause(n) /\ NicAwake(n)
        /\ c \in OnWire
    BY HostParts
  <1>2. /\ toHost[h] # <<>> /\ toHost' = [toHost EXCEPT ![h] = z] /\ Becomes(h, m)
        /\ UNCHANGED <<vars, ack_q_idx>> /\ toSwitch' = [toSwitch EXCEPT ![h] = y]
    BY DEF HostReceives, LinkInv
  <1>3. x \in Frame \cup Sent /\ z \in Seq(Frame \cup Sent)
    BY <1>1, <1>2
  <1>4. x.pfc => x.q = q
    BY <1>3, Items DEF Sent
  <1>5. c \in (Frame \cup Sent) \cup {Idle}
    BY <1>1 DEF OnWire
  <1> HIDE DEF n, c, p
  <1>6. Alternates(Ends(z, c), q, IF x.pfc THEN x.on ELSE n.paused, wire[<<h, q>>])
    BY <1>1, <1>2, <1>4, <1>5, FirstArrives DEF Down
  <1> HIDE DEF x, z, y
  <1>7. /\ m \in Nic /\ Up(y, m, p) /\ OnePause(m) /\ NicAwake(m)
        /\ m.paused = IF x.pfc THEN x.on ELSE n.paused
    BY <1>1, <1>3, NicReceiveKeeps
  <1> HIDE DEF m
  <1>8. Down(z, c, m.paused, wire[<<h, q>>])
    BY <1>6, <1>7 DEF Down
  <1> QED BY <1>1, <1>2, <1>3, <1>7, <1>8, HostStep DEF c, p
-----------------------------------------------------------------------------
(***************************************************************************)
(* The steps of the switch.                                                *)
(***************************************************************************)
\* A device starts to send cn, or nothing.
LEMMA DownMoves ==
  ASSUME NEW z \in Seq(Frame \cup Sent), NEW c, NEW cn \in OnWire, NEW p, NEW w, NEW wn,
         Moves(c, cn, w, wn, q), Down(z, c, p, w)
  PROVE  Down(z, cn, p, wn)
  <1>1. CASE cn = c /\ wn = w
    BY <1>1
  <1>2. CASE /\ c = Idle /\ cn # Idle
             /\ IF cn.pfc /\ cn.q = q THEN wn = cn.on /\ wn # w ELSE wn = w
    <2>1. Alternates(z, q, p, w) /\ cn \in Frame \cup Sent
      BY <1>2 DEF Down, Ends, OnWire
    <2>2. CASE cn \in Frame
      <3>1. cn.pfc /\ cn.q = q /\ cn.on \in BOOLEAN /\ cn = Pfc(q, cn.on)
        BY <2>2, Items
      <3>2. wn = cn.on /\ wn # w
        BY <1>2, <3>1
      <3>3. Alternates(Append(z, Pfc(q, wn)), q, p, wn)
        BY <2>1, <2>2, <3>1, <3>2, OneQueue, AppendFrame
      <3> QED BY <1>2, <3>1, <3>2, <3>3 DEF Down, Ends
    <2>3. CASE cn \in Sent
      <3>1. ~ cn.pfc
        BY <2>3 DEF Sent
      <3>2. Alternates(Append(z, cn), q, p, w)
        BY <2>1, <3>1, OneQueue, AppendOther
      <3> QED BY <1>2, <3>1, <3>2 DEF Down, Ends
    <2> QED BY <2>1, <2>2, <2>3
  <1> QED BY <1>1, <1>2 DEF Moves

LEMMA SwitchStep ==
  ASSUME LinkInv, Inv', UNCHANGED <<linkUp, discarded, host, ack_q_idx>>,
         toHost' \in [Port -> Seq(Frame \cup Sent)], toSwitch' \in [Port -> Seq(Item)],
         \A e \in Port : Down(toHost'[e], m_currentPkt'[e], host[e].paused, wire'[<<e, q>>]),
         \A e \in Port : Up(toSwitch'[e], host[e], m_paused'[e][q])
  PROVE  LinkInv'
  <1>1. linkUp' = linkUp /\ discarded' = discarded /\ host' = host /\ ack_q_idx' = ack_q_idx
    OBVIOUS
  <1>2. ASSUME NEW e \in Port
        PROVE  /\ Down(toHost[e], m_currentPkt[e], host[e].paused, wire[<<e, q>>])'
               /\ Up(toSwitch[e], host[e], m_paused[e][q])'
               /\ OnePause(host[e])' /\ NicAwake(host[e])'
    <2>1. OnePause(host[e]) /\ NicAwake(host[e])
      BY HostParts
    <2>2. NicAwake(host[e])'
      BY <1>1, <2>1 DEF NicAwake, AckPaused
    <2> QED BY <1>1, <2>1, <2>2
  <1>3. (\A e \in Port : linkUp[e])' /\ discarded' = {} /\ host' \in [Port -> Nic]
    BY <1>1 DEF LinkInv
  <1> QED BY <1>2, <1>3 DEF LinkInv

LEMMA NextParts ==
  ASSUME Inv', NEW e \in Port PROVE m_currentPkt'[e] \in OnWire
  <1>1. (St \in State)'
    BY DEF Inv, Good
  <1>2. St'.cur = m_currentPkt'
    BY DEF St
  <1> QED BY <1>1, <1>2 DEF State

LEMMA SwitchTransmitCompleteInv ==
  ASSUME LinkInv, NEW h \in Port, SwitchTransmitComplete(h) PROVE LinkInv'
  <1> DEFINE w == [St EXCEPT !.cur[h] = Idle]
             c == m_currentPkt[h]
             z == Append(toHost[h], c)
  <1>1. /\ TransmitComplete(h) /\ c # Idle /\ toHost' = [toHost EXCEPT ![h] = z]
        /\ toSwitch' = toSwitch /\ UNCHANGED <<host, ack_q_idx>>
    BY DEF SwitchTransmitComplete, TransmitComplete
  <1>2. Event /\ Sends(w, m_paused)
    BY <1>1, CompleteEvent DEF LinkInv
  <1>3. Inv' /\ UNCHANGED <<linkUp, discarded>>
    BY <1>2, EventInv DEF LinkInv, Event
  <1>4. m_paused' = m_paused /\ Starts(w, St')
    BY <1>2 DEF Sends
  <1>5. St'.cur = m_currentPkt' /\ St'.wire = wire'
    BY DEF St
  <1>6. /\ w.cur = [m_currentPkt EXCEPT ![h] = Idle] /\ w.wire = wire
        /\ m_currentPkt \in [Port -> OnWire]
    BY DEF St, LinkInv, Inv, Good, State
  <1> HIDE DEF w
  <1>7. ASSUME NEW e \in Port
        PROVE  Moves(w.cur[e], m_currentPkt'[e], wire[<<e, q>>], wire'[<<e, q>>], q)
    BY <1>4, <1>5, <1>6, OneQueue, Zenon DEF Starts
  <1>8. c \in Frame \cup Sent /\ toHost[h] \in Seq(Frame \cup Sent)
    BY <1>1, HostParts DEF OnWire
  <1>9. toHost' \in [Port -> Seq(Frame \cup Sent)] /\ toSwitch' \in [Port -> Seq(Item)]
    BY <1>1, <1>8 DEF LinkInv
  <1>10. ASSUME NEW e \in Port
         PROVE  Down(toHost'[e], m_currentPkt'[e], host[e].paused, wire'[<<e, q>>])
    <2>1. Down(toHost'[e], w.cur[e], host[e].paused, wire[<<e, q>>])
      <3>1. Down(toHost[e], m_currentPkt[e], host[e].paused, wire[<<e, q>>])
        BY HostParts
      <3>2. CASE e = h
        <4>1. toHost'[e] = Append(toHost[h], c) /\ w.cur[e] = Idle
          BY <1>1, <1>6, <3>2 DEF LinkInv
        <4> QED BY <1>1, <3>1, <3>2, <4>1 DEF Down, Ends
      <3>3. CASE e # h
        <4>1. toHost'[e] = toHost[e] /\ w.cur[e] = m_currentPkt[e]
          BY <1>1, <1>6, <3>3 DEF LinkInv
        <4> QED BY <3>1, <4>1
      <3> QED BY <3>2, <3>3
    <2>2. m_currentPkt'[e] \in OnWire /\ toHost'[e] \in Seq(Frame \cup Sent)
      BY <1>3, <1>9, NextParts
    <2> QED BY <1>7, <2>1, <2>2, DownMoves
  <1>11. ASSUME NEW e \in Port
         PROVE  Up(toSwitch'[e], host[e], m_paused'[e][q])
    BY <1>1, <1>4, HostParts
  <1>12. UNCHANGED <<linkUp, discarded, host, ack_q_idx>>
    BY <1>1, <1>3
  <1> QED BY <1>3, <1>9, <1>10, <1>11, <1>12, SwitchStep

\* The switch has taken the first packet from the wire of h, and obeyed it if it
\* was a frame.
LEMMA SwitchTakes ==
  ASSUME LinkInv, Inv', UNCHANGED <<linkUp, discarded, host, toHost, ack_q_idx>>,
         NEW h \in Port, toSwitch[h] # <<>>,
         toSwitch' = [toSwitch EXCEPT ![h] = Tail(toSwitch[h])],
         Starts(St, St'), NEW b, b = (IF Head(toSwitch[h]).pfc THEN Head(toSwitch[h]).on
                                      ELSE m_paused[h][q]),
         m_paused'[h][q] = b, \A e \in Port : e # h => m_paused'[e][q] = m_paused[e][q]
  PROVE  LinkInv'
  <1> DEFINE x == Head(toSwitch[h])
  <1>1. toHost' = toHost /\ UNCHANGED <<linkUp, discarded, host, ack_q_idx>>
    OBVIOUS
  <1>0. toSwitch[h] \in Seq(Item)
    BY HostParts
  <1>2. /\ toSwitch[h] \in Seq(Item) /\ x \in Item /\ Tail(toSwitch[h]) \in Seq(Item)
    BY <1>0
  <1>3. toHost' \in [Port -> Seq(Frame \cup Sent)] /\ toSwitch' \in [Port -> Seq(Item)]
    BY <1>1, <1>2 DEF LinkInv
  <1>4. ASSUME NEW e \in Port
        PROVE  Down(toHost'[e], m_currentPkt'[e], host[e].paused, wire'[<<e, q>>])
    <2>1. /\ toHost[e] \in Seq(Frame \cup Sent) /\ m_currentPkt'[e] \in OnWire
          /\ Down(toHost[e], m_currentPkt[e], host[e].paused, wire[<<e, q>>])
      BY HostParts, NextParts
    <2>2. St'.cur = m_currentPkt' /\ St'.wire = wire' /\ St.cur = m_currentPkt /\ St.wire = wire
      BY DEF St
    <2>3. Moves(m_currentPkt[e], m_currentPkt'[e], wire[<<e, q>>], wire'[<<e, q>>], q)
      BY <2>2, OneQueue, Zenon DEF Starts
    <2> QED BY <1>1, <2>1, <2>3, DownMoves
  <1>5. ASSUME NEW e \in Port
        PROVE  Up(toSwitch'[e], host[e], m_paused'[e][q])
    <2>1. /\ Up(toSwitch[e], host[e], m_paused[e][q]) /\ host[e] \in Nic
          /\ toSwitch[e] \in Seq(Item)
      BY HostParts
    <2>2. CASE e # h
      <3>1. toSwitch'[e] = toSwitch[e] /\ m_paused'[e][q] = m_paused[e][q]
        BY <2>2 DEF LinkInv
      <3> QED BY <2>1, <3>1
    <2>3. CASE e = h
      <3>1. toSwitch'[e] = Tail(toSwitch[h]) /\ m_paused'[e][q] = b
        BY <2>3 DEF LinkInv
      <3>2. PICK v \in BOOLEAN : /\ Alternates(Ends(toSwitch[h], host[h].cur), q, m_paused[h][q], v)
                                 /\ Alternates(host[h].ackQ, q, v, host[h].resume)
        BY <2>1, <2>3 DEF Up
      <3>3. host[h].cur \in Item \cup {Idle}
        BY <2>1, <2>3 DEF Nic
      <3>4. x.pfc => x.q = q
        BY <1>2, Items DEF Item
      <3>5. Alternates(Ends(Tail(toSwitch[h]), host[h].cur), q, b, v)
        BY <1>2, <3>2, <3>3, <3>4, FirstArrives
      <3> QED BY <2>3, <3>1, <3>2, <3>5 DEF Up
    <2> QED BY <2>2, <2>3
  <1> QED BY <1>1, <1>3, <1>4, <1>5, SwitchStep

LEMMA SwitchReceivesInv == ASSUME LinkInv, NEW h \in Port, SwitchReceives(h) PROVE LinkInv'
  <1> DEFINE x == Head(toSwitch[h])
             f == CHOOSE f \in Flow : f[1] = h
             p == m_paused[h][q]
             Frames == \A e \in Port : e # h => m_paused'[e][q] = m_paused[e][q]
  <1>1. /\ toSwitch[h] # <<>> /\ toSwitch' = [toSwitch EXCEPT ![h] = Tail(toSwitch[h])]
        /\ UNCHANGED <<host, toHost, ack_q_idx>>
        /\ \/ x.pfc /\ x.on /\ ReceivePause(h, q)
           \/ x.pfc /\ ~ x.on /\ ReceiveResume(h, q)
           \/ ~ x.pfc /\ ReceiveData(h, f[2], q, x.size)
           \/ x = Ack /\ ReceiveHigh(h, f[2], x.size)
    BY DEF SwitchReceives
  <1>2. f \in Flow /\ f[1] = h
    BY LinkAssumption
  <1>0. toSwitch[h] \in Seq(Item) /\ p \in BOOLEAN
    BY HostParts
  <1>3. x \in Item /\ p \in BOOLEAN
    BY <1>0, <1>1
  <1>4. Inv /\ q \in Queue /\ m_paused \in [Port -> [AllQ -> BOOLEAN]] /\ q \in AllQ
    BY OneQueue, Queues DEF LinkInv, Inv, Good, State, St
  <1> HIDE DEF f, p
  <1>5. SUFFICES /\ Inv' /\ UNCHANGED <<linkUp, discarded>> /\ Starts(St, St')
                 /\ m_paused'[h][q] = (IF x.pfc THEN x.on ELSE p)
                 /\ Frames
    <2>1. UNCHANGED <<linkUp, discarded, host, toHost, ack_q_idx>>
      BY <1>1, <1>5
    <2> QED BY <1>1, <1>5, <2>1, SwitchTakes DEF p
  <1>6. CASE x.pfc /\ x.on /\ ReceivePause(h, q)
    <2>1. Inv'
      BY <1>4, <1>6, PauseInv DEF Pausing
    <2>2. /\ m_paused' = [m_paused EXCEPT ![h][q] = TRUE] /\ UNCHANGED <<linkUp, discarded>>
          /\ m_currentPkt' = m_currentPkt /\ wire' = wire
      BY <1>6 DEF ReceivePause
    <2>3. Starts(St, St')
      BY <2>2, StartsNothing DEF St
    <2>4. m_paused'[h][q] = TRUE /\ Frames
      BY <1>4, <2>2
    <2>5. x.on = TRUE
      BY <1>3, <1>6, Items DEF Item
    <2> QED BY <1>6, <2>1, <2>2, <2>3, <2>4, <2>5
  <1>7. CASE x.pfc /\ ~ x.on /\ ReceiveResume(h, q)
    <2>1. Event /\ Sends(St, [m_paused EXCEPT ![h][q] = FALSE])
      BY <1>4, <1>7, ResumeEvent
    <2>2. Inv' /\ UNCHANGED <<linkUp, discarded>>
      BY <1>4, <2>1, EventInv DEF Event
    <2>3. m_paused' = [m_paused EXCEPT ![h][q] = FALSE] /\ Starts(St, St')
      BY <2>1 DEF Sends
    <2>4. m_paused'[h][q] = FALSE /\ Frames
      BY <1>4, <2>3
    <2>5. x.on = FALSE
      BY <1>3, <1>7, Items DEF Item
    <2> QED BY <1>7, <2>2, <2>3, <2>4, <2>5
  <1>8. CASE ~ x.pfc /\ ReceiveData(h, f[2], q, x.size)
    <2>1. x.size \in Size
      BY <1>3, <1>8, Items DEF Item
    <2>2. (Event /\ Sends(St, m_paused)) \/ UNCHANGED vars
      BY <1>2, <1>4, <1>8, <2>1, DataEvent
    <2>3. CASE Event /\ Sends(St, m_paused)
      <3>1. Inv' /\ UNCHANGED <<linkUp, discarded>>
        BY <1>4, <2>3, EventInv DEF Event
      <3>2. m_paused' = m_paused /\ Starts(St, St')
        BY <2>3 DEF Sends
      <3> QED BY <1>8, <3>1, <3>2 DEF p
    <2>4. CASE UNCHANGED vars
      <3>1. Inv' /\ UNCHANGED <<linkUp, discarded, m_paused, m_currentPkt, wire>>
        BY <1>4, <2>4, NextInv DEF vars
      <3>2. Starts(St, St')
        BY <3>1, StartsNothing DEF St
      <3> QED BY <1>8, <3>1, <3>2 DEF p
    <2> QED BY <2>2, <2>3, <2>4
  <1>9. CASE x = Ack /\ ReceiveHigh(h, f[2], x.size)
    <2>1. x.size \in Size /\ ~ x.pfc
      BY <1>9, Items
    <2>2. Event /\ Sends(St, m_paused)
      BY <1>2, <1>4, <1>9, <2>1, HighEvent
    <2>3. Inv' /\ UNCHANGED <<linkUp, discarded>>
      BY <1>4, <2>2, EventInv DEF Event
    <2>4. m_paused' = m_paused /\ Starts(St, St')
      BY <2>2 DEF Sends
    <2> QED BY <2>1, <2>3, <2>4 DEF p
  <1> QED BY <1>1, <1>6, <1>7, <1>8, <1>9
-----------------------------------------------------------------------------
(***************************************************************************)
(* The theorems.                                                           *)
(***************************************************************************)
LEMMA LinkInitInv == LinkInit => LinkInv
  <1> SUFFICES ASSUME LinkInit PROVE LinkInv
    OBVIOUS
  <1>1. Inv
    BY InitInv DEF LinkInit
  <1>2. /\ discarded = {} /\ \A h \in Port : /\ linkUp[h] /\ m_currentPkt[h] = Idle
                                             /\ m_paused[h][q] = FALSE /\ wire[<<h, q>>] = FALSE
    BY OneQueue, Queues DEF LinkInit, Init, PQ
  <1>3. ASSUME NEW h \in Port
        PROVE  /\ host[h] \in Nic /\ host[h].cur = Idle /\ host[h].ackQ = <<>>
               /\ host[h].left = 0 /\ host[h].paused = FALSE /\ host[h].resume = FALSE
               /\ host[h].enable = TRUE /\ host[h].rearm = FALSE
               /\ toHost[h] = <<>> /\ toSwitch[h] = <<>>
    BY DEF LinkInit, NewHost, Nic
  <1>4. Alternates(<<>>, q, FALSE, FALSE)
    BY OneQueue, NoFrames
  <1>5. ASSUME NEW h \in Port
        PROVE  /\ Down(toHost[h], m_currentPkt[h], host[h].paused, wire[<<h, q>>])
               /\ Up(toSwitch[h], host[h], m_paused[h][q])
               /\ OnePause(host[h]) /\ NicAwake(host[h])
    <2>1. Down(toHost[h], m_currentPkt[h], host[h].paused, wire[<<h, q>>])
      BY <1>2, <1>3, <1>4 DEF Down, Ends
    <2>2. Up(toSwitch[h], host[h], m_paused[h][q])
      BY <1>2, <1>3, <1>4 DEF Up, Ends
    <2>3. OnePause(host[h])
      BY <1>3 DEF OnePause
    <2>4. NicAwake(host[h])
      <3>1. host[h].ackQ = <<>> /\ host[h].left = 0
        BY <1>3, Zenon
      <3>2. ~ (host[h].left > 0)
        BY <3>1, SMT
      <3> QED BY <3>1, <3>2, Zenon DEF NicAwake
    <2> QED BY <2>1, <2>2, <2>3, <2>4
  <1>6. /\ host \in [Port -> Nic] /\ toHost \in [Port -> Seq(Frame \cup Sent)]
        /\ toSwitch \in [Port -> Seq(Item)]
    <2>1. \A h \in Port : NewHost(h) \in Nic
      BY DEF NewHost, Nic
    <2>2. <<>> \in Seq(Frame \cup Sent) /\ <<>> \in Seq(Item)
      OBVIOUS
    <2> QED BY <2>1, <2>2 DEF LinkInit
  <1> QED BY <1>1, <1>2, <1>5, <1>6 DEF LinkInv

LEMMA LinkNextInv == LinkInv /\ [LinkNext]_allVars => LinkInv'
  <1> SUFFICES ASSUME LinkInv, [LinkNext]_allVars PROVE LinkInv'
    OBVIOUS
  <1>1. CASE Scheduled
    BY <1>1, NicTransmitCompleteInv, SwitchTransmitCompleteInv, HostReceivesInv,
       SwitchReceivesInv, PCIeResumeInv, EnablePauseInv DEF Scheduled
  <1>2. CASE \E h \in Port : OpenFlow(h)
    BY <1>2, OpenFlowInv
  <1>3. CASE UNCHANGED allVars
    <2>1. /\ UNCHANGED vars /\ host' = host /\ toHost' = toHost /\ toSwitch' = toSwitch
          /\ ack_q_idx' = ack_q_idx
      BY <1>3 DEF allVars, linkVars
    <2>2. Inv'
      BY <2>1, NextInv DEF LinkInv
    <2>3. /\ m_currentPkt' = m_currentPkt /\ wire' = wire /\ m_paused' = m_paused
          /\ UNCHANGED <<linkUp, discarded, host, ack_q_idx>>
      BY <2>1 DEF vars
    <2>4. /\ toHost' \in [Port -> Seq(Frame \cup Sent)] /\ toSwitch' \in [Port -> Seq(Item)]
      BY <2>1 DEF LinkInv
    <2>5. \A e \in Port : Down(toHost'[e], m_currentPkt'[e], host[e].paused, wire'[<<e, q>>])
      BY <2>1, <2>3, HostParts
    <2>6. \A e \in Port : Up(toSwitch'[e], host[e], m_paused'[e][q])
      BY <2>1, <2>3, HostParts
    <2> QED BY <2>2, <2>3, <2>4, <2>5, <2>6, SwitchStep
  <1> QED BY <1>1, <1>2, <1>3 DEF LinkNext, Finished

\* The inductive invariant of the link: the switch keeps its own (Inv), and the
\* PFC frames on the way between the switch and a host, in either direction,
\* alternate from what the receiver obeys to what the sender last decided.
THEOREM LinkInvariance == LinkSpec => []LinkInv
  BY LinkInitInv, LinkNextInv, PTL DEF LinkSpec

\* "Must be PAUSEd" (QbbNetDevice::Resume): no RESUME ever reaches a switch or a
\* host that is not paused.
THEOREM ResumeIsExpected == LinkSpec => []ResumeFindsPause
  <1>1. LinkInv => ResumeFindsPause
    <2> SUFFICES ASSUME LinkInv, NEW h \in Port
                 PROVE  /\ toHost[h] # <<>> /\ Head(toHost[h]) = Pfc(q, FALSE) => host[h].paused
                        /\ toSwitch[h] # <<>> /\ Head(toSwitch[h]) = Pfc(q, FALSE) => m_paused[h][q]
      BY DEF ResumeFindsPause
    <2>1. /\ host[h] \in Nic /\ toHost[h] \in Seq(Frame \cup Sent) /\ toSwitch[h] \in Seq(Item)
          /\ Down(toHost[h], m_currentPkt[h], host[h].paused, wire[<<h, q>>])
          /\ Up(toSwitch[h], host[h], m_paused[h][q])
          /\ m_paused[h][q] \in BOOLEAN /\ m_currentPkt[h] \in OnWire
      BY HostParts
    <2>2. Pfc(q, FALSE).pfc /\ Pfc(q, FALSE).q = q /\ Pfc(q, FALSE).on = FALSE
      BY Items
    <2>3. ASSUME toHost[h] # <<>>, Head(toHost[h]) = Pfc(q, FALSE) PROVE host[h].paused
      <3>1. m_currentPkt[h] \in (Frame \cup Sent) \cup {Idle}
        BY <2>1 DEF OnWire
      <3>2. Alternates(Ends(toHost[h], m_currentPkt[h]), q, host[h].paused, wire[<<h, q>>])
        BY <2>1 DEF Down
      <3>5. Head(toHost[h]).pfc /\ Head(toHost[h]).q = q
        BY <2>2, <2>3, Zenon
      <3>3. Head(toHost[h]).on # host[h].paused
        BY <2>1, <2>3, <3>1, <3>2, <3>5, FirstArrives
      <3>4. host[h].paused \in BOOLEAN
        BY <2>1 DEF Nic
      <3> QED BY <2>2, <2>3, <3>3, <3>4
    <2>4. ASSUME toSwitch[h] # <<>>, Head(toSwitch[h]) = Pfc(q, FALSE) PROVE m_paused[h][q]
      <3>1. PICK w \in BOOLEAN : Alternates(Ends(toSwitch[h], host[h].cur), q, m_paused[h][q], w)
        BY <2>1 DEF Up
      <3>2. host[h].cur \in Item \cup {Idle}
        BY <2>1 DEF Nic
      <3>5. Head(toSwitch[h]).pfc /\ Head(toSwitch[h]).q = q
        BY <2>2, <2>4, Zenon
      <3>3. Head(toSwitch[h]).on # m_paused[h][q]
        BY <2>1, <2>4, <3>1, <3>2, <3>5, FirstArrives
      <3> QED BY <2>1, <2>2, <2>4, <3>3
    <2> QED BY <2>3, <2>4
  <1> QED BY <1>1, LinkInvariance, PTL

\* Frames that lead from a pause to no pause include a RESUME.
LEMMA ResumeThere ==
  ASSUME NEW z \in Seq({Ack} \cup Frame), Alternates(z, q, TRUE, FALSE)
  PROVE  \E i \in 1..Len(z) : z[i] = Pfc(q, FALSE)
  <1> DEFINE A == At(z, q)
             B == A \ {0}
  <1>1. Len(z) \in Nat /\ \A i \in 1..Len(z) : z[i] \in {Ack} \cup Frame
    OBVIOUS
  <1>2. A = {0} \cup {i \in 1..Len(z) : z[i].pfc /\ z[i].q = q} /\ On(z, TRUE, 0) = TRUE
    BY DEF At, On
  <1>3. /\ \A i \in A, j \in A : Adjacent(A, i, j) => On(z, TRUE, i) # On(z, TRUE, j)
        /\ \A i \in A : (\A j \in A : j <= i) => On(z, TRUE, i) = FALSE
    BY AlternatesMeans
  <1> HIDE DEF A
  <1>4. B \subseteq 1..Len(z) /\ B \in SUBSET Nat /\ 0 \in A
    BY <1>1, <1>2
  <1>5. B # {}
    <2> SUFFICES ASSUME B = {} PROVE FALSE
      OBVIOUS
    <2>1. \A j \in A : j <= 0
      BY <1>4
    <2> QED BY <1>2, <1>3, <1>4, <2>1
  <1> DEFINE i == Min(B)
  <1>6. i \in B /\ \A y \in B : i <= y
    BY <1>4, <1>5, MinIsLeast
  <1> HIDE DEF i
  <1>7. Adjacent(A, 0, i) /\ i \in A /\ i \in 1..Len(z) /\ i # 0
    BY <1>1, <1>4, <1>6 DEF Adjacent
  <1>8. On(z, TRUE, i) = z[i].on /\ z[i].on # TRUE
    BY <1>2, <1>3, <1>4, <1>7 DEF On
  <1>9. z[i] \in Frame
    BY <1>1, <1>2, <1>7, Items
  <1>10. z[i].on = FALSE /\ z[i] = Pfc(q, z[i].on)
    BY <1>8, <1>9, Items
  <1> QED BY <1>7, <1>10

\* What a host and its device of the switch know of each other when no event is
\* scheduled.
LEMMA QuietHost ==
  ASSUME LinkInv, Quiet, NEW h \in Port
  PROVE  /\ host[h].paused = mmu.paused[<<h, q>>]
         /\ host[h].ackQ # <<>> => ack_q_idx = q /\ host[h].paused
         /\ host[h].left > 0 => host[h].paused
         /\ Alternates(host[h].ackQ, q, m_paused[h][q], FALSE)
         /\ queue[h][q] # <<>> => m_paused[h][q]
  <1>1. /\ host[h].cur = Idle /\ m_currentPkt[h] = Idle /\ toHost[h] = <<>>
        /\ toSwitch[h] = <<>> /\ ~ host[h].resume
    BY DEF Quiet
  <1>2. /\ host[h] \in Nic /\ NicAwake(host[h])
        /\ Down(toHost[h], m_currentPkt[h], host[h].paused, wire[<<h, q>>])
        /\ Up(toSwitch[h], host[h], m_paused[h][q])
    BY HostParts
  <1>3. host[h].resume = FALSE
    BY <1>1, <1>2 DEF Nic
  <1>4. host[h].paused = wire[<<h, q>>]
    BY <1>1, <1>2, OneQueue, EmptyAgrees DEF Down, Ends
  <1>5. linkUp[h] /\ Awake(St, h) /\ FramesAlternate(St)
    BY DEF LinkInv, Inv, Good
  <1>6. queue[h][0] = <<>> /\ (queue[h][q] # <<>> => m_paused[h][q])
    BY <1>1, <1>5, OneQueue, StateFields DEF Awake
  <1>7. Alternates(queue[h][0], q, wire[<<h, q>>], mmu.paused[<<h, q>>])
    BY <1>5, OneQueue, StateFields DEF FramesAlternate
  <1>8. wire[<<h, q>>] = mmu.paused[<<h, q>>]
    BY <1>6, <1>7, OneQueue, EmptyAgrees
  <1>9. Alternates(host[h].ackQ, q, m_paused[h][q], FALSE)
    <2>1. PICK w \in BOOLEAN :
            Alternates(<<>>, q, m_paused[h][q], w) /\ Alternates(host[h].ackQ, q, w, host[h].resume)
      BY <1>1, <1>2 DEF Up, Ends
    <2>2. w = m_paused[h][q]
      BY <2>1, OneQueue, EmptyAgrees
    <2> QED BY <1>3, <2>1, <2>2
  <1>10. /\ host[h].ackQ # <<>> => ack_q_idx = q /\ host[h].paused
         /\ host[h].left > 0 => host[h].paused
    BY <1>1, <1>2, Zenon DEF NicAwake, AckPaused
  <1> QED BY <1>4, <1>6, <1>8, <1>9, <1>10

\* When nothing is scheduled any more, everything has been delivered and every
\* pause lifted, or hosts stand off: for any number of hosts, and whatever the
\* thresholds, there is no other way for the link to come to rest.
THEOREM RestIsDrained == LinkSpec => []QuietIsDrained
  <1>1. LinkInv => QuietIsDrained
    <2> SUFFICES ASSUME LinkInv, Quiet PROVE Drained \/ Standoff
      BY DEF QuietIsDrained
    <2>1. Consistent(mmu, Buffered \cup discarded) /\ discarded = {}
      BY StateFields, BufferedIs DEF LinkInv, Inv, Good
    <2>2. CASE Buffered = {}
      <3>1. Consistent(mmu, {})
        BY <2>1, <2>2
      <3>2. mmu = InitMmu
        BY <3>1, EmptyIsInit
      <3>3. ASSUME NEW h \in Port
            PROVE  /\ host[h].left = 0 /\ host[h].ackQ = <<>> /\ ~ host[h].paused
                   /\ ~ m_paused[h][q]
        <4>1. host[h].paused = FALSE
          <5>1. mmu.paused[<<h, q>>] = FALSE
            BY <3>2, OneQueue DEF InitMmu, PQ
          <5> QED BY <5>1, QuietHost
        <4>2. host[h].ackQ = <<>> /\ ~ (host[h].left > 0)
          BY <4>1, QuietHost
        <4>3. host[h].left \in Nat
          BY HostParts DEF Nic
        <4>4. host[h].left = 0
          BY <4>2, <4>3
        <4>5. Alternates(<<>>, q, m_paused[h][q], FALSE)
          BY <4>2, QuietHost
        <4>6. m_paused[h][q] = FALSE
          BY <4>5, OneQueue, EmptyAgrees
        <4> QED BY <4>1, <4>2, <4>4, <4>6
      <3> QED BY <2>2, <3>2, <3>3 DEF Drained
    <2>3. CASE Buffered # {}
      <3>1. ASSUME NEW d \in Port, queue[d][q] # <<>> PROVE Waits(d)
        <4>1. m_paused[d][q] = TRUE
          BY <3>1, QuietHost, HostParts
        <4>2. Alternates(host[d].ackQ, q, TRUE, FALSE)
          BY <4>1, QuietHost
        <4>3. host[d].ackQ \in Seq({Ack} \cup Frame)
          BY HostParts DEF Nic
        <4>4. \E i \in 1..Len(host[d].ackQ) : host[d].ackQ[i] = Pfc(q, FALSE)
          BY <4>2, <4>3, ResumeThere
        <4>5. host[d].ackQ # <<>>
          BY <4>3, <4>4
        <4>6. host[d].paused /\ ack_q_idx = q
          BY <4>5, QuietHost
        <4> QED BY <4>1, <4>4, <4>6 DEF Waits
      <3>2. \E d \in Port : queue[d][q] # <<>>
        <4>1. PICK d \in Port, k \in Queue : ToSet(queue[d][k]) # {}
          BY <2>3 DEF Buffered, Queued
        <4>2. k = q
          BY OneQueue
        <4>3. queue[d][q] # <<>>
          BY <4>1, <4>2 DEF ToSet
        <4> QED BY <4>3
      <3> QED BY <3>1, <3>2 DEF Standoff
    <2> QED BY <2>2, <2>3
  <1> QED BY <1>1, LinkInvariance, PTL
=============================================================================
