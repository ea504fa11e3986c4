------------------------------ MODULE SwitchNode ------------------------------
(***************************************************************************)
(* A switch: the MMU, the egress queues (BEgressQueue) and the devices     *)
(* (QbbNetDevice with GetNodeType() = 1) that share it.                    *)
(*                                                                         *)
(* One event of the simulator touches several devices.  A packet that      *)
(* arrives may make its own input device send a PAUSE, and may let the     *)
(* output device dequeue another packet, whose departure may make a third  *)
(* device send a RESUME.  Each handler is therefore an operator on the     *)
(* record of everything it can change; the actions below run one event     *)
(* each, from its entry to its last call.                                  *)
(*                                                                         *)
(* The neighbours are the environment: they send packets along the routes  *)
(* of Flow and PFC frames for the accounted priorities.  A frame the       *)
(* switch starts to transmit is no longer its business, except that the    *)
(* last PFC frame put on a wire is remembered in wire: on a wire that      *)
(* loses nothing it is what the neighbour's m_paused will be.              *)
(***************************************************************************)
EXTENDS SwitchMmu, Sequences, SequencesExt

CONSTANTS
  qCnt,          \* number of egress queues of a device; queue 0 is high priority
  Flow,          \* pairs <<in, out>> of devices that the routing tables use
  Fragile,       \* the devices whose link is taken down at some time
  HighPrioBytes, \* bound: bytes of high-priority packets, of ACKs and CNPs
  PfcBound       \* bound: frames in queue 0 of a device when a packet arrives

\* GetOutDev never returns the device a packet came in by: every next hop is
\* one hop closer to the destination than the switch itself.
ASSUME FlowAssumption  == Flow \subseteq {f \in Port \X Port : f[1] # f[2]}
ASSUME QueueAssumption == qCnt \in Nat \ {0} /\ Queue = 1..(qCnt - 1)
ASSUME FragileAssumption == Fragile \subseteq Port

VARIABLES
  mmu,       \* SwitchMmu
  queue,     \* queue[d][k]: the packets in queue k of device d (BEgressQueue)
  m_rrlast,  \* the queue device d served last, for the round robin
  m_currentPkt, \* what device d transmits, as far as its neighbour looks at
             \* it; Idle when m_txMachineState = READY
  m_paused,  \* m_paused[d][k]: the neighbour of d has paused priority k
  linkUp,    \* m_linkUp
  m_bytes,   \* m_bytes[in, out, k]: see switch-node.h
  wire,      \* wire[d, q]: the last PFC frame of q sent by d was a PAUSE
  discarded  \* history: the packets of accounted priorities TakeDown dropped

vars == <<mmu, queue, m_rrlast, m_currentPkt, m_paused, linkUp, m_bytes, wire, discarded>>

AllQ == 0..(qCnt - 1)

\* What travels in queue 0 beside ACKs: PauseHeader with time > 0 or = 0.
Pfc(q, on) == [pfc |-> TRUE, q |-> q, on |-> on]
Frame      == [pfc : {TRUE}, q : Queue, on : BOOLEAN]
\* A packet of the highest priority (ACK or NACK with AckHighPrio, CNP).
High       == [pfc : {FALSE}, in : Port, size : Size]

None == qCnt   \* DoDequeueRR found nothing that may be sent

\* What m_currentPkt tells of a packet that is not a PFC frame, and of none.
Sent == [pfc : {FALSE}, size : Size]
Idle == [pfc |-> FALSE, size |-> 0]

St == [mmu |-> mmu, queue |-> queue, rr |-> m_rrlast, cur |-> m_currentPkt,
       paused |-> m_paused, bytes |-> m_bytes, wire |-> wire]

Become(s) ==
  /\ mmu' = s.mmu
  /\ queue' = s.queue
  /\ m_rrlast' = s.rr
  /\ m_currentPkt' = s.cur
  /\ m_paused' = s.paused
  /\ m_bytes' = s.bytes
  /\ wire' = s.wire
-----------------------------------------------------------------------------
\* Slip: the loop ends one queue early and never looks at m_rrlast itself.
NextQueue_ShortLoop(s, d) ==
  LET at(i)  == (i + s.rr[d]) % qCnt
      ready  == {i \in 1..(qCnt - 1) : ~ s.paused[d][at(i)] /\ s.queue[d][at(i)] # <<>>}
  IN  IF s.queue[d][0] # <<>> THEN 0
      ELSE IF ready = {} THEN None ELSE at(Min(ready))

\* Slip: the loop starts at m_rrlast.
NextQueue_FromLast(s, d) ==
  LET at(i)  == (i + s.rr[d]) % qCnt
      ready  == {i \in 0..(qCnt - 1) : ~ s.paused[d][at(i)] /\ s.queue[d][at(i)] # <<>>}
  IN  IF s.queue[d][0] # <<>> THEN 0
      ELSE IF ready = {} THEN None ELSE at(Min(ready))

\* BEgressQueue::DoDequeueRR, the choice of the queue: queue 0 first and never
\* paused, then the first unpaused nonempty queue after m_rrlast.
NextQueue(s, d) ==
  LET at(i)  == (i + s.rr[d]) % qCnt
      ready  == {i \in 1..qCnt : ~ s.paused[d][at(i)] /\ s.queue[d][at(i)] # <<>>}
  IN  IF s.queue[d][0] # <<>> THEN 0
      ELSE IF ready = {} THEN None ELSE at(Min(ready))

\* BEgressQueue::Enqueue; its byte limit is 1000 MB, "infinite queue".
Enqueue(s, d, k, pkt) == [s EXCEPT !.queue[d][k] = Append(@, pkt)]

\* BEgressQueue::DequeueRR, the removal from queue k.
Dequeued(s, d, k) ==
  [s EXCEPT !.queue[d][k] = Tail(@), !.rr[d] = IF k # 0 THEN k ELSE @]

\* QbbNetDevice::TransmitStart
TransmitStart(s, d, pkt) ==
  IF pkt \in Frame THEN [s EXCEPT !.cur[d] = pkt, !.wire[<<d, pkt.q>>] = pkt.on]
  ELSE [s EXCEPT !.cur[d] = [pfc |-> FALSE, size |-> pkt.size]]

\* QbbNetDevice::SendPfc with the DequeueAndTransmit it ends in.  Queue 0 is
\* not empty then, so what is dequeued is of queue 0 and notifies nobody.
SendPfc(s, d, q, on) ==
  LET e == Enqueue(s, d, 0, Pfc(q, on))
  IN  IF ~ linkUp[d] \/ e.cur[d] # Idle THEN e
      ELSE TransmitStart(Dequeued(e, d, 0), d, Head(e.queue[d][0]))

\* Slip: m_bytes is not decremented.
SwitchNotifyDequeue_NoBytes(s, d, pkt) ==
  LET m == Leave(s.mmu, pkt)
      t == [s EXCEPT !.mmu = m]
  IN  IF s.mmu.paused[<<pkt.in, pkt.q>>] /\ ~ m.paused[<<pkt.in, pkt.q>>]
      THEN SendPfc(t, pkt.in, pkt.q, FALSE) ELSE t

\* Slip: the two devices of m_bytes are swapped.
SwitchNotifyDequeue_Swapped(s, d, pkt) ==
  LET m == Leave(s.mmu, pkt)
      t == [s EXCEPT !.mmu = m, !.bytes[<<d, pkt.in, pkt.q>>] = @ - pkt.size]
  IN  IF s.mmu.paused[<<pkt.in, pkt.q>>] /\ ~ m.paused[<<pkt.in, pkt.q>>]
      THEN SendPfc(t, pkt.in, pkt.q, FALSE) ELSE t

\* Slip: the MMU is not told.
SwitchNotifyDequeue_NoMmu(s, d, pkt) ==
  [s EXCEPT !.bytes[<<pkt.in, d, pkt.q>>] = @ - pkt.size]

\* Slip: SetResume without the RESUME frame.
SwitchNotifyDequeue_NoFrame(s, d, pkt) ==
  [s EXCEPT !.mmu = Leave(s.mmu, pkt), !.bytes[<<pkt.in, d, pkt.q>>] = @ - pkt.size]

\* SwitchNode::SwitchNotifyDequeue for a packet of an accounted priority, with
\* CheckAndSendResume.
SwitchNotifyDequeue(s, d, pkt) ==
  LET m == Leave(s.mmu, pkt)
      t == [s EXCEPT !.mmu = m, !.bytes[<<pkt.in, d, pkt.q>>] = @ - pkt.size]
  IN  IF s.mmu.paused[<<pkt.in, pkt.q>>] /\ ~ m.paused[<<pkt.in, pkt.q>>]
      THEN SendPfc(t, pkt.in, pkt.q, FALSE) ELSE t

\* QbbNetDevice::DequeueAndTransmit of a switch.
DequeueAndTransmit(s, d) ==
  LET k   == NextQueue(s, d)
      pkt == Head(s.queue[d][k])
      t   == Dequeued(s, d, k)
  IN  IF ~ linkUp[d] \/ s.cur[d] # Idle \/ k = None THEN s
      ELSE TransmitStart(IF k = 0 THEN t ELSE SwitchNotifyDequeue(t, d, pkt), d, pkt)

\* SwitchNode::SendToDev for an accounted priority (qIndex # 0), with
\* CheckAndSendPfc and SwitchSend; a packet that is not admitted is dropped.
SendToDev(s, pkt) ==
  LET m == Enter(s.mmu, pkt)
      t == [s EXCEPT !.mmu = m]
      u == IF ~ s.mmu.paused[<<pkt.in, pkt.q>>] /\ m.paused[<<pkt.in, pkt.q>>]
           THEN SendPfc(t, pkt.in, pkt.q, TRUE) ELSE t
      v == [u EXCEPT !.bytes[<<pkt.in, pkt.out, pkt.q>>] = @ + pkt.size]
  IN  IF Admits(s.mmu, pkt)
      THEN DequeueAndTransmit(Enqueue(v, pkt.out, pkt.q, pkt), pkt.out)
      ELSE s

\* SendToDev for the highest priority (qIndex = 0): no admission control, and
\* m_bytes counts the packet.
SendHighToDev(s, in, out, size) ==
  LET t == [s EXCEPT !.bytes[<<in, out, 0>>] = @ + size]
  IN  DequeueAndTransmit(
        Enqueue(t, out, 0, [pfc |-> FALSE, in |-> in, size |-> size]), out)
-----------------------------------------------------------------------------
(***************************************************************************)
(* The events.                                                             *)
(***************************************************************************)
Queued(d, k)   == ToSet(queue[d][k])
Buffered       == UNION {Queued(d, k) : d \in Port, k \in Queue}
FreeId         == PktId \ {b.id : b \in Buffered \cup discarded}

\* QbbNetDevice::Receive of a data packet by device in; its route leads to out.
ReceiveData(in, out, q, size) ==
  /\ linkUp[in] /\ linkUp[out]
  /\ FreeId # {}
  /\ Len(queue[in][0]) <= PfcBound
  /\ LET pkt == [id |-> CHOOSE i \in FreeId : TRUE, in |-> in, out |-> out,
                 q |-> q, size |-> size]
     IN  Become(SendToDev(St, pkt))
  /\ UNCHANGED <<linkUp, discarded>>

\* QbbNetDevice::Receive of a packet of the highest priority.
ReceiveHigh(in, out, size) ==
  /\ linkUp[in] /\ linkUp[out]
  /\ size + MapThenSumSet(LAMBDA f : m_bytes[<<f[1], f[2], 0>>], Flow) <= HighPrioBytes
  /\ Become(SendHighToDev(St, in, out, size))
  /\ UNCHANGED <<linkUp, discarded>>

\* QbbNetDevice::Receive of a PFC frame with time > 0.
ReceivePause(d, q) ==
  /\ linkUp[d]
  /\ m_paused' = [m_paused EXCEPT ![d][q] = TRUE]
  /\ UNCHANGED <<mmu, queue, m_rrlast, m_currentPkt, linkUp, m_bytes, wire, discarded>>

\* QbbNetDevice::Receive of a PFC frame with time = 0, and Resume.  The
\* neighbour only resumes what it has paused (Resume asserts it).
ReceiveResume(d, q) ==
  /\ linkUp[d]
  /\ m_paused[d][q]
  /\ Become(DequeueAndTransmit([St EXCEPT !.paused[d][q] = FALSE], d))
  /\ UNCHANGED <<linkUp, discarded>>

\* Slip: the device becomes ready and does not look at its queues.
TransmitComplete_NoDequeue(d) ==
  /\ m_currentPkt[d] # Idle
  /\ m_currentPkt' = [m_currentPkt EXCEPT ![d] = Idle]
  /\ UNCHANGED <<mmu, queue, m_rrlast, m_paused, linkUp, m_bytes, wire, discarded>>

\* QbbNetDevice::TransmitComplete
TransmitComplete(d) ==
  /\ m_currentPkt[d] # Idle
  /\ Become(DequeueAndTransmit([St EXCEPT !.cur[d] = Idle], d))
  /\ UNCHANGED <<linkUp, discarded>>

\* QbbNetDevice::TakeDown of a switch device, called by TakeDownLink: the
\* queues are emptied without any call of SwitchNotifyDequeue.  (m_rrlast is
\* not read again: the link never comes back.)
TakeDown(d) ==
  /\ linkUp[d]
  /\ linkUp' = [linkUp EXCEPT ![d] = FALSE]
  /\ m_paused' = [m_paused EXCEPT ![d] = [k \in AllQ |-> FALSE]]
  /\ queue' = [queue EXCEPT ![d] = [k \in AllQ |-> <<>>]]
  /\ discarded' = discarded \cup UNION {Queued(d, k) : k \in Queue}
  /\ UNCHANGED <<mmu, m_rrlast, m_currentPkt, m_bytes, wire>>

Init ==
  /\ mmu = InitMmu
  /\ queue = [d \in Port |-> [k \in AllQ |-> <<>>]]
  /\ m_rrlast = [d \in Port |-> 0]
  /\ m_currentPkt = [d \in Port |-> Idle]
  /\ m_paused = [d \in Port |-> [k \in AllQ |-> FALSE]]
  /\ linkUp = [d \in Port |-> TRUE]
  /\ m_bytes = [x \in Port \X Port \X AllQ |-> 0]
  /\ wire = [x \in PQ |-> FALSE]
  /\ discarded = {}

\* What the neighbours may do, and what the switch does by itself.
Arrival ==
  \/ \E f \in Flow, q \in Queue, size \in Size : ReceiveData(f[1], f[2], q, size)
  \/ \E f \in Flow, size \in Size : ReceiveHigh(f[1], f[2], size)
  \/ \E d \in {f[2] : f \in Flow}, q \in Queue : ReceivePause(d, q)

Progress ==
  \/ \E d \in Port, q \in Queue : ReceiveResume(d, q)
  \/ \E d \in Port : TransmitComplete(d)

Next == Arrival \/ Progress \/ \E d \in Fragile : TakeDown(d)

Spec == Init /\ [][Next]_vars
-----------------------------------------------------------------------------
TypeOK ==
  /\ mmu \in MmuState
  /\ \A d \in Port : /\ queue[d][0] \in Seq(Frame \cup High)
                     /\ \A k \in Queue : queue[d][k] \in Seq(Packet)
  /\ m_rrlast \in [Port -> AllQ]
  /\ m_currentPkt \in [Port -> Frame \cup Sent \cup {Idle}]
  /\ m_paused \in [Port -> [AllQ -> BOOLEAN]]
  /\ linkUp \in [Port -> BOOLEAN]
  /\ m_bytes \in [Port \X Port \X AllQ -> Nat]
  /\ wire \in [PQ -> BOOLEAN]
  /\ discarded \subseteq Packet

\* The switch implements the shared buffer: every event, with the chain of
\* calls it sets off on several devices, is one admission, one release, or one
\* admission followed by one release, and no packet is sent without the MMU
\* being told.  The packets TakeDown throws away stay in the buffer for ever:
\* the MMU goes on charging for them, and nothing else.
Buffer == INSTANCE SwitchBuffer WITH buffered <- Buffered \cup discarded
BufferSpec == Buffer!Spec

\* No lost wakeup: a device of a link that is up is idle only when nothing it
\* holds may be sent.  There is no timer in a switch; if an event left an idle
\* device with a packet that may be sent, nothing would send it.
NoLostWakeup ==
  \A d \in Port : linkUp[d] /\ m_currentPkt[d] = Idle =>
    /\ queue[d][0] = <<>>
    /\ \A k \in Queue : queue[d][k] # <<>> => m_paused[d][k]

\* m_bytes[inDev][outDev][qidx] "is the bytes from inDev enqueued for outDev at
\* qidx" (switch-node.h), for the priorities the MMU accounts for; except that
\* it still counts what TakeDown threw away.
BytesOfFlow(in, out, q) ==
  BytesOf({b \in Queued(out, q) \cup discarded : b.in = in /\ b.out = out /\ b.q = q})
BytesMatchQueues ==
  \A in \in Port, out \in Port, q \in Queue :
    m_bytes[<<in, out, q>>] = BytesOfFlow(in, out, q)

\* The PFC frames of one priority that a device with a link has queued behind
\* the last one it sent alternate, and the newest one is the MMU's current
\* decision.  So the neighbour never gets a RESUME without a PAUSE before it
\* (the assertion "Must be PAUSEd" in Resume), and ends up in the state the MMU
\* wants.  z is queue 0; position 0 stands for the last frame sent.
Alternates(z, q, first, last) ==
  LET at    == {0} \cup {i \in 1..Len(z) : z[i].pfc /\ z[i].q = q}
      on(i) == IF i = 0 THEN first ELSE z[i].on
  IN  \A i \in at :
        /\ \A j \in at : i < j /\ (\A k \in at : k <= i \/ j <= k) => on(i) # on(j)
        /\ (\A j \in at : j <= i) => on(i) = last
PfcAlternates ==
  \A d \in {e \in Port : linkUp[e]}, q \in Queue :
    Alternates(queue[d][0], q, wire[<<d, q>>], mmu.paused[<<d, q>>])

\* Round robin: a device does not serve one queue twice in a row while another
\* unpaused queue had a packet waiting.
RoundRobin ==
  [][\A d \in Port, k \in Queue :
       linkUp'[d] /\ m_rrlast[d] = k /\ Len(queue'[d][k]) < Len(queue[d][k]) =>
         \A j \in Queue \ {k} : m_paused'[d][j] \/ queue[d][j] = <<>>]_vars
=============================================================================
