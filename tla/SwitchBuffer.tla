----------------------------- MODULE SwitchBuffer -----------------------------
(***************************************************************************)
(* What the shared buffer of a switch promises, whatever the order in      *)
(* which its egress queues send: packets are admitted and released, and    *)
(* the MMU's counters follow the set of packets it holds.  SwitchNode      *)
(* (queues, devices, round robin, PFC frames) implements this              *)
(* specification.                                                          *)
(***************************************************************************)
EXTENDS SwitchMmu

VARIABLES
  mmu,       \* the counters (SwitchMmu)
  buffered   \* the packets of the accounted priorities held in egress queues

vars == <<mmu, buffered>>

Init == mmu = InitMmu /\ buffered = {}

\* A packet that is not in the switch yet.
Fresh(pkt) == \A b \in buffered : b.id # pkt.id

\* SendToDev when the output device is busy or paused: the packet stays.
Receive(pkt) ==
  /\ Fresh(pkt)
  /\ buffered' = buffered \cup {pkt}
  /\ Admits(mmu, pkt)
  /\ mmu' = Enter(mmu, pkt)

\* DequeueAndTransmit after a TransmitComplete or a RESUME: one packet leaves.
Dequeue(pkt) ==
  /\ buffered' = buffered \ {pkt}
  /\ mmu' = Leave(mmu, pkt)

\* SendToDev when the output device is idle: in the same event a packet (the
\* new one, or an older one of another priority) is dequeued again.
ReceiveAndDequeue(pkt, out) ==
  /\ Fresh(pkt)
  /\ buffered' = (buffered \cup {pkt}) \ {out}
  /\ Admits(mmu, pkt)
  /\ mmu' = Leave(Enter(mmu, pkt), out)

Next ==
  \/ \E pkt \in Packet : Receive(pkt)
  \/ \E pkt \in buffered : Dequeue(pkt)
  \/ \E pkt \in Packet : \E out \in buffered \cup {pkt} : ReceiveAndDequeue(pkt, out)

Spec == Init /\ [][Next]_vars
-----------------------------------------------------------------------------
(***************************************************************************)
(* Properties.                                                             *)
(***************************************************************************)
\* Every counter is a natural number: none of the unsigned subtractions of
\* RemoveFromIngressAdmission, RemoveFromEgressAdmission and GetPfcThreshold
\* wraps around, however packets of different sizes enter and leave.
TypeOK ==
  /\ mmu \in MmuState
  /\ buffered \subseteq Packet
  /\ mmu.shared_used_bytes <= Pool

\* UpdateIngressAdmission and RemoveFromIngressAdmission split the bytes of an
\* ingress between two counters by different rules (a packet may enter by one
\* and leave by the other); together the counters are exactly the bytes held.
IngressIsBuffered == IngressMatches(mmu, buffered)

\* egress_bytes, which ShouldSendCN compares with kmin and kmax, is exactly
\* what is queued for the device at that priority.
EgressIsBuffered == EgressMatches(mmu, buffered)

\* shared_used_bytes is maintained by increments and decrements that are
\* computed in different ways (min(psize, new_bytes - reserve) on entry, from
\* the current excess on exit); it never drifts from the sum of the excesses.
SharedIsExact == SharedMatches(mmu)

\* CheckIngressAdmission tests psize + GetSharedUsed, UpdateIngressAdmission
\* tests new_bytes - reserve: the two tests differ when the ingress is below
\* its reserve, and still no (port, queue) ever uses more headroom than its
\* port has.
HeadroomRespected == HeadroomBounded(mmu)

\* Headroom is consumed only by an ingress whose PAUSE has been sent: a packet
\* never goes to headroom without the neighbour having been told to stop.
HeadroomOnlyWhenPaused == HeadroomPaused(mmu)

\* RESUME is only evaluated when a packet of the paused ingress leaves.  An
\* ingress that is paused therefore must hold a packet: otherwise no later
\* event could ever resume it.
PausedHoldsPackets == PausedHolds(mmu, buffered)

\* BUFFER_SIZE is the "buffer size per switch": the packets held never take
\* more than that.
FitsBuffer == BytesOf(buffered) <= buffer_size
=============================================================================
