---------------------------- MODULE RdmaTransport ----------------------------
(***************************************************************************)
(* One flow from RdmaHw on the sending host to RdmaHw on the receiving     *)
(* host, and back: go-back-N (or go-back-zero) with per-packet ACKs, NACKs *)
(* limited by a timer, and no retransmission timeout.                      *)
(*                                                                         *)
(* The fabric between the hosts is the environment.  It keeps the order of *)
(* the packets of a flow (one path, one priority) unless the routes change *)
(* while packets are under way (Reorder), and loses packets only where the *)
(* switches drop, the error model strikes or a link goes down (MaxLoss).   *)
(***************************************************************************)
EXTENDS RdmaQp, Sequences

CONSTANTS
  Reorder,       \* BOOLEAN: may packets of the flow overtake each other?
  Losable,       \* the sequence numbers whose packets the fabric may lose
  MaxLoss,       \* bound: number of data packets lost
  MaxAckLoss,    \* bound: number of ACKs and NACKs lost
  TimerExpires,  \* BOOLEAN: can NACK_Generation_Interval pass while packets of
                 \* before the NACK are still arriving?
  InFlight       \* bound: packets under way, both directions

ASSUME FabricAssumption ==
  /\ Reorder \in BOOLEAN /\ TimerExpires \in BOOLEAN
  /\ MaxLoss \in Nat /\ MaxAckLoss \in Nat /\ InFlight \in Nat

VARIABLES
  snd_nxt, snd_una,   \* RdmaQueuePair
  completed,          \* QpComplete has been called, the QP is out of m_qpMap
  rx,                 \* RdmaRxQueuePair: expected, lastNACK, armed
  data,               \* data packets under way
  acks,               \* ACKs and NACKs under way
  lost, ackLost       \* how many the fabric has lost so far

vars == <<snd_nxt, snd_una, completed, rx, data, acks, lost, ackLost>>

DataPacket == [seq : 0..m_size, len : 1..m_mtu]
RxState    == [expected : 0..m_size, lastNACK : 0..m_size, armed : BOOLEAN]
AckPacket  == [seq : 0..m_size, nack : BOOLEAN]

\* The channel s without its element i.
Without(s, i) == [j \in 1..(Len(s) - 1) |-> IF j < i THEN s[j] ELSE s[j + 1]]

\* The elements that may arrive next.
Arriving(s) == IF Reorder THEN 1..Len(s) ELSE {i \in 1..Len(s) : i = 1}

Init ==
  /\ snd_nxt = 0 /\ snd_una = 0
  /\ completed = FALSE
  /\ rx = [expected |-> 0, lastNACK |-> 0, armed |-> FALSE]
  /\ data = <<>> /\ acks = <<>>
  /\ lost = 0 /\ ackLost = 0

\* RdmaEgressQueue::GetNextQindex picks the QP and RdmaHw::GetNxtPacket builds
\* its next packet.  Pause, pacing and the other QPs of the host decide when.
\* The test does not ask whether the QP is finished.
SendPacket ==
  /\ GetBytesLeft(snd_nxt) > 0
  /\ \E w \in Windows : ~ IsWinBound(w, snd_nxt, snd_una)
  /\ Len(data) + Len(acks) < InFlight
  /\ data' = Append(data, [seq |-> snd_nxt % SeqSpace, len |-> PayloadSize(snd_nxt)])
  /\ snd_nxt' = snd_nxt + PayloadSize(snd_nxt)
  /\ UNCHANGED <<snd_una, completed, rx, acks, lost, ackLost>>

\* Slip: the reply carries the end of the packet, not ReceiverNextExpectedSeq.
ReceiveUdp_AckPacket(i) ==
  LET p     == data[i]
      reply == Reply(rx, p.seq, p.len)
  IN  /\ data' = Without(data, i)
      /\ rx' = CheckSeq(rx, p.seq, p.len)
      /\ acks' = IF reply = "none" THEN acks
                 ELSE Append(acks, [seq |-> p.seq + p.len, nack |-> reply = "nack"])
      /\ UNCHANGED <<snd_nxt, snd_una, completed, lost, ackLost>>

\* RdmaHw::ReceiveUdp
ReceiveUdp(i) ==
  LET p     == data[i]
      after == CheckSeq(rx, p.seq, p.len)
      reply == Reply(rx, p.seq, p.len)
  IN  /\ data' = Without(data, i)
      /\ rx' = after
      /\ acks' = IF reply = "none" THEN acks
                 ELSE Append(acks, [seq |-> after.expected, nack |-> reply = "nack"])
      /\ UNCHANGED <<snd_nxt, snd_una, completed, lost, ackLost>>

\* Slip: a NACK does not rewind snd_nxt (no RecoverQueue).
ReceiveAck_NoRecover(i) ==
  LET una == IF m_ack_interval = 0 THEN snd_una
             ELSE Acknowledge(snd_una, AckPoint(acks[i].seq))
  IN  /\ acks' = Without(acks, i)
      /\ IF completed THEN UNCHANGED <<snd_una, completed>>
         ELSE /\ snd_una' = una
              /\ completed' = (m_ack_interval # 0 /\ IsFinished(una))
      /\ UNCHANGED <<snd_nxt, rx, data, lost, ackLost>>

\* RdmaHw::ReceiveAck, for an ACK (0xFC) or a NACK (0xFD), with QpComplete and
\* RecoverQueue.  An ACK of a QP that is no longer in m_qpMap is ignored.
ReceiveAck(i) ==
  LET a   == acks[i]
      una == IF m_ack_interval = 0 THEN snd_una
             ELSE Acknowledge(snd_una, AckPoint(a.seq))
  IN  /\ acks' = Without(acks, i)
      /\ IF completed THEN UNCHANGED <<snd_nxt, snd_una, completed>>
         ELSE /\ snd_una' = una
              /\ completed' = (m_ack_interval # 0 /\ IsFinished(una))
              /\ snd_nxt' = IF a.nack THEN una ELSE snd_nxt
      /\ UNCHANGED <<rx, data, lost, ackLost>>

\* Now reaches m_nackTimer.
NackTimerExpires ==
  /\ TimerExpires
  /\ rx.armed
  /\ rx' = [rx EXCEPT !.armed = FALSE]
  /\ UNCHANGED <<snd_nxt, snd_una, completed, data, acks, lost, ackLost>>

\* The fabric loses a packet: SendToDev drops it, IsCorrupt, or link down.
LoseData(i) ==
  /\ lost < MaxLoss
  /\ data[i].seq \in Losable
  /\ data' = Without(data, i)
  /\ lost' = lost + 1
  /\ UNCHANGED <<snd_nxt, snd_una, completed, rx, acks, ackLost>>

LoseAck(i) ==
  /\ ackLost < MaxAckLoss
  /\ acks' = Without(acks, i)
  /\ ackLost' = ackLost + 1
  /\ UNCHANGED <<snd_nxt, snd_una, completed, rx, data, lost>>

Next ==
  \/ SendPacket
  \/ \E i \in Arriving(data) : ReceiveUdp(i)
  \/ \E i \in Arriving(acks) : ReceiveAck(i)
  \/ NackTimerExpires
  \/ \E i \in 1..Len(data) : LoseData(i)
  \/ \E i \in 1..Len(acks) : LoseAck(i)

Spec == Init /\ [][Next]_vars

\* The host keeps serving its queue pairs and every packet that is not lost
\* arrives: transmissions and arrivals are scheduled events of the simulator.
FairSpec ==
  /\ Spec
  /\ WF_vars(SendPacket)
  /\ WF_vars(\E i \in Arriving(data) : ReceiveUdp(i))
  /\ WF_vars(\E i \in Arriving(acks) : ReceiveAck(i))
-----------------------------------------------------------------------------
TypeOK ==
  /\ snd_nxt \in 0..m_size
  /\ snd_una \in 0..m_size
  /\ completed \in BOOLEAN
  /\ rx \in RxState
  /\ data \in Seq(DataPacket)
  /\ acks \in Seq(AckPacket)
  /\ lost \in Nat /\ ackLost \in Nat

\* No packet carries a byte beyond the end of the flow, so the receiver's
\* position never runs past it.
DataInRange == \A i \in 1..Len(data) : data[i].seq + data[i].len <= m_size

\* What the sender takes as acknowledged has been accepted by the receiver and
\* stays so: also what the ACKs under way will acknowledge, also when the
\* receiver throws away a partial chunk after it has acknowledged part of it
\* (go-back-zero), whatever is lost or reordered.
AckedIsHeld ==
  /\ snd_una <= rx.expected
  /\ \A i \in 1..Len(acks) : AckPoint(acks[i].seq) <= rx.expected

\* With go-back-zero the sender acknowledges whole chunks only.
UnaAtChunkStart == m_backto0 => ChunkStart(snd_una) = snd_una

\* QpComplete, and with it the application's callback, comes only when the
\* receiver holds every byte.
CompletedIsHeld == completed => rx.expected = m_size

\* The flow does what a queue pair promises to the application.
Transfer == INSTANCE ReliableTransfer WITH held <- rx.expected, finished <- completed
TransferSpec == Transfer!Spec

\* Once acknowledged, never taken back: snd_una only grows, and after the
\* completion the sender's state is frozen.
NeverTakenBack == [][snd_una' >= snd_una /\ (completed => snd_una' = snd_una /\ completed')]_vars

\* "next seq to send, the highest unacked seq" (rdma-queue-pair.h): the next
\* byte to send is never behind the first unacknowledged one; GetOnTheFly
\* subtracts one from the other as unsigned numbers.
NextNotBehindUna == snd_una <= snd_nxt

\* The flow completes.
Completes == <>completed
=============================================================================
