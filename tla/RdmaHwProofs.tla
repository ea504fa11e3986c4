---------------------------- MODULE RdmaHwProofs ----------------------------
(***************************************************************************)
(* Proofs about RdmaHw.  RdmaTransport: for every flow size below          *)
(* SeqSpace, every MTU, chunk and window, and a fabric that loses and      *)
(* reorders at will.  Dcqcn: for every configuration of rates, thresholds  *)
(* and increments.  The two have no constant and no variable in common,    *)
(* so that what is assumed of one does not restrict the other.             *)
(***************************************************************************)
EXTENDS RdmaTransport, Dcqcn, TLAPS

(***************************************************************************)
(* Arithmetic of chunks and of the 32-bit sequence numbers.                *)
(***************************************************************************)
\* A sequence number below 2^32 is the same on the wire.
LEMMA ModIdentity == ASSUME NEW x \in 0..m_size PROVE x % SeqSpace = x
  BY FlowAssumption, WidthAssumption

\* The quotient and remainder of a division by the chunk size.
LEMMA ChunkDivision ==
  ASSUME NEW s \in Nat
  PROVE  /\ s \div m_chunk \in Nat
         /\ ChunkStart(s) \in Nat
         /\ ChunkStart(s) <= s
         /\ s < ChunkStart(s) + m_chunk
  BY ChunkAssumption DEF ChunkStart

\* A chunk starts within the flow, at or before each of its bytes.
LEMMA ChunkStartInFlow == \A s \in 0..m_size : ChunkStart(s) \in 0..s
  BY FlowAssumption, ChunkDivision

\* The start of a chunk is its own start.
LEMMA ChunkStartIdempotent ==
  ASSUME NEW s \in Nat PROVE ChunkStart(ChunkStart(s)) = ChunkStart(s)
  BY ChunkAssumption, ChunkDivision DEF ChunkStart

\* A later byte is not in an earlier chunk.
LEMMA ChunkStartMonotone ==
  ASSUME NEW s \in Nat, NEW t \in Nat, s <= t PROVE ChunkStart(s) <= ChunkStart(t)
  BY ChunkAssumption, ChunkDivision DEF ChunkStart

(***************************************************************************)
(* Channels.                                                               *)
(***************************************************************************)
\* Taking one element out of a channel leaves a channel of the others.
LEMMA WithoutOne ==
  ASSUME NEW S, NEW s \in Seq(S), NEW i \in 1..Len(s)
  PROVE  /\ Without(s, i) \in Seq(S)
         /\ Len(Without(s, i)) = Len(s) - 1
         /\ \A j \in 1..Len(Without(s, i)) :
              \E k \in 1..Len(s) : Without(s, i)[j] = s[k]
  <1>1. Len(s) - 1 \in Nat
    OBVIOUS
  <1>2. \A j \in 1..(Len(s) - 1) : j \in 1..Len(s) /\ j + 1 \in 1..Len(s)
    BY <1>1
  <1>3. \A j \in 1..(Len(s) - 1) : Without(s, i)[j] \in S
    BY <1>2 DEF Without
  <1>4. Without(s, i) \in [1..(Len(s) - 1) -> S]
    BY <1>3 DEF Without
  <1>5. Without(s, i) \in Seq(S)
    BY <1>1, <1>4
  <1>6. Len(Without(s, i)) = Len(s) - 1
    BY <1>1, <1>4, <1>5
  <1> QED
    BY <1>2, <1>5, <1>6 DEF Without

(***************************************************************************)
(* What the handlers compute.                                              *)
(***************************************************************************)
\* A packet is never empty and ends inside the flow.
LEMMA PayloadInRange ==
  ASSUME NEW nxt \in 0..m_size, GetBytesLeft(nxt) > 0
  PROVE  /\ PayloadSize(nxt) \in 1..m_mtu
         /\ nxt + PayloadSize(nxt) \in 0..m_size
         /\ nxt % SeqSpace = nxt
  <1>1. GetBytesLeft(nxt) = m_size - nxt /\ m_size - nxt \in 0..m_size
    BY FlowAssumption DEF GetBytesLeft
  <1>2. GetBytesLeft(nxt) % SeqSpace = m_size - nxt
    BY <1>1, ModIdentity
  <1> QED
    BY <1>1, <1>2, ModIdentity, FlowAssumption DEF PayloadSize, MinOf

\* What an ACK acknowledges is not beyond its sequence number.
LEMMA AckPointInRange ==
  ASSUME NEW s \in 0..m_size
  PROVE  /\ AckPoint(s) \in 0..m_size
         /\ AckPoint(s) <= s
         /\ m_backto0 => ChunkStart(AckPoint(s)) = AckPoint(s)
  BY FlowAssumption, ChunkDivision, ChunkStartIdempotent DEF AckPoint

\* An ACK acknowledges no more than its sequence number.
LEMMA AckPointBounds == \A s \in 0..m_size : AckPoint(s) \in Nat /\ AckPoint(s) <= s
  BY FlowAssumption, AckPointInRange

(***************************************************************************)
(* The inductive invariant.  AckedIsHeld alone is not inductive: when the  *)
(* receiver goes back to the start of a chunk, snd_una stays below it only *)
(* because snd_una is itself the start of a chunk.                         *)
(***************************************************************************)
Inv ==
  /\ TypeOK
  /\ DataInRange
  /\ AckedIsHeld
  /\ UnaAtChunkStart
  /\ completed => snd_una >= m_size

\* A packet that ends inside the flow leaves a receiver inside the flow, and a
\* receiver that goes back keeps everything that was or will be acknowledged.
LEMMA ReceiverStep ==
  ASSUME NEW r \in RxState, NEW seq \in 0..m_size, NEW len \in 1..m_mtu,
         seq + len <= m_size
  PROVE  /\ CheckSeq(r, seq, len) \in RxState
         /\ \/ CheckSeq(r, seq, len).expected >= r.expected
            \/ m_backto0 /\ CheckSeq(r, seq, len).expected = ChunkStart(r.expected)
  <1> USE FlowAssumption DEF RxState
  <1>0. r.expected \in 0..m_size /\ len \in Nat
    OBVIOUS
  <1>1. CASE InOrder(r, seq)
    <2>1. r.expected + len \in 0..m_size
      BY <1>0, <1>1 DEF InOrder
    <2>2. Advanced(r, len) = r.expected + len
      BY <2>1, ModIdentity DEF Advanced
    <2>3. CheckSeq(r, seq, len) = [r EXCEPT !.expected = r.expected + len]
      BY <1>1, <2>2 DEF CheckSeq
    <2>4. CheckSeq(r, seq, len).expected = r.expected + len
      BY <2>3
    <2>5. CheckSeq(r, seq, len) \in RxState
      BY <2>1, <2>3
    <2> QED BY <1>0, <2>4, <2>5
  <1>2. CASE ~ InOrder(r, seq) /\ Gap(r, seq) /\ NackDue(r)
    <2>1. CheckSeq(r, seq, len) =
            [expected |-> IF m_backto0 THEN ChunkStart(r.expected) ELSE r.expected,
             lastNACK |-> r.expected, armed |-> TRUE]
      BY <1>2 DEF CheckSeq
    <2>2. ChunkStart(r.expected) \in 0..m_size
      BY <1>0, ChunkStartInFlow
    <2> QED BY <1>0, <2>1, <2>2
  <1>3. CASE ~ InOrder(r, seq) /\ ~ (Gap(r, seq) /\ NackDue(r))
    <2>1. CheckSeq(r, seq, len) = r
      BY <1>3 DEF CheckSeq
    <2> QED BY <1>0, <2>1
  <1> QED BY <1>1, <1>2, <1>3

\* The invariant holds at the start.
LEMMA InitInv == Init => Inv
  <1> SUFFICES ASSUME Init PROVE Inv
    OBVIOUS
  <1> USE FlowAssumption DEF Init
  <1>1. TypeOK
    <2>1. rx \in RxState
      BY DEF RxState
    <2>2. data \in Seq(DataPacket) /\ acks \in Seq(AckPacket)
      OBVIOUS
    <2>3. snd_nxt \in 0..m_size /\ snd_una \in 0..m_size /\ lost \in Nat /\ ackLost \in Nat
      OBVIOUS
    <2>4. completed \in BOOLEAN
      OBVIOUS
    <2> HIDE DEF Init
    <2> QED BY <2>1, <2>2, <2>3, <2>4 DEF TypeOK
  <1>2. DataInRange /\ AckedIsHeld
    BY DEF DataInRange, AckedIsHeld
  <1>3. UnaAtChunkStart
    BY ChunkStartInFlow DEF UnaAtChunkStart
  <1> QED BY <1>1, <1>2, <1>3 DEF Inv

\* Sending a packet.
LEMMA SendPacketInv == Inv /\ SendPacket => Inv'
  <1> SUFFICES ASSUME Inv, SendPacket PROVE Inv'
    OBVIOUS
  <1> USE FlowAssumption DEF Inv, SendPacket
  <1> DEFINE p == [seq |-> snd_nxt % SeqSpace, len |-> PayloadSize(snd_nxt)]
  <1>1. /\ PayloadSize(snd_nxt) \in 1..m_mtu
        /\ snd_nxt + PayloadSize(snd_nxt) \in 0..m_size
        /\ snd_nxt % SeqSpace = snd_nxt
    BY PayloadInRange DEF TypeOK
  <1>2. p \in DataPacket /\ p.seq + p.len <= m_size
    BY <1>1 DEF TypeOK, DataPacket
  <1> HIDE DEF p
  <1>3. data' = Append(data, p)
    BY DEF p
  <1>4. TypeOK'
    BY <1>1, <1>2, <1>3 DEF TypeOK
  <1>5. DataInRange'
    BY <1>2, <1>3 DEF DataInRange, TypeOK
  <1>6. AckedIsHeld' /\ UnaAtChunkStart' /\ (completed => snd_una >= m_size)'
    BY DEF AckedIsHeld, UnaAtChunkStart
  <1> QED BY <1>4, <1>5, <1>6

\* The receiver takes a packet.
LEMMA ReceiveUdpInv ==
  ASSUME Inv, NEW i \in 1..Len(data), ReceiveUdp(i) PROVE Inv'
  <1> USE FlowAssumption DEF Inv
  <1>0. PICK p \in DataPacket : p = data[i]
    BY DEF TypeOK
  <1>1. /\ p.seq \in 0..m_size /\ p.len \in 1..m_mtu
        /\ p.seq + p.len <= m_size
        /\ rx \in RxState /\ rx.expected \in 0..m_size
    BY <1>0 DEF DataPacket, DataInRange, TypeOK, RxState
  <1> DEFINE after == CheckSeq(rx, p.seq, p.len)
             reply == Reply(rx, p.seq, p.len)
  <1>2. /\ after \in RxState
        /\ \/ after.expected >= rx.expected
           \/ m_backto0 /\ after.expected = ChunkStart(rx.expected)
    BY <1>1, ReceiverStep
  <1>3. /\ data' = Without(data, i)
        /\ rx' = after
        /\ acks' = IF reply = "none" THEN acks
                   ELSE Append(acks, [seq |-> after.expected, nack |-> reply = "nack"])
        /\ UNCHANGED <<snd_nxt, snd_una, completed, lost, ackLost>>
    BY <1>0 DEF ReceiveUdp
  <1> HIDE DEF after, reply
  <1>4. /\ data' \in Seq(DataPacket)
        /\ DataInRange'
    BY <1>3, WithoutOne DEF TypeOK, DataInRange
  <1>5. after.expected \in 0..m_size
    BY <1>2 DEF RxState
  <1>6. PICK a \in AckPacket : /\ a.seq = after.expected
                               /\ acks' = acks \/ acks' = Append(acks, a)
    <2>1. [seq |-> after.expected, nack |-> reply = "nack"] \in AckPacket
      BY <1>5 DEF AckPacket
    <2> QED BY <2>1, <1>3
  <1>7. TypeOK'
    BY <1>2, <1>3, <1>4, <1>6 DEF TypeOK
  \* What was acknowledged before is still held ...
  <1>8. \A x \in 0..m_size :
          AckPoint(x) <= rx.expected => AckPoint(x) <= after.expected
    <2> SUFFICES ASSUME NEW x \in 0..m_size, AckPoint(x) <= rx.expected
                 PROVE  AckPoint(x) <= after.expected
      OBVIOUS
    <2>1. CASE after.expected >= rx.expected
      BY <1>1, <1>5, <2>1, AckPointBounds
    <2>2. CASE m_backto0 /\ after.expected = ChunkStart(rx.expected)
      <3>1. AckPoint(x) \in Nat /\ rx.expected \in Nat
        BY <1>1, AckPointBounds
      <3>2. ChunkStart(AckPoint(x)) <= ChunkStart(rx.expected)
        BY <3>1, ChunkStartMonotone
      <3> QED BY <2>2, <3>2, AckPointInRange
    <2> QED BY <1>2, <2>1, <2>2
  \* ... and so is snd_una, the start of a chunk where that matters.
  <1>9. snd_una <= after.expected
    <2>1. CASE after.expected >= rx.expected
      BY <1>1, <1>5, <2>1 DEF AckedIsHeld, TypeOK
    <2>2. CASE m_backto0 /\ after.expected = ChunkStart(rx.expected)
      <3>1. snd_una \in Nat /\ rx.expected \in Nat /\ snd_una <= rx.expected
        BY <1>1 DEF AckedIsHeld, TypeOK
      <3>2. ChunkStart(snd_una) <= ChunkStart(rx.expected)
        BY <3>1, ChunkStartMonotone
      <3> QED BY <2>2, <3>2 DEF UnaAtChunkStart
    <2> QED BY <1>2, <2>1, <2>2
  <1>10. \A k \in 1..Len(acks) : acks[k].seq \in 0..m_size
    <2> TAKE k \in 1..Len(acks)
    <2>1. acks[k] \in AckPacket
      BY DEF TypeOK
    <2> QED BY <2>1 DEF AckPacket
  <1>11. AckPoint(a.seq) <= after.expected
    BY <1>5, <1>6, AckPointInRange
  <1>12. \A k \in 1..Len(acks') : AckPoint(acks'[k].seq) <= after.expected
    <2>1. \A k \in 1..Len(acks) : AckPoint(acks[k].seq) <= after.expected
      BY <1>8, <1>10 DEF AckedIsHeld
    <2>2. CASE acks' = acks
      BY <2>1, <2>2
    <2>3. CASE acks' = Append(acks, a)
      BY <1>6, <1>11, <2>1, <2>3 DEF TypeOK
    <2> QED BY <1>6, <2>2, <2>3
  <1>13. AckedIsHeld'
    BY <1>3, <1>9, <1>12 DEF AckedIsHeld
  <1>14. UnaAtChunkStart' /\ (completed => snd_una >= m_size)'
    BY <1>3 DEF UnaAtChunkStart
  <1> QED BY <1>4, <1>7, <1>13, <1>14

\* The sender takes an ACK or a NACK.
LEMMA ReceiveAckInv ==
  ASSUME Inv, NEW i \in 1..Len(acks), ReceiveAck(i) PROVE Inv'
  <1> USE FlowAssumption DEF Inv
  <1>0. PICK a \in AckPacket : a = acks[i]
    BY DEF TypeOK
  <1>1. a.seq \in 0..m_size /\ AckPoint(a.seq) <= rx.expected
    BY <1>0 DEF AckPacket, AckedIsHeld
  <1> DEFINE una == IF m_ack_interval = 0 THEN snd_una
                    ELSE Acknowledge(snd_una, AckPoint(a.seq))
  <1>2. /\ una \in 0..m_size
        /\ una <= rx.expected
        /\ m_backto0 => ChunkStart(una) = una
    <2>1. CASE una = snd_una
      BY <2>1 DEF TypeOK, AckedIsHeld, UnaAtChunkStart
    <2>2. CASE una = AckPoint(a.seq)
      BY <1>1, <2>2, AckPointInRange
    <2> QED BY <2>1, <2>2 DEF Acknowledge
  <1>3. /\ acks' = Without(acks, i)
        /\ UNCHANGED <<rx, data, lost, ackLost>>
        /\ \/ UNCHANGED <<snd_nxt, snd_una, completed>>
           \/ /\ snd_una' = una
              /\ completed' = (m_ack_interval # 0 /\ IsFinished(una))
              /\ snd_nxt' \in {una, snd_nxt}
    BY <1>0 DEF ReceiveAck
  <1> HIDE DEF una
  <1>4. acks' \in Seq(AckPacket)
    BY <1>3, WithoutOne DEF TypeOK
  <1>5. \A k \in 1..Len(acks') : AckPoint(acks'[k].seq) <= rx.expected
    <2>1. \A k \in 1..Len(acks) : AckPoint(acks[k].seq) <= rx.expected
      BY DEF AckedIsHeld
    <2>2. acks \in Seq(AckPacket)
      BY DEF TypeOK
    <2>3. \A k \in 1..Len(acks') : \E j \in 1..Len(acks) : acks'[k] = acks[j]
      BY <1>3, <2>2, WithoutOne
    <2> QED BY <2>1, <2>3
  <1>6. TypeOK'
    BY <1>2, <1>3, <1>4 DEF TypeOK
  <1>7. AckedIsHeld'
    BY <1>2, <1>3, <1>5 DEF AckedIsHeld
  <1>8. UnaAtChunkStart'
    BY <1>2, <1>3 DEF UnaAtChunkStart
  <1>9. (completed => snd_una >= m_size)'
    BY <1>3 DEF IsFinished
  <1>10. DataInRange'
    BY <1>3 DEF DataInRange
  <1> QED BY <1>6, <1>7, <1>8, <1>9, <1>10

\* Every step preserves the invariant.
LEMMA NextInv == Inv /\ [Next]_vars => Inv'
  <1> SUFFICES ASSUME Inv, [Next]_vars PROVE Inv'
    OBVIOUS
  <1>1. CASE SendPacket
    BY <1>1, SendPacketInv
  <1>2. CASE \E i \in Arriving(data) : ReceiveUdp(i)
    BY <1>2, ReceiveUdpInv DEF Arriving
  <1>3. CASE \E i \in Arriving(acks) : ReceiveAck(i)
    BY <1>3, ReceiveAckInv DEF Arriving
  <1>4. CASE NackTimerExpires
    <2> USE <1>4 DEF NackTimerExpires, Inv
    <2>1. rx' \in RxState /\ rx'.expected = rx.expected
      BY DEF TypeOK, RxState
    <2>2. TypeOK'
      BY <2>1 DEF TypeOK
    <2>3. DataInRange' /\ AckedIsHeld' /\ UnaAtChunkStart' /\ (completed => snd_una >= m_size)'
      BY <2>1 DEF DataInRange, AckedIsHeld, UnaAtChunkStart
    <2> QED BY <2>2, <2>3
  <1>5. CASE \E i \in 1..Len(data) : LoseData(i)
    <2> PICK i \in 1..Len(data) : LoseData(i)
      BY <1>5
    <2> USE DEF LoseData, Inv
    <2>1. data' \in Seq(DataPacket) /\ DataInRange'
      BY WithoutOne DEF TypeOK, DataInRange
    <2>2. TypeOK'
      BY <2>1 DEF TypeOK
    <2>3. AckedIsHeld' /\ UnaAtChunkStart' /\ (completed => snd_una >= m_size)'
      BY DEF AckedIsHeld, UnaAtChunkStart
    <2> QED BY <2>1, <2>2, <2>3
  <1>6. CASE \E i \in 1..Len(acks) : LoseAck(i)
    <2> PICK i \in 1..Len(acks) : LoseAck(i)
      BY <1>6
    <2> USE DEF LoseAck, Inv
    <2>1. acks' \in Seq(AckPacket)
      BY WithoutOne DEF TypeOK
    <2>2. \A k \in 1..Len(acks') : AckPoint(acks'[k].seq) <= rx.expected
      <3> TAKE k \in 1..Len(acks')
      <3>1. acks' = Without(acks, i) /\ acks \in Seq(AckPacket)
        BY DEF TypeOK
      <3>2. PICK j \in 1..Len(acks) : acks'[k] = acks[j]
        BY <3>1, WithoutOne
      <3> QED BY <3>2 DEF AckedIsHeld
    <2>3. TypeOK'
      BY <2>1 DEF TypeOK
    <2>4. AckedIsHeld'
      BY <2>2 DEF AckedIsHeld
    <2>5. DataInRange' /\ UnaAtChunkStart' /\ (completed => snd_una >= m_size)'
      BY DEF DataInRange, UnaAtChunkStart
    <2> QED BY <2>3, <2>4, <2>5
  <1>7. CASE UNCHANGED vars
    BY <1>7 DEF vars, Inv, TypeOK, DataInRange, AckedIsHeld, UnaAtChunkStart
  <1> QED
    BY <1>1, <1>2, <1>3, <1>4, <1>5, <1>6, <1>7 DEF Next

\* The inductive invariant holds in every reachable state of a flow.
THEOREM Invariance == Spec => []Inv
  BY InitInv, NextInv, PTL DEF Spec

(***************************************************************************)
(* The theorems.                                                           *)
(***************************************************************************)
\* Every variable keeps its type; in particular the receiver's position stays
\* inside the flow (ReceiverCheckSeq adds the length of whatever arrives).
THEOREM TypeCorrect == Spec => []TypeOK
  <1>1. Inv => TypeOK
    BY DEF Inv
  <1> QED BY <1>1, Invariance, PTL

\* RdmaHw::ReceiveAck never takes for acknowledged what the receiver does not
\* hold, whatever the fabric loses or reorders.
THEOREM AckSafety == Spec => []AckedIsHeld
  <1>1. Inv => AckedIsHeld
    BY DEF Inv
  <1> QED BY <1>1, Invariance, PTL

\* RdmaHw::QpComplete is called only when the receiver holds the whole flow.
THEOREM CompletionSafety == Spec => []CompletedIsHeld
  <1>1. Inv => CompletedIsHeld
    BY FlowAssumption DEF Inv, TypeOK, RxState, AckedIsHeld, CompletedIsHeld
  <1> QED BY <1>1, Invariance, PTL

\* A packet built by GetNxtPacket never carries a byte beyond the flow's end.
THEOREM PacketsInRange == Spec => []DataInRange
  <1>1. Inv => DataInRange
    BY DEF Inv
  <1> QED BY <1>1, Invariance, PTL

\* Which variables a step changes: no handler moves the receiver and completes
\* the queue pair at once, and a completed queue pair is never touched again.
LEMMA StepShape ==
  ASSUME Inv, [Next]_vars
  PROVE  /\ rx'.expected = rx.expected \/ completed' = completed
         /\ snd_una' >= snd_una
         /\ completed => completed' /\ snd_una' = snd_una
  <1> USE DEF Inv, TypeOK, RxState
  <1>1. CASE SendPacket
    BY <1>1 DEF SendPacket
  <1>2. CASE \E i \in Arriving(data) : ReceiveUdp(i)
    BY <1>2 DEF ReceiveUdp
  <1>3. CASE \E i \in Arriving(acks) : ReceiveAck(i)
    <2> PICK i \in 1..Len(acks) : ReceiveAck(i)
      BY <1>3 DEF Arriving
    <2>1. acks[i] \in AckPacket
      OBVIOUS
    <2>2. acks[i].seq \in 0..m_size
      BY <2>1 DEF AckPacket
    <2>3. AckPoint(acks[i].seq) \in Nat
      BY <2>2, AckPointBounds
    <2> QED
      BY <2>3, FlowAssumption DEF ReceiveAck, Acknowledge
  <1>4. CASE NackTimerExpires
    BY <1>4 DEF NackTimerExpires
  <1>5. CASE \E i \in 1..Len(data) : LoseData(i)
    BY <1>5 DEF LoseData
  <1>6. CASE \E i \in 1..Len(acks) : LoseAck(i)
    BY <1>6 DEF LoseAck
  <1>7. CASE UNCHANGED vars
    BY <1>7 DEF vars
  <1> QED
    BY <1>1, <1>2, <1>3, <1>4, <1>5, <1>6, <1>7 DEF Next

\* RdmaQueuePair::Acknowledge never takes back an acknowledgement, and
\* ReceiveAck ignores everything for a queue pair that has been deleted.
THEOREM AckMonotone == Spec => NeverTakenBack
  <1>1. Inv /\ [Next]_vars =>
          [snd_una' >= snd_una /\ (completed => snd_una' = snd_una /\ completed')]_vars
    BY StepShape
  <1> QED BY <1>1, Invariance, PTL DEF Spec, NeverTakenBack

\* The flow implements ReliableTransfer: the application's finish callback comes
\* at most once, and only when the receiver holds every byte, which it then
\* keeps.
THEOREM Refinement == Spec => TransferSpec
  <1>1. Init => Transfer!Init
    BY DEF Init, Transfer!Init
  <1>2. Inv /\ Inv' /\ [Next]_vars => [Transfer!Next]_<<rx.expected, completed>>
    <2> SUFFICES ASSUME Inv, Inv', [Next]_vars
                 PROVE  [Transfer!Next]_<<rx.expected, completed>>
      OBVIOUS
    <2>1. /\ completed \in BOOLEAN /\ completed' \in BOOLEAN
          /\ rx.expected \in 0..m_size /\ rx'.expected \in 0..m_size
      BY DEF Inv, TypeOK, RxState
    <2>2. /\ completed => rx.expected = m_size
          /\ completed' => rx'.expected = m_size
      BY <2>1, FlowAssumption DEF Inv, TypeOK, AckedIsHeld
    <2>3. /\ rx'.expected = rx.expected \/ completed' = completed
          /\ completed => completed'
      BY StepShape
    <2>4. CASE completed
      BY <2>2, <2>3, <2>4
    <2>5. CASE ~ completed /\ ~ completed'
      BY <2>1, <2>5 DEF Transfer!Next, Transfer!Move
    <2>6. CASE ~ completed /\ completed'
      BY <2>1, <2>2, <2>3, <2>6 DEF Transfer!Next, Transfer!Finish
    <2> QED BY <2>4, <2>5, <2>6
  <1> QED BY <1>1, <1>2, Invariance, PTL DEF Spec, TransferSpec, Transfer!Spec
-----------------------------------------------------------------------------
(***************************************************************************)
(* The rates and the timers of DCQCN (RdmaCcDcqcn).                        *)
(***************************************************************************)
\* Before the first CNP nothing is scheduled: HandleCnp starts each chain once.
QuietBeforeCnp ==
  m_first_cnp => alphaEvents = 0 /\ decreaseEvents = 0 /\ rpEvents = 0

\* The two halves of TypeOKCc: numbers and Booleans.
NumbersOK ==
  /\ m_rate \in Nat /\ m_targetRate \in Nat
  /\ m_rpTimeStage \in 0..(m_rpgThreshold + 1)
  /\ alphaEvents \in 0..1 /\ decreaseEvents \in 0..1 /\ rpEvents \in 0..1
  /\ cnps \in 0..MaxCnp
FlagsOK ==
  /\ m_first_cnp \in BOOLEAN /\ m_alpha_cnp_arrived \in BOOLEAN
  /\ m_decrease_cnp_arrived \in BOOLEAN
  /\ done \in BOOLEAN /\ lateCnp \in BOOLEAN

InvCc == TypeOKCc /\ RatesOrdered /\ QuietBeforeCnp /\ TimersEnd

\* The invariant in the parts its proof treats one by one.
LEMMA InvPartsCc ==
  InvCc <=> NumbersOK /\ FlagsOK /\ RatesOrdered /\ QuietBeforeCnp /\ TimersEnd
BY Zenon DEF InvCc, TypeOKCc, NumbersOK, FlagsOK

\* The mean of two rates, with the rounding of each half, stays between an even
\* lower bound and the larger of the two (FastRecovery, ActiveIncrease,
\* HyperIncrease).
LEMMA HalvesBounded ==
  ASSUME NEW lo \in Nat, lo % 2 = 0, NEW a \in Nat, NEW b \in Nat, lo <= a, a <= b
  PROVE  Halves(a, b) \in Nat /\ lo <= Halves(a, b) /\ Halves(a, b) <= b
BY DEF Halves

\* RateIncEvent never lowers the target and never exceeds the line rate.
LEMMA TargetGrows ==
  ASSUME TypeOKCc, RatesOrdered
  PROVE  RateIncEvent \in Nat /\ m_targetRate <= RateIncEvent /\ RateIncEvent <= LineRate
BY RateAssumption, StepAssumption DEF TypeOKCc, RatesOrdered, RateIncEvent, LesserOf

\* A new queue pair satisfies the invariant.
LEMMA InitInvCc == InitCc => InvCc
<1> SUFFICES ASSUME InitCc PROVE InvCc
  OBVIOUS
<1>1. NumbersOK /\ RatesOrdered
  BY RateAssumption, StepAssumption DEF InitCc, NumbersOK, RatesOrdered
<1>2. FlagsOK /\ QuietBeforeCnp /\ TimersEnd
  BY Zenon DEF InitCc, FlagsOK, QuietBeforeCnp, TimersEnd
<1>. QED BY <1>1, <1>2, InvPartsCc

\* The same in the next state.
LEMMA InvPartsNextCc ==
  NumbersOK' /\ FlagsOK' /\ RatesOrdered' /\ QuietBeforeCnp' /\ TimersEnd' => InvCc'
BY Zenon DEF InvCc, TypeOKCc, NumbersOK, FlagsOK

\* Every event keeps it.
LEMMA NextInvCc == InvCc /\ [NextCc]_varsCc => InvCc'
<1> SUFFICES ASSUME InvCc, [NextCc]_varsCc PROVE InvCc'
  OBVIOUS
<1> USE RateAssumption, StepAssumption DEF InvCc
<1>1. CASE ReceiveCnp
  <2>1. NumbersOK' /\ RatesOrdered'
    <3>1. CASE m_first_cnp
      BY <1>1, <3>1 DEF ReceiveCnp, HandleCnp, TypeOKCc, NumbersOK, RatesOrdered, QuietBeforeCnp
    <3>2. CASE ~ m_first_cnp
      BY <1>1, <3>2 DEF ReceiveCnp, HandleCnp, TypeOKCc, NumbersOK, RatesOrdered
    <3>. QED BY <3>1, <3>2
  <2>2. FlagsOK'
    BY <1>1, Zenon DEF ReceiveCnp, HandleCnp, TypeOKCc, FlagsOK
  <2>3. QuietBeforeCnp' /\ TimersEnd'
    BY <1>1, Zenon DEF ReceiveCnp, HandleCnp, QuietBeforeCnp, TimersEnd
  <2>. QED BY <2>1, <2>2, <2>3, InvPartsNextCc
<1>2. CASE LastAck
  BY <1>2 DEF LastAck, Cancel, TypeOKCc, RatesOrdered, QuietBeforeCnp, TimersEnd, rates, flags
<1>3. CASE LastAckWithCnp
  <2>1. CASE m_first_cnp
    <3>1. NumbersOK' /\ RatesOrdered'
      BY <1>3, <2>1 DEF LastAckWithCnp, HandleCnp, Cancel, TypeOKCc, NumbersOK, RatesOrdered, QuietBeforeCnp
    <3>2. FlagsOK' /\ QuietBeforeCnp' /\ TimersEnd'
      BY <1>3, <2>1, Zenon DEF LastAckWithCnp, HandleCnp, TypeOKCc, FlagsOK, QuietBeforeCnp, TimersEnd
    <3>. QED BY <3>1, <3>2, InvPartsNextCc
  <2>2. CASE ~ m_first_cnp
    <3>1. NumbersOK' /\ RatesOrdered' /\ alphaEvents' = 0 /\ decreaseEvents' = 0 /\ rpEvents' = 0
      BY <1>3, <2>2 DEF LastAckWithCnp, HandleCnp, Cancel, TypeOKCc, NumbersOK, RatesOrdered
    <3>2. FlagsOK'
      BY <1>3, <2>2, Zenon DEF LastAckWithCnp, HandleCnp, TypeOKCc, FlagsOK
    <3>3. QuietBeforeCnp' /\ TimersEnd'
      BY <3>1, Zenon DEF QuietBeforeCnp, TimersEnd
    <3>. QED BY <3>1, <3>2, <3>3, InvPartsNextCc
  <2>. QED BY <2>1, <2>2
<1>4. CASE UpdateAlpha
  BY <1>4 DEF UpdateAlpha, TypeOKCc, RatesOrdered, QuietBeforeCnp, TimersEnd, rates, timers
<1>5. CASE CheckRateDecrease
  <2>1. PICK r \in (m_rate \div 2)..m_rate : m_rate' = GreaterOf(MinRate, r)
    BY <1>5 DEF CheckRateDecrease
  <2>2. m_rate' \in Nat /\ MinRate <= m_rate' /\ m_rate' <= m_rate
    BY <2>1 DEF GreaterOf, TypeOKCc, RatesOrdered
  <2>3. RatesOrdered' /\ m_targetRate' \in Nat
    BY <1>5, <2>2 DEF CheckRateDecrease, TypeOKCc, RatesOrdered
  <2>4. NumbersOK'
    BY <1>5, <2>2, <2>3 DEF CheckRateDecrease, Cancel, TypeOKCc, NumbersOK
  <2>5. FlagsOK'
    BY <1>5, Zenon DEF CheckRateDecrease, TypeOKCc, FlagsOK
  <2>6. decreaseEvents # 0
    BY <1>5 DEF CheckRateDecrease
  <2>7. QuietBeforeCnp' /\ TimersEnd'
    BY <1>5, <2>6, Zenon DEF CheckRateDecrease, QuietBeforeCnp, TimersEnd
  <2>. QED BY <2>3, <2>4, <2>5, <2>7, InvPartsNextCc
<1>6. CASE RateIncEventTimer
  <2>1. m_targetRate' \in Nat /\ m_targetRate <= m_targetRate' /\ m_targetRate' <= LineRate
    BY <1>6, TargetGrows DEF RateIncEventTimer
  <2>2. m_rate' \in Nat /\ MinRate <= m_rate' /\ m_rate' <= m_targetRate'
    <3>1. MinRate <= m_rate /\ m_rate <= m_targetRate' /\ m_rate \in Nat
      BY <2>1 DEF RatesOrdered, TypeOKCc
    <3>2. m_rate' = Halves(m_rate, m_targetRate')
      BY <1>6 DEF RateIncEventTimer
    <3>. QED BY <2>1, <3>1, <3>2, HalvesBounded
  <2>3. m_rpTimeStage' \in 0..(m_rpgThreshold + 1)
    BY <1>6 DEF RateIncEventTimer, LesserOf, TypeOKCc
  <2>. QED
    BY <1>6, <2>1, <2>2, <2>3
    DEF RateIncEventTimer, TypeOKCc, RatesOrdered, QuietBeforeCnp, TimersEnd, flags, timers
<1>7. CASE UNCHANGED varsCc
  BY <1>7 DEF varsCc, rates, flags, timers, TypeOKCc, RatesOrdered, QuietBeforeCnp, TimersEnd
<1>. QED BY <1>1, <1>2, <1>3, <1>4, <1>5, <1>6, <1>7 DEF NextCc

\* The invariant holds in every reachable state.
THEOREM RateInvariance == SpecCc => []InvCc
BY InitInvCc, NextInvCc, PTL DEF SpecCc

\* There is never more than one scheduled event of a chain, so that the one
\* EventId a queue pair keeps for it is enough to cancel the chain.
THEOREM RateTypeCorrect == SpecCc => []TypeOKCc
<1>1. InvCc => TypeOKCc
  BY DEF InvCc
<1>. QED BY <1>1, RateInvariance, PTL

\* The rate stays between the minimal rate and the target, the target below
\* the line rate (CheckRateDecrease, RateIncEvent, HandleCnp).
THEOREM RateSafety == SpecCc => []RatesOrdered
<1>1. InvCc => RatesOrdered
  BY DEF InvCc
<1>. QED BY <1>1, RateInvariance, PTL

\* OnQpComplete leaves no event behind, except when the completing ACK carries
\* the first CNP flag.
THEOREM Cleanup == SpecCc => []TimersEnd
<1>1. InvCc => TimersEnd
  BY DEF InvCc
<1>. QED BY <1>1, RateInvariance, PTL
=============================================================================
