------------------------------- MODULE RdmaQp -------------------------------
(***************************************************************************)
(* The arithmetic of one RDMA flow: RdmaQueuePair on the sender,           *)
(* RdmaRxQueuePair on the receiver (rdma-queue-pair.cc), and the receiver's *)
(* classification of a packet (RdmaHw::ReceiverCheckSeq).                  *)
(***************************************************************************)
EXTENDS Integers

CONSTANTS
  m_size,          \* bytes of the flow (uint64_t)
  m_mtu,           \* bytes of payload in a full packet
  m_chunk,         \* L2ChunkSize
  m_ack_interval,  \* L2AckInterval
  m_backto0,       \* L2BackToZero
  Windows,         \* the values GetWin may return: {0} without a window, {w} with
                   \* a fixed one, 1..w with VarWin (it follows the current rate)
  SeqSpace,        \* 2^32: sequence numbers on the wire and in the receiver
  Word             \* 2^64: snd_nxt - snd_una is an unsigned subtraction

\* The code divides by m_chunk (ReceiverCheckSeq and, with L2BackToZero,
\* ReceiveAck) without a test, although 0 is the attribute's default.
ASSUME ChunkAssumption  == m_chunk \in Nat \ {0}
ASSUME FlowAssumption   == /\ m_size \in Nat \ {0}
                           /\ m_mtu \in Nat \ {0}
                           /\ m_ack_interval \in Nat
                           /\ m_backto0 \in BOOLEAN
                           /\ Windows \subseteq Nat
\* Larger flows send packets of length m_size % 2^32 and wrap the receiver's
\* sequence numbers; the properties are about flows below 4 GB.
ASSUME WidthAssumption  == /\ SeqSpace \in Nat /\ m_size < SeqSpace
                           /\ Word \in Nat /\ SeqSpace < Word

MinOf(a, b) == IF a <= b THEN a ELSE b
-----------------------------------------------------------------------------
\* Sender.
\* Slip: off by one.
GetBytesLeft_OneMore(nxt) == IF m_size >= nxt THEN m_size - nxt + 1 ELSE 0

GetBytesLeft(nxt) == IF m_size >= nxt THEN m_size - nxt ELSE 0

\* GetNxtPacket: payload_size is a uint32_t.
PayloadSize(nxt) == MinOf(m_mtu, GetBytesLeft(nxt) % SeqSpace)

GetOnTheFly(nxt, una) == (nxt - una) % Word

IsWinBound(w, nxt, una) == w # 0 /\ GetOnTheFly(nxt, una) >= w

\* Slip: off by one.
IsFinished_Early(una) == una + 1 >= m_size

IsFinished(una) == una >= m_size

\* Slip: an old ACK is not recognised.
Acknowledge_Always(una, ack) == ack

Acknowledge(una, ack) == IF ack > una THEN ack ELSE una

\* The start of the chunk that holds byte s.
ChunkStart(s) == (s \div m_chunk) * m_chunk

\* Slip: the chunk is not rounded down.
AckPoint_Exact(seq) == seq

\* ReceiveAck: what an ACK or NACK with sequence number seq acknowledges.
AckPoint(seq) == IF m_backto0 THEN ChunkStart(seq) ELSE seq
-----------------------------------------------------------------------------
\* Receiver: ReceiverCheckSeq.  armed says that Now < m_nackTimer.  ReceiveUdp
\* has just set m_milestone_rx to m_ack_interval.
InOrder(rx, seq)   == seq = rx.expected
Gap(rx, seq)       == seq > rx.expected
NackDue(rx)        == ~ rx.armed \/ rx.lastNACK # rx.expected

Advanced(rx, len)  == (rx.expected + len) % SeqSpace
AckDue(expected)   == expected >= m_ack_interval \/ expected % m_chunk = 0

\* The receiver's state after the packet.
CheckSeq(rx, seq, len) ==
  IF InOrder(rx, seq) THEN [rx EXCEPT !.expected = Advanced(rx, len)]
  ELSE IF Gap(rx, seq) /\ NackDue(rx)
  THEN [expected |-> IF m_backto0 THEN ChunkStart(rx.expected) ELSE rx.expected,
        lastNACK |-> rx.expected, armed |-> TRUE]
  ELSE rx

\* What it sends back: codes 1 (ACK), 2 (NACK), 3, 4, 5 (nothing).
Reply(rx, seq, len) ==
  IF InOrder(rx, seq) THEN IF AckDue(Advanced(rx, len)) THEN "ack" ELSE "none"
  ELSE IF Gap(rx, seq) /\ NackDue(rx) THEN "nack" ELSE "none"
=============================================================================
