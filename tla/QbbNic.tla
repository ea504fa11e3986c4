-------------------------------- MODULE QbbNic --------------------------------
(***************************************************************************)
(* The NIC of a host: the queue pairs of one QbbNetDevice (GetNodeType() = *)
(* 0), its RdmaEgressQueue, the transmit machine, and the event m_nextSend *)
(* by which it paces queue pairs that may not send yet.                    *)
(*                                                                         *)
(* Time is relative to now: avail[q] is m_nextAvail - Now, tx and nextSend *)
(* are what is left until TransmitComplete and until m_nextSend fires.     *)
(* Only the sign of avail matters, so values below -MaxGap are not told    *)
(* apart: a rate change adds at most MaxGap.                               *)
(*                                                                         *)
(* The network is the environment: it acknowledges what has been sent, in  *)
(* order, pauses and resumes priorities, and brings data packets that the  *)
(* host acknowledges.  A flow is m_size packets of one size (m_mtu = 1).   *)
(***************************************************************************)
EXTENDS RdmaQp, Sequences, FiniteSets, FiniteSetsExt

CONSTANTS
  QP,          \* the queue pairs the host will open
  pg,          \* pg[q]: the priority of q (m_pg)
  ack_q_idx,   \* the priority of ACKs
  TxTime,      \* transmission time of a packet at line rate
  SendTimes,   \* transmission times of a packet at the rates of m_rate
  RepeatNack,  \* BOOLEAN: may the NACK timer expire while old packets arrive?
  Events       \* bound: NACKs, PAUSEs and data packets the network brings

Prio   == {pg[q] : q \in QP} \cup {ack_q_idx}
MaxGap == Max(SendTimes)

\* The line rate is the largest m_rate (AddQueuePair sets m_max_rate).
ASSUME TimeAssumption == /\ SendTimes \subseteq Nat \ {0} /\ IsFiniteSet(SendTimes)
                         /\ TxTime \in SendTimes /\ \A t \in SendTimes : TxTime <= t
ASSUME NicAssumption  == /\ IsFiniteSet(QP) /\ Cardinality(Windows) = 1
                         /\ RepeatNack \in BOOLEAN /\ Events \in Nat

VARIABLES
  status,            \* "new", then "live" (in m_qpMap), then "done" (deleted)
  grp,               \* m_qpGrp->m_qps
  m_rrlast,          \* index in grp served last; counted from 0 as in the code
  snd_nxt, snd_una,  \* of each queue pair
  avail,             \* m_nextAvail - Now
  gap,               \* the time of one packet at m_rate
  ackQ,              \* number of packets in m_ackQ
  tx,                \* None: READY; else the time left of the transmission
  nextSend,          \* None: m_nextSend.IsExpired(); else the time left
  paused,            \* m_paused
  upTo,              \* network: the packets below it have arrived or will
  old,               \* network: further NACKs of the last gap that may come
  events             \* network: how much of Events is used

vars == <<status, grp, m_rrlast, snd_nxt, snd_una, avail, gap, ackQ, tx, nextSend,
          paused, upTo, old, events>>

None == -1

\* What the handlers of the device change.
St == [grp |-> grp, rr |-> m_rrlast, nxt |-> snd_nxt, una |-> snd_una, avail |-> avail,
       gap |-> gap, ackQ |-> ackQ, tx |-> tx, nextSend |-> nextSend, paused |-> paused,
       upTo |-> upTo]

Become(s) ==
  /\ grp' = s.grp /\ m_rrlast' = s.rr
  /\ snd_nxt' = s.nxt /\ snd_una' = s.una
  /\ avail' = s.avail /\ gap' = s.gap
  /\ ackQ' = s.ackQ /\ tx' = s.tx /\ nextSend' = s.nextSend
  /\ paused' = s.paused /\ upTo' = s.upTo
-----------------------------------------------------------------------------
\* The condition of GetNextQindex, without the pacing.
MaySend(s, q) ==
  /\ ~ s.paused[pg[q]]
  /\ GetBytesLeft(s.nxt[q]) > 0
  /\ \E w \in Windows : ~ IsWinBound(w, s.nxt[q], s.una[q])

\* Slip: the loop over the queue pairs after the first finished one ends early.
Stays_OneLess(s, g, f) == {i \in 1..(Len(g) - 1) : i < f \/ ~ IsFinished(s.una[g[i]])}

\* "clear the finished qp": the places of the queue pairs that stay, those before
\* place f of the first finished one and after it those that are not finished.
Stays(s, g, f) == {i \in 1..Len(g) : i < f \/ ~ IsFinished(s.una[g[i]])}

\* nxt when the loop comes to place i: where a queue pair that stays moves.
Place(stay, i) == Cardinality({j \in stay : j <= i})

Compact(g, stay) ==
  [p \in 1..Cardinality(stay) |-> g[CHOOSE i \in stay : Place(stay, i) = p]]

\* Slip: the index is not updated.
NewIndex_Unchanged(stay, i) == i

\* "update res to the idx after removing finished qp": it keeps the old value
\* when the queue pair at res itself is removed.
NewIndex(stay, i) == IF i \in stay THEN Place(stay, i) ELSE i

\* The place the loop of GetNextQindex looks at in round i, and what it finds
\* there: a queue pair that may send now, or one that is finished.
At(s, i)    == ((i + s.rr) % Len(s.grp)) + 1
Ready(s, i) == LET q == s.grp[At(s, i)] IN MaySend(s, q) /\ s.avail[q] <= 0
Over(s, i)  == LET q == s.grp[At(s, i)] IN ~ MaySend(s, q) /\ IsFinished(s.una[q])

\* RdmaEgressQueue::GetNextQindex for the queue pairs.  qp is the one the loop
\* breaks at, grp what is left of m_qps, idx the index returned (None: no qp).
GetNextQindex(s) ==
  LET n     == Len(s.grp)
      ready == {i \in 1..n : Ready(s, i)}
      last  == IF ready = {} THEN n ELSE Min(ready)
      over  == {At(s, i) : i \in {j \in 1..last : Over(s, j)}}
      stay  == IF over = {} THEN 1..n ELSE Stays(s, s.grp, Min(over))
  IN  [qp  |-> IF ready = {} THEN None ELSE s.grp[At(s, last)],
       grp |-> Compact(s.grp, stay),
       idx |-> IF ready = {} THEN None ELSE NewIndex(stay, At(s, last))]

\* RdmaEgressQueue::DequeueQindex, RdmaHw::GetNxtPacket, TransmitStart and
\* RdmaHw::PktSent for the queue pair at index idx.
SendFrom(s, idx) ==
  LET q   == s.grp[idx]
      nxt == s.nxt[q] + PayloadSize(s.nxt[q])
  IN  [s EXCEPT !.rr = idx - 1, !.nxt[q] = nxt, !.avail[q] = s.gap[q], !.tx = TxTime,
                !.upTo[q] = IF nxt > @ THEN nxt ELSE @]

\* Slip: the loop over the queue pairs starts at 1.
Pace_SkipFirst(s) ==
  LET t == {s.avail[s.grp[i]] : i \in 2..Len(s.grp)}
  IN  IF s.nextSend = None /\ t # {} /\ Min(t) > 0
      THEN [s EXCEPT !.nextSend = Min(t)] ELSE s

\* DequeueAndTransmit, "no packet to send".
Pace(s) ==
  LET t == {s.avail[s.grp[i]] : i \in 1..Len(s.grp)}
  IN  IF s.nextSend = None /\ t # {} /\ Min(t) > 0
      THEN [s EXCEPT !.nextSend = Min(t)] ELSE s

\* QbbNetDevice::DequeueAndTransmit of a NIC.  An index beyond m_qps is a read
\* outside the vector: the model goes no further than not sending.
DequeueAndTransmit(s) ==
  LET pick == GetNextQindex(s)
      t    == [s EXCEPT !.grp = pick.grp]
  IN  IF s.tx # None THEN s
      ELSE IF ~ s.paused[ack_q_idx] /\ s.ackQ > 0
           THEN [s EXCEPT !.ackQ = @ - 1, !.tx = TxTime]
      ELSE IF pick.idx = None THEN Pace(t)
      ELSE IF pick.idx <= Len(pick.grp) THEN SendFrom(t, pick.idx)
      ELSE t

\* QbbNetDevice::UpdateNextAvail
UpdateNextAvail(s, t) ==
  IF s.nextSend # None /\ t < s.nextSend
  THEN [s EXCEPT !.nextSend = IF t < 0 THEN 0 ELSE t] ELSE s

\* RdmaHw::ChangeRate, called by the congestion control from HandleAck; g is
\* the time of the last packet at the new rate.
ChangeRate(s, q, g) ==
  LET t    == s.avail[q] + g - s.gap[q]
      base == IF t < -MaxGap THEN -MaxGap ELSE t
  IN  [UpdateNextAvail(s, t) EXCEPT !.avail[q] = base, !.gap[q] = g]
-----------------------------------------------------------------------------
(***************************************************************************)
(* The events.                                                             *)
(***************************************************************************)
\* RdmaHw::AddQueuePair and QbbNetDevice::NewQp
AddQueuePair(q) ==
  /\ status[q] = "new"
  /\ status' = [status EXCEPT ![q] = "live"]
  /\ Become(DequeueAndTransmit([St EXCEPT !.grp = Append(@, q), !.avail[q] = 0]))
  /\ UNCHANGED <<old, events>>

\* RdmaHw::ReceiveAck for a queue pair in m_qpMap (it ignores the others).
Acked(q, seq, nack, top, g) ==
  LET una == Acknowledge(snd_una[q], AckPoint(seq))
      s   == [St EXCEPT !.una[q] = una, !.nxt[q] = IF nack THEN una ELSE @, !.upTo[q] = top]
  IN  /\ status[q] = "live"
      /\ status' = [status EXCEPT ![q] = IF IsFinished(una) THEN "done" ELSE @]
      /\ Become(DequeueAndTransmit(ChangeRate(s, q, g)))

ReceiveAck(q, g) ==
  /\ \E seq \in (snd_una[q] + 1)..upTo[q] : Acked(q, seq, FALSE, upTo[q], g)
  /\ old' = [old EXCEPT ![q] = 0]
  /\ UNCHANGED events

\* The receiver misses packet seq and throws the later ones away.  Each of them
\* after the first may bring another NACK, if the NACK timer has expired.
ReceiveNack(q, g) ==
  /\ events < Events
  /\ \E seq \in snd_una[q]..(upTo[q] - 2) :
       /\ Acked(q, seq, TRUE, seq, g)
       /\ old' = [old EXCEPT ![q] = IF RepeatNack THEN upTo[q] - seq - 2 ELSE 0]
  /\ events' = events + 1

\* A second NACK of the same gap, sent before the resent packets arrived.
ReceiveOldNack(q, g) ==
  /\ old[q] > 0
  /\ Acked(q, snd_una[q], TRUE, upTo[q], g)
  /\ old' = [old EXCEPT ![q] = @ - 1]
  /\ UNCHANGED events

\* RdmaHw::ReceiveUdp: an ACK or NACK is queued and the device triggered.
ReceiveUdp ==
  /\ events < Events
  /\ Become(DequeueAndTransmit([St EXCEPT !.ackQ = @ + 1]))
  /\ events' = events + 1
  /\ UNCHANGED <<status, old>>

\* QbbNetDevice::Receive of a PFC frame, and Resume.
ReceivePause(k) ==
  /\ events < Events
  /\ paused' = [paused EXCEPT ![k] = TRUE]
  /\ events' = events + 1
  /\ UNCHANGED <<status, grp, m_rrlast, snd_nxt, snd_una, avail, gap, ackQ, tx, nextSend, upTo, old>>

ReceiveResume(k) ==
  /\ paused[k]
  /\ Become(DequeueAndTransmit([St EXCEPT !.paused[k] = FALSE]))
  /\ UNCHANGED <<status, old, events>>

\* Slip: the device becomes ready and does not look for the next packet.
TransmitComplete_NoDequeue ==
  /\ tx = 0
  /\ Become([St EXCEPT !.tx = None])
  /\ UNCHANGED <<status, old, events>>

TransmitComplete ==
  /\ tx = 0
  /\ Become(DequeueAndTransmit([St EXCEPT !.tx = None]))
  /\ UNCHANGED <<status, old, events>>

\* m_nextSend fires.
NextSend ==
  /\ nextSend = 0
  /\ Become(DequeueAndTransmit([St EXCEPT !.nextSend = None]))
  /\ UNCHANGED <<status, old, events>>

\* Time passes when no event of the device is due.
Tick ==
  /\ tx # 0 /\ nextSend # 0
  /\ tx' = IF tx = None THEN None ELSE tx - 1
  /\ nextSend' = IF nextSend = None THEN None ELSE nextSend - 1
  /\ avail' = [q \in QP |-> IF avail[q] > -MaxGap THEN avail[q] - 1 ELSE avail[q]]
  /\ UNCHANGED <<status, grp, m_rrlast, snd_nxt, snd_una, gap, ackQ, paused, upTo, old, events>>

Init ==
  /\ status = [q \in QP |-> "new"]
  /\ grp = <<>> /\ m_rrlast = 0
  /\ snd_nxt = [q \in QP |-> 0] /\ snd_una = [q \in QP |-> 0]
  /\ avail = [q \in QP |-> -MaxGap] /\ gap = [q \in QP |-> TxTime]
  /\ ackQ = 0 /\ tx = None /\ nextSend = None
  /\ paused = [k \in Prio |-> FALSE]
  /\ upTo = [q \in QP |-> 0] /\ old = [q \in QP |-> 0] /\ events = 0

Next ==
  \/ \E q \in QP : AddQueuePair(q)
  \/ \E q \in QP, g \in SendTimes :
       ReceiveAck(q, g) \/ ReceiveNack(q, g) \/ ReceiveOldNack(q, g)
  \/ ReceiveUdp
  \/ \E k \in Prio : ReceivePause(k) \/ ReceiveResume(k)
  \/ TransmitComplete \/ NextSend \/ Tick

Spec == Init /\ [][Next]_vars

\* The network owes an ACK for what has arrived.
Unacked(q) == status[q] = "live" /\ snd_una[q] < upTo[q]

\* Fairness.  The device's own events are scheduled, so they happen; the network
\* resumes what it paused and acknowledges what arrives.  Each conjunct after the
\* first is the weak fairness of one action, written as "its occasion passes":
\* only TransmitComplete ends tx = 0, only NextSend ends nextSend = 0, only
\* ReceiveResume(k) ends paused[k], and Unacked(q) ends by an ACK or a NACK.
FairSpec ==
  /\ Spec
  /\ WF_vars(Tick)
  /\ []<>(tx # 0) /\ []<>(nextSend # 0)
  /\ \A k \in Prio : []<>(~ paused[k])
  /\ \A q \in QP : []<>(~ Unacked(q))
-----------------------------------------------------------------------------
TypeOK ==
  /\ status \in [QP -> {"new", "live", "done"}]
  /\ grp \in Seq(QP) /\ m_rrlast \in Nat
  /\ snd_nxt \in [QP -> 0..m_size] /\ snd_una \in [QP -> 0..m_size]
  /\ avail \in [QP -> -MaxGap..MaxGap] /\ gap \in [QP -> SendTimes]
  /\ ackQ \in Nat /\ tx \in -1..TxTime /\ nextSend \in -1..MaxGap
  /\ paused \in [Prio -> BOOLEAN]
  /\ upTo \in [QP -> 0..m_size] /\ old \in [QP -> Nat] /\ events \in 0..Events

\* A queue pair that is not complete is in the group of its NIC exactly once:
\* the removal of finished queue pairs moves the others and loses none.
LiveInGroup ==
  \A q \in QP : status[q] = "live" =>
    Cardinality({i \in 1..Len(grp) : grp[i] = q}) = 1

Idle == tx = None

\* An idle NIC has a reason to be idle.  An ACK is in its queue only while the
\* priority of ACKs is paused; and when a queue pair may send, either m_nextSend
\* is scheduled, or some other queue pair waits for an ACK or a RESUME.  In the
\* latter case the NIC has no event of its own, although the queue pair waits
\* only for its pace: m_nextAvail of the one that waits lies in the past, it is
\* the minimum, and DequeueAndTransmit schedules nothing for a time in the past.
\* But that ACK or RESUME will trigger the NIC.
StallEnds ==
  Idle =>
    /\ ackQ > 0 => paused[ack_q_idx]
    /\ \A q \in QP : status[q] = "live" /\ MaySend(St, q) =>
         \/ nextSend # None
         \/ \E r \in QP \ {q} : status[r] = "live" /\ ~ MaySend(St, r)

\* The index GetNextQindex returns is that of the queue pair it has chosen:
\* "update res to the idx after removing finished qp".
IndexIsOfChosen ==
  LET pick == GetNextQindex(St)
  IN  pick.idx # None => pick.idx <= Len(pick.grp) /\ pick.grp[pick.idx] = pick.qp

\* A repeated NACK has set snd_nxt back below what an ACK then acknowledged: the
\* unsigned window is full and the queue pair never sends again (RdmaTransport,
\* NextNotBehindUna).
Behind(q) == status[q] = "live" /\ snd_nxt[q] < snd_una[q]

\* Unless that happens every queue pair completes: pacing, pauses, rate changes,
\* NACKs, the missing wakeups (StallEnds) and the service of the other queue
\* pairs only delay it.
EveryQpCompletes ==
  \A q \in QP : status[q] = "live" ~> status[q] = "done" \/ \E r \in QP : Behind(r)
=============================================================================
