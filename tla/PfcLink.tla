-------------------------------- MODULE PfcLink --------------------------------
(***************************************************************************)
(* Hosts and a switch joined by wires: priority flow control end to end.   *)
(*                                                                         *)
(* Every device of the switch (SwitchNode) has a host behind it.  A host   *)
(* sends the packets of one flow, acknowledges the packets it receives,    *)
(* and obeys the PFC frames of the switch; it also sends PFC frames of its *)
(* own, to imitate a PCIe bus that cannot keep up (RdmaHw::PCIePause and   *)
(* PCIeResume).  All that a host sends besides data goes through m_ackQ,   *)
(* which is not served while ack_q_idx is paused.                          *)
(*                                                                         *)
(* There is one accounted priority, q.  A packet of size AckSize is an     *)
(* ACK, the others are data.  Flows have neither window nor pacing, so     *)
(* that a host with packets left may send unless it is paused.             *)
(***************************************************************************)
EXTENDS SwitchNode

CONSTANTS
  AckSize, DataSize,   \* sizes of an ACK and of a data packet
  FlowPackets,         \* packets of the flow of each host
  AckInterval,         \* a host acknowledges every so many packets
  TotalPauseTimes,     \* m_total_pause_times
  AckQueues            \* the values of ack_q_idx that are examined

ASSUME LinkAssumption ==
  /\ \E k \in Queue : Queue = {k}
  /\ Size = {AckSize, DataSize} /\ AckSize # DataSize
  /\ \A d \in Port : \E f \in Flow : f[1] = d
  /\ FlowPackets \in [Port -> Nat] /\ TotalPauseTimes \in Nat
  /\ AckInterval \in Nat \ {0}
  /\ AckQueues \subseteq Queue \cup {0}

VARIABLES
  host,       \* host[h]: the NIC behind device h of the switch
  toHost,     \* toHost[h]: what is on the wire to host h, first sent first
  toSwitch,   \* toSwitch[h]: what is on the wire from host h
  ack_q_idx   \* 0 if ACKs have the highest priority (ack_high_prio), else 3,
              \* the priority of the data

linkVars == <<host, toHost, toSwitch, ack_q_idx>>
allVars  == <<vars, linkVars>>

q == CHOOSE k \in Queue : TRUE

Data == [pfc |-> FALSE, size |-> DataSize]
Ack  == [pfc |-> FALSE, size |-> AckSize]
Item == {Data, Ack} \cup Frame

\* cur is m_currentPkt, left the packets of the flow not sent yet, got those
\* received since the last ACK, resume and rearm whether PCIeResume and
\* EnablePause are scheduled.
NewHost(h) ==
  [cur |-> Idle, paused |-> FALSE, ackQ |-> <<>>, left |-> 0, got |-> 0, opened |-> FALSE,
   enable |-> TRUE, times |-> 0, resume |-> FALSE, rearm |-> FALSE]

\* Is m_paused[ack_q_idx] set?  Nothing ever pauses queue 0.
AckPaused(n) == ack_q_idx = q /\ n.paused
-----------------------------------------------------------------------------
\* QbbNetDevice::DequeueAndTransmit of a NIC, with GetNextQindex for the one
\* queue pair of the host.
NicDequeue(n) ==
  IF n.cur # Idle THEN n
  ELSE IF n.ackQ # <<>> /\ ~ AckPaused(n)
       THEN [n EXCEPT !.cur = Head(n.ackQ), !.ackQ = Tail(n.ackQ)]
  ELSE IF n.left > 0 /\ ~ n.paused THEN [n EXCEPT !.cur = Data, !.left = @ - 1]
  ELSE n

\* Slip: the newest packet goes first.
NicEnqueue_Front(n, item) == NicDequeue([n EXCEPT !.ackQ = <<item>> \o @])

\* RdmaEnqueueHighPrioQ and TriggerTransmit.
NicEnqueue(n, item) == NicDequeue([n EXCEPT !.ackQ = Append(@, item)])

\* RdmaHw::PCIePause: no more than m_total_pause_times of them.
PCIePause(n) ==
  IF n.times >= TotalPauseTimes THEN n
  ELSE NicEnqueue([n EXCEPT !.times = @ + 1, !.resume = TRUE], Pfc(q, TRUE))

\* RdmaHw::ReceiveUdp of a packet that is in sequence: perhaps a PCIe pause,
\* then an ACK if the milestone is reached (ReceiverCheckSeq).
ReceiveUdp(n) ==
  LET m == IF n.enable THEN [PCIePause(n) EXCEPT !.enable = FALSE] ELSE n
  IN  IF n.got + 1 = AckInterval THEN NicEnqueue([m EXCEPT !.got = 0], Ack)
      ELSE [m EXCEPT !.got = @ + 1]

\* QbbNetDevice::Receive of a NIC.
NicReceive(n, item) ==
  IF item.pfc
  THEN IF item.on THEN [n EXCEPT !.paused = TRUE]
       ELSE NicDequeue([n EXCEPT !.paused = FALSE])
  ELSE IF item = Data THEN ReceiveUdp(n) ELSE n
-----------------------------------------------------------------------------
Becomes(h, n) == host' = [host EXCEPT ![h] = n]

\* RdmaHw::AddQueuePair: the flow of host h starts.
OpenFlow(h) ==
  /\ ~ host[h].opened
  /\ Becomes(h, NicDequeue([host[h] EXCEPT !.opened = TRUE, !.left = FlowPackets[h]]))
  /\ UNCHANGED <<vars, toHost, toSwitch, ack_q_idx>>

\* TransmitComplete of the NIC.  QbbChannel delivers the packet after the delay
\* of the wire, in the order of the transmissions.
NicTransmitComplete(h) ==
  /\ host[h].cur # Idle
  /\ toSwitch' = [toSwitch EXCEPT ![h] = Append(@, host[h].cur)]
  /\ Becomes(h, NicDequeue([host[h] EXCEPT !.cur = Idle]))
  /\ UNCHANGED <<vars, toHost, ack_q_idx>>

\* TransmitComplete of the switch's device.
SwitchTransmitComplete(h) ==
  /\ TransmitComplete(h)
  /\ toHost' = [toHost EXCEPT ![h] = Append(@, m_currentPkt[h])]
  /\ UNCHANGED <<host, toSwitch, ack_q_idx>>

\* The first packet on the wire arrives at the host.
HostReceives(h) ==
  /\ toHost[h] # <<>>
  /\ toHost' = [toHost EXCEPT ![h] = Tail(@)]
  /\ Becomes(h, NicReceive(host[h], Head(toHost[h])))
  /\ UNCHANGED <<vars, toSwitch, ack_q_idx>>

\* The first packet on the wire arrives at the switch.
SwitchReceives(h) ==
  /\ toSwitch[h] # <<>>
  /\ LET item == Head(toSwitch[h])
         out  == (CHOOSE f \in Flow : f[1] = h)[2]
     IN  \/ item.pfc /\ item.on /\ ReceivePause(h, q)
         \/ item.pfc /\ ~ item.on /\ ReceiveResume(h, q)
         \/ ~ item.pfc /\ ~ (item = Ack /\ ack_q_idx = 0) /\ ReceiveData(h, out, q, item.size)
         \/ item = Ack /\ ack_q_idx = 0 /\ ReceiveHigh(h, out, item.size)
  /\ toSwitch' = [toSwitch EXCEPT ![h] = Tail(@)]
  /\ UNCHANGED <<host, toHost, ack_q_idx>>

\* Slip: the RESUME of PCIeResume is not followed by TriggerTransmit.
PCIeResume_NoTrigger(h) ==
  /\ host[h].resume
  /\ Becomes(h, [host[h] EXCEPT !.resume = FALSE, !.rearm = TRUE,
                                !.ackQ = Append(@, Pfc(q, FALSE))])
  /\ UNCHANGED <<vars, toHost, toSwitch, ack_q_idx>>

\* RdmaHw::PCIeResume, 10 us after PCIePause.
PCIeResume(h) ==
  /\ host[h].resume
  /\ Becomes(h, NicEnqueue([host[h] EXCEPT !.resume = FALSE, !.rearm = TRUE], Pfc(q, FALSE)))
  /\ UNCHANGED <<vars, toHost, toSwitch, ack_q_idx>>

\* RdmaHw::EnablePause, 1000 us after PCIeResume.
EnablePause(h) ==
  /\ host[h].rearm
  /\ Becomes(h, [host[h] EXCEPT !.rearm = FALSE, !.enable = TRUE])
  /\ UNCHANGED <<vars, toHost, toSwitch, ack_q_idx>>

LinkInit ==
  /\ Init
  /\ host = [h \in Port |-> NewHost(h)]
  /\ toHost = [h \in Port |-> <<>>]
  /\ toSwitch = [h \in Port |-> <<>>]
  /\ ack_q_idx \in AckQueues

\* Everything but the start of a flow is an event that has been scheduled.
Scheduled ==
  \E h \in Port :
    \/ NicTransmitComplete(h) \/ SwitchTransmitComplete(h)
    \/ HostReceives(h) \/ SwitchReceives(h)
    \/ PCIeResume(h) \/ EnablePause(h)

\* No event is scheduled any more.
Quiet ==
  \A h \in Port : /\ host[h].cur = Idle /\ m_currentPkt[h] = Idle
                  /\ toHost[h] = <<>> /\ toSwitch[h] = <<>>
                  /\ ~ host[h].resume /\ ~ host[h].rearm

\* Only then may the system stop.  (So a bound of SwitchNode that held back an
\* arrival would show as a deadlock.)
Finished == Quiet /\ UNCHANGED allVars

LinkNext == Scheduled \/ (\E h \in Port : OpenFlow(h)) \/ Finished

LinkSpec == LinkInit /\ [][LinkNext]_allVars
-----------------------------------------------------------------------------
\* Nothing is left to be sent and nobody is paused.
Drained ==
  /\ Buffered = {} /\ mmu = InitMmu
  /\ \A h \in Port : /\ host[h].left = 0 /\ host[h].ackQ = <<>> /\ ~ host[h].paused
                     /\ ~ m_paused[h][q]

\* Hosts that wait for each other through the switch: each has paused the
\* switch and keeps the RESUME in m_ackQ, because the switch has paused it; and
\* all the switch holds is for one of them.
Waits(h) == /\ m_paused[h][q] /\ host[h].paused /\ ack_q_idx = q
            /\ \E i \in 1..Len(host[h].ackQ) : host[h].ackQ[i] = Pfc(q, FALSE)
Standoff ==
  /\ \E h \in Port : Waits(h)
  /\ \A d \in Port : queue[d][q] # <<>> => Waits(d)

\* When no event is scheduled any more, everything has been delivered and every
\* pause has been lifted, on both sides; the only exception is a standoff, which
\* needs ACKs to share the priority of the data (ack_q_idx = q) and a cycle of
\* PCIe pauses against switch pauses.
QuietIsDrained == Quiet => Drained \/ Standoff

\* Resume asserts "Must be PAUSEd": every RESUME finds its priority paused, at
\* the hosts and at the switch, although PAUSE and RESUME wait in queues and on
\* wires on their way.
ResumeFindsPause ==
  \A h \in Port :
    /\ toHost[h] # <<>> /\ Head(toHost[h]) = Pfc(q, FALSE) => host[h].paused
    /\ toSwitch[h] # <<>> /\ Head(toSwitch[h]) = Pfc(q, FALSE) => m_paused[h][q]
=============================================================================
