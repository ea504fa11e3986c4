# TLA+ verification of the RDMA/PFC network simulator

This directory models the part of the repository that is its own work on top of
ns-3: the lossless-Ethernet switch (`SwitchMmu`, `SwitchNode`, `BEgressQueue`,
`QbbNetDevice`), the RDMA transport of the hosts (`RdmaHw`, `RdmaQueuePair`, `RdmaCcDcqcn`),
the routes between them (`topology.h`, `RdmaBgpBridge`), and the event loop all of it
runs on (`DefaultSimulatorImpl`).  The modules are checked by TLC on small instances, and
the central invariants are proved with TLAPS for every value of the constants.

## 1. Inventory

The network is simulated by one thread: `Simulator::Run` takes one event at a time and
runs its handler to the end.  That is the grain of the actions of every module but
`Simulator`: one event, with all the calls it makes, is one step.  What makes the network
hard is the *order* of the events, and that one event calls through several devices.
The loop itself is the exception: other threads may hand it events, through a list under a
mutex and a flag that the main thread reads without it.

| Part | State | Operations | Correct when |
|---|---|---|---|
| `SwitchMmu` | `ingress_bytes`, `hdrm_bytes`, `egress_bytes` per (port, queue), `shared_used_bytes`, `paused` | admission check, charge, release, pause/resume decision | counters equal the packets held, none wraps, headroom only behind a PAUSE, a paused ingress can still be resumed |
| `SwitchNode` | `m_bytes[in][out][q]`, the MMU, `m_rtTable` | `SendToDev`, `SwitchNotifyDequeue`, `CheckAndSendPfc`, `CheckAndSendResume` | every packet that is queued is charged once and released once |
| `BEgressQueue` | one FIFO per priority, `m_rrlast` | `Enqueue`, `DequeueRR` | queue 0 first, round robin fair, paused queues are skipped |
| `QbbNetDevice` | `m_txMachineState`, `m_paused[]`, `m_linkUp`, `m_nextSend` | transmit start/complete, PFC send/receive, take down | never idle while something may be sent; PAUSE and RESUME alternate |
| `QbbChannel` | none | delivers after a delay | order kept |
| `RdmaQueuePair` / `RdmaRxQueuePair` | `snd_nxt`, `snd_una`, window, rate / `ReceiverNextExpectedSeq`, NACK timer | sequence arithmetic | see the transport |
| `RdmaHw` | queue pair tables, `m_rtTable`, PCIe pause flags | `GetNxtPacket`, `ReceiveUdp`, `ReceiveAck`, `QpComplete`, `PCIePause`, `RedistributeQp`, rate changes | what is acknowledged is held; completion only when everything is held; every queue pair is served by the NIC its ACKs trigger |
| `RdmaEgressQueue` | the NIC's queue pairs, `m_ackQ`, `m_rrlast` | `GetNextQindex`, `DequeueQindex` | no queue pair is forgotten |
| Congestion control | rates, timers | `HandleCnp`, `HandleAck`, `OnQpComplete` | timers end with the queue pair |
| Topology and routes | `nbr2if`, `nextHop`, the tables of all nodes | `CalculateRoutes`, `SetRoutingEntries`, `TakeDownLink` | all shortest paths over links that are up, after every failure |
| BGP bridge | `m_lastSnapshot` | `SyncRoutes` | no route is lost that was there before |
| `DefaultSimulatorImpl` | scheduler, current key, `m_unscheduledEvents`, `m_eventsWithContext` and its flag, destroy events | `Schedule*`, `Cancel`, `Remove`, `Run`, `Stop`, `Destroy` | events run once, in the order of their keys; none is lost |
| Schedulers | heap, map, list, calendar, priority queue | `Insert`, `RemoveNext`, `Remove` | `RemoveNext` is the earliest event |

How they interact: a device that receives a data packet calls `SwitchNode::SendToDev`,
which charges the MMU; this may make the *input* device send a PAUSE, puts the packet
on the *output* device, and that device, if idle, dequeues some packet at once, whose
release may make a *third* device send a RESUME.  `TransmitComplete` and a received
RESUME start the same dequeue chain.  On a host, ACKs update the queue pair and trigger
the NIC, the NIC pulls packets out of the queue pairs; a received packet may make the host
pause the switch (`PCIePause`).  `TakeDownLink` is one event that touches every node: it
clears and recomputes all tables, takes two devices down and gives every queue pair a NIC
again.  Nothing is persisted, so there is no crash recovery; links can be taken down and
never come back.

The hazards are listed in `PROJECT.json`, each at the line where it bites.

## 2. Modules and how they correspond to the code

| Module | Models |
|---|---|
| `SwitchMmu` | The MMU's counters as one record, and its methods as operators on it, one per method, named as in `switch-mmu.cc`.  `Enter` and `Leave` are the sequences of MMU calls `SendToDev` and `SwitchNotifyDequeue` make for one packet.  At its end, what it means that the counters match a set of packets (`IngressMatches` to `PausedHolds`). |
| `SwitchBuffer` | Abstract specification of the shared buffer: a set of packets, admitted and released in any order.  Holds the accounting properties. |
| `SwitchNode` | A whole switch: MMU, per-device queues, transmit machine, received pauses, PFC frames, link failure.  Each handler is an operator on the record of everything it may change, because one event runs through several devices; the actions apply one of them to the current state. |
| `PfcLink` | `SwitchNode` with a host behind every device and the wires between them: flows, ACKs, PFC in both directions, PCIe pauses. |
| `RdmaQp` | Arithmetic of one flow: bytes left, window, completion, acknowledgement, and the receiver's classification of a packet. |
| `ReliableTransfer` | Abstract specification: the application is told once, when the receiver holds all. |
| `RdmaTransport` | One flow between two hosts over a fabric that may lose and reorder. |
| `QbbNic` | The NIC of a host: several queue pairs in one group, the round robin of `GetNextQindex` with its removal of finished queue pairs, pacing by `m_nextAvail` and `m_nextSend`, rate changes, ACK queue, received pauses.  It uses the arithmetic of `RdmaQp`. |
| `Dcqcn` | Congestion control of one queue pair (`RdmaCcDcqcn`): rates as whole numbers that round, `m_alpha` as the range of rates a decrease can give, the three chains of self-scheduling events as counts of scheduled events, CNPs and completion as `ReceiveAck` orders them. |
| `Routing` | `CalculateRoute` as the search it is, a function of the rounds of its loop; the tables of all nodes, the NIC of each queue pair, packets under way, and `TakeDownLink` with everything it calls as one action. |
| `RoutingBgp` | `Routing` with a BGP speaker on every node and the bridge that copies its RIB into the tables. |
| `Simulator` | The event loop: main thread with a program counter, other threads that post, critical sections as single steps, the scheduler as a set ordered by key. |
| `HeapScheduler` | The binary heap of `heap-scheduler.cc`, index by index. |
| `SwitchMmuProofs` | Lemmas on the operators of `SwitchMmu`, shared by the next two. |
| `SwitchBufferProofs`, `SwitchNodeProofs`, `PfcLinkProofs`, `QbbNicProofs`, `RoutingProofs`, `SimulatorProofs` | Theorems and proofs about the module of that name. |
| `RdmaHwProofs` | Theorems and proofs about `RdmaTransport` and `Dcqcn`, the two parts of `RdmaHw`.  They share no constant and no variable, so the assumptions of one say nothing about the other. |
| `MC*` | Constants for TLC. |

Operators commented *Slip* are plausible mistakes in the operator that follows them
(a dropped test, a wrong index, a missing call).  No specification uses them; put in
place of the real operator each makes a property fail, which shows that the property
discriminates.

Points of correspondence worth knowing when reading the modules next to the code:

* The MMU's tests are kept as they are written.  `CheckIngressAdmission` tests
  `psize + GetSharedUsed` while `UpdateIngressAdmission` tests `new_bytes - reserve`;
  they differ below the reserve.  Release takes from headroom first, whatever the packet
  was charged to.
* Queue 0 (PFC frames, ACKs and CNPs of high priority) bypasses the MMU, is never paused,
  and `m_bytes` counts what enters it and never what leaves: `SwitchNotifyDequeue` does
  nothing for it.  `BytesMatchQueues` is therefore about the accounted priorities.
* `TakeDown` of a switch device discards its queues without `SwitchNotifyDequeue`: `m_bytes`
  and the MMU go on counting those packets, and the ingress they came from may stay paused.
  The history variable `discarded` of `SwitchNode` holds them; `BytesMatchQueues` and
  `BufferSpec` say that nothing *else* stays charged.
* In the receiver, `ReceiveUdp` sets `m_milestone_rx` to `m_ack_interval` before every
  `ReceiverCheckSeq`, so a packet in order is acknowledged as soon as
  `ReceiverNextExpectedSeq >= m_ack_interval`; with the value 1 every packet is.  With 0
  every packet is acknowledged too, although the attribute's help says that 0 disables
  ACKs (the sender then prints an error and never completes).
* `m_backto0` is go-back-zero when true, the opposite of what
  `scratch/config/config_doc.txt:30` says of the values 0 and 1.
* `snd_nxt - snd_una` is an unsigned 64-bit subtraction and is modelled modulo `Word`.
* In `PfcLink` what a device transmits is put on the wire when the transmission ends.  The code
  schedules the delivery when it starts, for `txTime + m_delay` later; the order is the same.
* In `Routing` an interface is named by the neighbour behind it, and node numbers stand for the
  order of the `Ptr<Node>` keys in the maps, which decides the order of next hops.
  `rtTable[h][h]` stays empty with static routes.  The hash of a switch may select any next
  hop, the hash of a queue pair is a constant of it, since `LiveQpServed` compares two uses of it.
* In `Simulator` the look at the flag is a step of its own.  A stale read can only be one that could
  also have come before the other thread's critical section, so this covers it.

## 3. What the runs check

| Run | Kind | What it shows |
|---|---|---|
| `switch_buffer` | pass | Six packets of two sizes, two ports with different headroom and thresholds, one lossless priority, every order of arrival and departure: all accounting properties, and the packets held fit `BUFFER_SIZE`. |
| `switch_node` | pass | Two inputs, two lossless priorities, one output whose link may fail, high-priority packets, PFC from the neighbour: the switch implements `SwitchBuffer` (`BufferSpec`), `m_bytes` matches the queues, no wakeup is lost, PAUSE and RESUME alternate, the round robin is fair. |
| `pfc_link` | pass | Two hosts with flows to each other, each pausing the switch once, with ACKs at queue 0 and at the priority of the data: when no event is left, everything has been delivered and nobody is paused (`QuietIsDrained`), and every RESUME finds its priority paused. |
| `rdma_go_back_zero` | pass | Loss, reordering and an expiring NACK timer, with a receiver that throws away partial chunks: nothing is taken as acknowledged that the receiver does not hold, and the flow implements `ReliableTransfer`. |
| `rdma_recovery` | pass | With go-back-N a flow that loses any packet but the last completes. |
| `rdma_stale_nack` | violation | A repeated NACK rewinds `snd_nxt`, ACKs of packets already under way then move `snd_una` past it, and the unsigned window test wraps. |
| `nic` | pass | Two queue pairs of a NIC with rate changes, pauses, NACKs and repeated NACKs: no queue pair is lost from the group, no ACK is forgotten, an idle NIC is always woken again, and every queue pair completes unless a repeated NACK has left one behind its ACKs. |
| `dcqcn` | pass | One queue pair under DCQCN with three CNPs, its alpha, decrease and increase events in any order, and completion at any moment: the rates stay ordered through every rounding (`RatesOrdered`), completion cancels every event (`TimersEnd`) with one exception, and the line rate comes back when the CNPs stop (`Recovers`). |
| `routing` | pass | Three failures of any links of a ring of four switches with a host of two NICs: the tables are exactly the shortest paths (against a reference definition by distance), live queue pairs sit on the NIC that `ReceiveAck` will trigger and whose link is up, the assertion about NICs fails only when the hosts are really separated, and every packet under way during the failures is delivered or dropped. |
| `routing_bgp` | violation | The first `SyncRoutes` of a host replaces its static routes by its own prefix, before any session has converged. |
| `simulator` | pass | The loop against a thread that hands over two events, with cancellations, removals, `Stop`, repeated `Run` and `Destroy`: keys increase, no event is lost or counted wrong, `IsExpired` is exact, and what is handed over is run. |
| `heap` | violation | `Remove` only sinks the event it moves into the gap.  Insert 1, 4, 2, 5, 6, 7, 3 and remove 5: 3 is put below 4, and after two `RemoveNext` the root is 4 while 3 is still in the heap. |

Behaviours of the code that the properties state as exceptions:

* `QuietIsDrained` allows a *standoff*: hosts that have paused the switch and are paused by it,
  with their RESUME frames behind `m_paused[ack_q_idx]` in `m_ackQ`.  It needs ACKs to share the
  priority of the data (`ack_high_prio` off).
* `StallEnds`: `m_nextSend` is scheduled at the minimum of `m_nextAvail` over *all* queue pairs.  One
  that waits for an ACK has it in the past, and then nothing is scheduled for one that only waits for
  its pace: it sends late, when some ACK or RESUME triggers the NIC.
* `IndexIsOfChosen` holds because of the window: a finished queue pair that a repeated
  NACK has set back has bytes left, and only the wrapped window test keeps `GetNextQindex` from
  choosing it.  Without a window (`m_win = 0`) it is chosen, removed by the same call, and its index
  then points at another queue pair or past the vector.
* `TimersEnd`: `QpComplete` cancels the timers, then the CNP flag of the same ACK calls `HandleCnp`.
  If it is the first CNP of the flow, the alpha and decrease events of a queue pair that has been
  deleted start, and schedule themselves for ever, although `rdma-congestion-ops.h:68` promises
  "Cleanup when a QP is complete (cancel timers, etc.)".
* `FitsBuffer` is checked with one lossless priority.  With two it fails: `ConfigNPort` sets headroom
  and reserve aside per port, admission grants them per (port, queue).
* `HandedOverRuns` is about a program that calls `Run` again and again: `Run` may return, on `Stop` or
  an empty scheduler, with an event still in the list of the other threads, and `Stop` called before
  `Run` has no effect.
* `AbortOnlyWhenCut`: a failure that separates the hosts of a live queue pair ends the simulation
  through the assertion of `GetNicIdxOfQp`; a packet that reaches its receiver when there is no way
  back does the same.

The bridge of `RoutingBgp` has two more weaknesses that no property is about.  It never calls
`RedistributeQp`, so a queue pair may stay on a NIC that its ACKs no longer trigger; and with the
default `bgp_propagation_delay_us` of 1 its interval truncates to 0 ms, so that `SyncRoutes`
schedules itself at the same time for ever.  `TakeDownLink` recomputes the delays of the pairs but
not BDP and RTT, which flows opened later use.

**Bounds.** The pools are sized so that every branch of the MMU is taken: reserve,
shared pool up to the threshold, headroom, and a full headroom that drops; packets of
two sizes so that one can straddle a boundary.  In `SwitchNode` two packets in the buffer at a time
take an ingress through reserve, shared pool and headroom and make two queues or two inputs
compete.  `PfcBound` and `HighPrioBytes` bound only the queue-0 backlog at an arrival; `pfc_link`
checks deadlock, so there a bound that held back an arrival would show.  Its flows of two packets
with an ACK for every second one let data, ACKs and PFC frames of both hosts overlap in every
order.  In the transport, flows of 7 or 8 bytes are
four packets or more and two chunks, with two losses, one lost ACK and five packets under way:
enough for two rounds of recovery to overlap.  In the NIC, flows of four packets and a
window of three make the window, the end of the flow and a second NACK of one gap all
happen; two rates are enough for an `m_nextAvail` on either side of now; time is relative
and saturates (see the module's header), so it needs no bound.  In `Dcqcn`, three CNPs let a
second decrease meet each of the three stages of the increase, and rates up to 40 include odd
ones, which round.  In `Routing`, the ring gives two equal paths and, after a failure, a longer
one; host 1 has two NICs, host 2 one, so that queue pairs move and hosts are cut off; three
failures reach both, and two packets are under way at any point of their routes.  In `Simulator`,
delays 0 and 1, one thread with two events and three events of the program make equal times, an
event that schedules for now, and a post at every point of the loop happen.  In `HeapScheduler`
eight keys allow three levels.  The invariants of every passing run are also proved without bounds
(section 4).

**Fairness.** In `RdmaTransport` the host keeps serving its queue pairs and a packet that
is not lost arrives: both are events the simulator has already scheduled.  The fabric owes
nothing else.  There is no retransmission timeout in the code, so `Completes` is stated
only where a later packet reveals the loss (`Losable` excludes the last packet) and where
the NACK timer outlasts the packets under way; with the timer expiring earlier
`rdma_stale_nack` shows what happens.  `PfcLink` needs none: `QuietIsDrained` is about the states in
which no event is scheduled, and traffic is finite.  In `QbbNic` the
device's events (`TransmitComplete`, `m_nextSend`) are scheduled and time advances; the
network resumes what it paused and acknowledges what arrived.  In `Dcqcn` the scheduled events fire.
In `Routing` a packet in a queue or on a wire goes on.  In `Simulator` the main thread keeps
running and the code of an event returns (`WF_vars(Loop)`).

## 4. What is proved

Assumptions on the constants (each named in the module that declares it, and evaluated
by the runs): ports and queues are finite sets, sizes are positive, the reserves and
headrooms fit the buffer (`PoolAssumption`), shifts are natural (`ShiftAssumption`); in a switch the
priorities are `1..qCnt-1` and no packet goes back where it came from (`QueueAssumption`,
`FlowAssumption`); between hosts and switch there is one lossless priority and every host has
somewhere to send (`LinkAssumption`); for a
flow, `ChunkAssumption` (the code divides by `m_chunk`), `FlowAssumption`, and
`WidthAssumption` (the flow is shorter than the 32-bit sequence space); in a NIC, sending a packet
takes a positive time, and no paced packet less than the line rate allows (`TimeAssumption`); in a
topology, the nodes are finitely many numbers and no host is a switch (`NodeAssumption`), links join
nodes (`WireAssumption`) and queue pairs different hosts (`QpAssumption`); for the loop, delays are natural numbers (`Schedule` asserts that they are not negative).

`SwitchMmuProofs`, `SwitchBufferProofs`.  The inductive invariant is `Consistent(mmu, buffered)`: types, the
three counters against the packets held, `SharedMatches`, `HeadroomBounded`,
`HeadroomPaused` and `PausedHolds` together.  None is inductive alone: that a release does
not wrap needs the counters to equal the bytes held; that `shared_used_bytes` does not wrap
needs it to be the exact sum of the excesses; that headroom is used only behind a PAUSE
needs the release rule, which takes from headroom first.  Sums of bytes are cardinalities of
sets of cells (a packet of n bytes is n cells), so that the lemmas on adding and removing a
packet are facts about finite sets, and no induction over data is needed.  `EnterInv` and
`LeaveInv` say that admission and release keep `Consistent`; they are about the operators and
serve the switch as well.  Theorems:
`Invariance`, `TypeCorrect`, `IngressExact`, `EgressExact`, `SharedExact`, `HeadroomSafety`,
`HeadroomPauses`, `PausesEnd`, and `BufferSuffices` for one lossless priority: what an ingress holds is at
most its reserve, its excess and its headroom; the excesses together are `shared_used_bytes`, which
stays below the pool, because admission compares it with a threshold that is a fraction of what is left.
The hypothesis `Queue = {k}` is needed (section 3).

`SwitchNodeProofs`.  One event may admit a packet, transmit another, release it and send PFC frames
from three devices, so the invariant is a predicate on the record the event works on, and each
operator (`SendPfc`, `SwitchNotifyDequeue`, `DequeueAndTransmit`, `SendToDev`, ...) has a lemma
that says what it keeps of `Good` and at which devices it restores `Awake`.  `Good` adds to `Consistent`
that every packet is queued once, at the device and priority it is charged to (`Placed`,
`Unique`): without it, releasing the packet at the head of a queue need not release the one
that was charged.  `NoLostWakeup` is broken and restored within one event: a device that has just been
given a frame is awake only after its own `DequeueAndTransmit`.  The refinement follows since every
event is at most one `Enter` followed by at most one `Leave`, and `TakeDown` moves packets from the queues
to `discarded`.  Theorems, for any number of devices and priorities: `Invariance`, `TypeCorrect`,
`NoWakeupLost`, `BytesExact`, `PfcAlternation`, `RoundRobinFair`, `Refinement` (`Spec => BufferSpec`).

`PfcLinkProofs`.  On top of the switch's invariant: the PFC frames on a wire and in the queues before
it alternate, from the pause the receiver obeys to what the sender last decided.  So the first to arrive is
a RESUME only if the receiver is paused (`ResumeIsExpected`), and when none is on the way both sides
agree.  In the direction from the host this needs `OnePause`: a PCIe pause does not begin before the
last one has ended, `EnablePause` included.  `RestIsDrained` then goes backwards through a state without events: nobody sends, so by
`NoLostWakeup` and its counterpart for the NIC (`NicAwake`) whatever is queued is paused; a switch that has
paused a host holds packets of it (`PausesEnd`), which are for a host that paused the switch, whose RESUME is
not pending and hence in its `m_ackQ`, paused too: the standoff.

`RdmaHwProofs`, about `RdmaTransport`.  `AckedIsHeld` speaks of the ACKs under way as well as of `snd_una`,
so it survives reordering; with go-back-zero the receiver may go back to the start of its
chunk, and the invariant survives because the sender only counts whole chunks
(`UnaAtChunkStart`, and `AckPoint` rounds down).  Completion (`CompletedIsHeld`) follows since
`rx.expected <= m_size`, which needs `DataInRange`.  Theorems: `Invariance`, `TypeCorrect`,
`AckSafety`, `CompletionSafety`, `PacketsInRange`, `AckMonotone`, and `Refinement`
(`Spec => TransferSpec`).

`RdmaHwProofs`, about `Dcqcn`.  `RateAssumption` orders the configured rates and takes the minimal one to be
even (it is configured in Mb/s): with an odd one the two rounded halves of an increase would
fall below it.  `RatesOrdered` is inductive with the types.  `TimersEnd` needs that each chain
has at most one scheduled event, which needs `QuietBeforeCnp`: before the first CNP nothing is
scheduled, so `HandleCnp` starts each chain once.  Theorems: `RateInvariance`,
`RateTypeCorrect`, `RateSafety`, `Cleanup`.

`QbbNicProofs`.  The invariant is `Steady(St, status) /\ Network`: the group has no queue pair twice, none
that is new and every live one; a live queue pair is not finished, and a done one is; the next packet is never further away
than the time of one packet; without repeated NACKs nothing is acknowledged beyond `snd_nxt`.  The
centre is the removal of finished queue pairs in place: `Place` is a bijection from the places that
stay to the places of the shorter vector, so no live queue pair is lost or doubled and `NewIndex`
follows the chosen one.  `IndexCorrect` and `IdleHasReason` carry the hypothesis `Guarded`: every
window is nonzero and at most `Word - m_size`, or no NACK is repeated.  Without it they are
false, for the reason given in section 3.  Theorems, for any number of queue pairs, priorities
and rates: `Invariance`, `TypeCorrect`, `NoneForgotten`, `IndexCorrect`, `IdleHasReason`.

`SimulatorProofs`.  The inductive invariant adds to the types that every event in the scheduler lies
after the current key and below `m_uid` (`KeyInv`), that uids are unique, and that an `EventId` not
yet expired by its key is in the scheduler or cancelled (`IdInv`).  `ExpiredIsExact`
and `KeysIncrease` follow from it; the count needs uniqueness, because `Remove` takes out exactly
one event.  The lemma `StepKinds` first sorts the actions into insertions, steps that leave the
scheduler alone, `ProcessOneEvent`, `Remove` and `DoDispose`, so that each part of the invariant is
proved for five cases.  The theorems hold for any program, any set of threads and any
delays.  Theorems: `Invariance`, `TypeCorrect`, `CountExact`, `FlagExact`, `ExpiryExact`, `TimeIsOrdered`.

`PostsInOrder` follows an event of another thread on its way: it is in line (`taken` followed by
`m_eventsWithContext`), then in the scheduler, then it has run.  `OrderInv` says that the line is sorted
per thread, that none is lost and none overtaken on it, and that of two events of a thread that
are in the scheduler the earlier has the smaller key: it was moved first, when the current time was not
later and `m_uid` smaller.  It also needs that no `EventId` names an event of another thread, or
`Cancel` and `Remove` could take out the first of two.

`RoutingProofs`.  The theorems hold for every topology, every set of failures and any number of
queue pairs and packets.  Two inductions are behind them, over the rounds of the search and over the
distance; both go through the least element of a set of numbers (`LeastNat`, `SetInduction`).
`Search` and the reference `Ball` are recursive functions; `Iterate` gives the function its
equation defines, so that `SearchDef` and `BallDef` may unfold it.  `SearchInv` says where the loop of
`CalculateRoute` stands after i rounds: the queue holds each node that has been reached and may
forward, once (`Queued`); it is sorted by distance, and no distance goes more than one beyond that of
the next node to be taken (`Sorted`), without which a node could be reached a second time by a shorter way;
the neighbours of the nodes already taken have been reached (`Closed`); and the next hops of a node are exactly
its neighbours among those nodes that are one hop closer (`Found`).  A queue without repetitions is no
longer than there are nodes (`ShortQueue`), so after that many rounds the loop has ended, and `Balls`
compares the distances with the reference, level by level.

The invariant of the system is small next to this: links are up in both directions, the tables are those
of the links that are up, every live queue pair is in the group of the NIC its hash selects, and a packet
goes to a switch or to its own receiver.  That `Deliver` aborts only when the hosts are separated
needs `WayBack`: a path between hosts can be walked backwards.  Theorems: `ShortestRoutes`,
`LiveQpsServed`, `AbortsOnlyWhenCut`, and `PacketsComeCloser`: each hop brings a packet one hop closer to
its receiver by the tables of that moment, and a packet is dropped only where its receiver cannot be
reached.  This is the safety half of `NoPacketCirculates`: since links only go down a bounded
number of times, a packet that keeps moving must arrive or be dropped.

Model-checked only: liveness (`Completes`, `EveryQpCompletes`, `Recovers`, `NoPacketCirculates`,
`HandedOverRuns`), since fairness is out of the prover's reach.  The three runs that end in a violation
(`rdma_stale_nack`, `routing_bgp`, `heap`) are counterexamples, and there is nothing to prove.

## 5. Not modelled

* Within the modelled parts: ECN marking (`ShouldSendCN`), INT/PINT telemetry and
  `m_txBytes`, which no admission or PFC decision reads; the 1000 MB limit of a
  `BEgressQueue` ("infinite queue"); `QbbEnabled = false`; the removal of a receiver's
  queue pair by the completion callback of the setup code; flows of size 0 and of 4 GB or
  more; the value of the ECMP hash; the loss of PFC frames by the receive error model (the
  code has no way back from a lost RESUME: the pause time is not counted down).
* `PfcLink` has neither window nor pacing nor losses; these are in `QbbNic` and `RdmaTransport`.
  A flow the application starts from the completion callback is an `AddQueuePair` of its own.
* The sessions of BGP: they are libbgp's, which is not part of the repository (and
  `QbbNetDevice::Send` asserts false, so TCP cannot run over these devices).
* `SetScheduler`, contexts and event counts of the simulator; the wrap of the 32-bit `m_uid`;
  `CalendarScheduler`; the distributed and real-time simulators.
* HPCC, HPCC-PINT, TIMELY, DCTCP: control laws in floating point, out of TLC's reach.
* Headers, configuration parsing, traces: serialisation and I/O.
* The other modules of ns-3 (internet, wifi, lte, spectrum, lr-wpan, dsr and so on) are the upstream
  distribution and make up nearly all of the repository's lines; the RDMA network does not
  call them.  The share of the whole repository that the modules cover is therefore small by
  construction; of the files under `point-to-point/model` and `scratch` that hold the program's own
  logic most of the control is covered.

## 6. What could follow

1. `PfcLink` with two switches, and with lost PFC frames: how much headroom the delay of a wire needs.
2. `CalendarScheduler` against the abstract scheduler of `Simulator`.
3. The per-RTT update sequence numbers of HPCC and DCTCP, without the rates.
4. A bound on the length of a packet's way under failures, from `PacketsComeCloser` and a count of the
   links that are still up.
