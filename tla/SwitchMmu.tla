------------------------------ MODULE SwitchMmu ------------------------------
(***************************************************************************)
(* The buffer accounting of a switch (class SwitchMmu of switch-mmu.cc).   *)
(*                                                                         *)
(* Every method of the class that reads or writes the counters is an       *)
(* operator on a record m of the counters; a method that assigns returns   *)
(* the record after the assignment.  One event of the simulator calls      *)
(* several of these methods one after the other (a packet enters, another  *)
(* one leaves), so the modules that use this one compose the operators.    *)
(*                                                                         *)
(* All counters are uint32_t in the code.  Here they are integers: the     *)
(* type invariant of SwitchBuffer (every counter stays in Nat) is what     *)
(* says that no subtraction of the code ever wraps around.                 *)
(***************************************************************************)
EXTENDS Integers, FiniteSets

CONSTANTS
  Port,            \* indices of the switch's devices
  Queue,           \* the priorities the MMU accounts for (qIndex # 0)
  PktId,           \* names for the packets held at one time
  Size,            \* packet sizes, in bytes (scaled down in the models)
  buffer_size,     \* ConfigBufferSize
  reserve,         \* guaranteed bytes of one ingress (port, queue)
  resume_offset,   \* hysteresis of RESUME
  headroom,        \* ConfigHdrm: bytes per port for packets after a PAUSE
  pfc_a_shift      \* the dynamic threshold takes free >> pfc_a_shift[port]

(***************************************************************************)
(* ConfigNPort: headroom and reserve are added up once per PORT, while     *)
(* the admission test below grants them to every (port, queue).  A sum of  *)
(* bytes is a number of cells, one for every byte of every port.           *)
(***************************************************************************)
PortCells(f) == UNION {{p} \X (1..f[p]) : p \in Port}

total_hdrm == Cardinality(PortCells(headroom))
total_rsrv == reserve * Cardinality(Port)

\* What the sum leaves for the shared pool.
Pool == buffer_size - total_hdrm - total_rsrv

ASSUME PortAssumption  == IsFiniteSet(Port) /\ IsFiniteSet(Queue)
ASSUME SizeAssumption  == Size \subseteq Nat \ {0}
ASSUME BytesAssumption == /\ buffer_size \in Nat
                          /\ reserve \in Nat
                          /\ resume_offset \in Nat
                          /\ headroom \in [Port -> Nat]
\* Nothing in the code tests this; a BUFFER_SIZE below the sum of the
\* headrooms and reserves makes the threshold wrap around from the start.
ASSUME PoolAssumption  == Pool \in Nat
ASSUME ShiftAssumption == \A p \in Port : 2 ^ pfc_a_shift[p] \in Nat \ {0}

PQ == Port \X Queue

\* The run-time counters of the class ("runtime" members of switch-mmu.h).
MmuState == [ shared_used_bytes : Nat,
              hdrm_bytes        : [PQ -> Nat],
              ingress_bytes     : [PQ -> Nat],
              egress_bytes      : [PQ -> Nat],
              paused            : [PQ -> BOOLEAN] ]

\* The constructor clears all of them.
InitMmu == [ shared_used_bytes |-> 0,
             hdrm_bytes        |-> [x \in PQ |-> 0],
             ingress_bytes     |-> [x \in PQ |-> 0],
             egress_bytes      |-> [x \in PQ |-> 0],
             paused            |-> [x \in PQ |-> FALSE] ]

\* A packet as the MMU sees it: the device it came in by (its FlowIdTag), the
\* device it leaves by, its priority and its size.  The id only tells two
\* packets with the same attributes apart.
Packet == [id : PktId, in : Port, out : Port, q : Queue, size : Size]

MinOf(a, b) == IF a <= b THEN a ELSE b
-----------------------------------------------------------------------------
\* Slip: the headrooms are not kept out of the pool.
GetPfcThreshold_WithHeadroom(m, p) ==
  (buffer_size - total_rsrv - m.shared_used_bytes) \div (2 ^ pfc_a_shift[p])

GetPfcThreshold(m, p) ==
  (buffer_size - total_hdrm - total_rsrv - m.shared_used_bytes)
     \div (2 ^ pfc_a_shift[p])

GetSharedUsed(m, p, q) ==
  IF m.ingress_bytes[<<p, q>>] > reserve THEN m.ingress_bytes[<<p, q>>] - reserve ELSE 0

\* Slip: the packet itself is not counted against the headroom.
CheckIngressAdmission_NoSize(m, p, q, psize) ==
  ~ /\ m.hdrm_bytes[<<p, q>>] > headroom[p]
    /\ psize + GetSharedUsed(m, p, q) > GetPfcThreshold(m, p)

CheckIngressAdmission(m, p, q, psize) ==
  ~ /\ psize + m.hdrm_bytes[<<p, q>>] > headroom[p]
    /\ psize + GetSharedUsed(m, p, q) > GetPfcThreshold(m, p)

\* Slip: the part of the packet below the reserve is charged to the pool too.
UpdateIngressAdmission_WholePacket(m, p, q, psize) ==
  LET new_bytes == m.ingress_bytes[<<p, q>>] + psize
  IN  IF new_bytes <= reserve
      THEN [m EXCEPT !.ingress_bytes[<<p, q>>] = new_bytes]
      ELSE IF new_bytes - reserve > GetPfcThreshold(m, p)
      THEN [m EXCEPT !.hdrm_bytes[<<p, q>>] = @ + psize]
      ELSE [m EXCEPT !.ingress_bytes[<<p, q>>] = new_bytes,
                     !.shared_used_bytes = @ + psize]

\* Slip: a packet that goes to headroom is counted twice.
UpdateIngressAdmission_Twice(m, p, q, psize) ==
  LET new_bytes == m.ingress_bytes[<<p, q>>] + psize
  IN  IF new_bytes <= reserve
      THEN [m EXCEPT !.ingress_bytes[<<p, q>>] = new_bytes]
      ELSE IF new_bytes - reserve > GetPfcThreshold(m, p)
      THEN [m EXCEPT !.hdrm_bytes[<<p, q>>] = @ + psize,
                     !.ingress_bytes[<<p, q>>] = new_bytes]
      ELSE [m EXCEPT !.ingress_bytes[<<p, q>>] = new_bytes,
                     !.shared_used_bytes = @ + MinOf(psize, new_bytes - reserve)]

UpdateIngressAdmission(m, p, q, psize) ==
  LET new_bytes == m.ingress_bytes[<<p, q>>] + psize
  IN  IF new_bytes <= reserve
      THEN [m EXCEPT !.ingress_bytes[<<p, q>>] = new_bytes]
      ELSE IF new_bytes - reserve > GetPfcThreshold(m, p)
      THEN [m EXCEPT !.hdrm_bytes[<<p, q>>] = @ + psize]
      ELSE [m EXCEPT !.ingress_bytes[<<p, q>>] = new_bytes,
                     !.shared_used_bytes = @ + MinOf(psize, new_bytes - reserve)]

UpdateEgressAdmission(m, p, q, psize) ==
  [m EXCEPT !.egress_bytes[<<p, q>>] = @ + psize]

\* Slip: what came out of the headroom is taken off ingress_bytes as well.
RemoveFromIngressAdmission_Whole(m, p, q, psize) ==
  LET from_hdrm   == MinOf(m.hdrm_bytes[<<p, q>>], psize)
      from_shared == MinOf(psize - from_hdrm, GetSharedUsed(m, p, q))
  IN  [m EXCEPT !.hdrm_bytes[<<p, q>>]    = @ - from_hdrm,
                !.ingress_bytes[<<p, q>>] = @ - psize,
                !.shared_used_bytes       = @ - from_shared]

RemoveFromIngressAdmission(m, p, q, psize) ==
  LET from_hdrm   == MinOf(m.hdrm_bytes[<<p, q>>], psize)
      from_shared == MinOf(psize - from_hdrm, GetSharedUsed(m, p, q))
  IN  [m EXCEPT !.hdrm_bytes[<<p, q>>]    = @ - from_hdrm,
                !.ingress_bytes[<<p, q>>] = @ - (psize - from_hdrm),
                !.shared_used_bytes       = @ - from_shared]

RemoveFromEgressAdmission(m, p, q, psize) ==
  [m EXCEPT !.egress_bytes[<<p, q>>] = @ - psize]

\* Slip: only the shared part decides.
CheckShouldPause_SharedOnly(m, p, q) ==
  /\ ~ m.paused[<<p, q>>]
  /\ GetSharedUsed(m, p, q) >= GetPfcThreshold(m, p)

CheckShouldPause(m, p, q) ==
  /\ ~ m.paused[<<p, q>>]
  /\ \/ m.hdrm_bytes[<<p, q>>] > 0
     \/ GetSharedUsed(m, p, q) >= GetPfcThreshold(m, p)

\* Slip: an ingress that is back within its reserve gets no special case.
CheckShouldResume_NoReserveCase(m, p, q) ==
  /\ m.paused[<<p, q>>]
  /\ m.hdrm_bytes[<<p, q>>] = 0
  /\ GetSharedUsed(m, p, q) + resume_offset <= GetPfcThreshold(m, p)

CheckShouldResume(m, p, q) ==
  /\ m.paused[<<p, q>>]
  /\ m.hdrm_bytes[<<p, q>>] = 0
  /\ \/ GetSharedUsed(m, p, q) = 0
     \/ GetSharedUsed(m, p, q) + resume_offset <= GetPfcThreshold(m, p)

SetPause(m, p, q)  == [m EXCEPT !.paused[<<p, q>>] = TRUE]
SetResume(m, p, q) == [m EXCEPT !.paused[<<p, q>>] = FALSE]
-----------------------------------------------------------------------------
(***************************************************************************)
(* The two sequences of calls a switch makes on its MMU.                   *)
(***************************************************************************)
\* SendToDev: the test that decides whether the packet is stored or dropped.
Admits(m, pkt) == CheckIngressAdmission(m, pkt.in, pkt.q, pkt.size)

\* SendToDev, the MMU updates of an admitted packet, then CheckAndSendPfc.
Enter(m, pkt) ==
  LET a == UpdateEgressAdmission(
             UpdateIngressAdmission(m, pkt.in, pkt.q, pkt.size),
             pkt.out, pkt.q, pkt.size)
  IN  IF CheckShouldPause(a, pkt.in, pkt.q) THEN SetPause(a, pkt.in, pkt.q) ELSE a

\* Slip: the egress counter of the input device is decremented.
Leave_WrongDevice(m, pkt) ==
  LET r == RemoveFromEgressAdmission(
             RemoveFromIngressAdmission(m, pkt.in, pkt.q, pkt.size),
             pkt.in, pkt.q, pkt.size)
  IN  IF CheckShouldResume(r, pkt.in, pkt.q) THEN SetResume(r, pkt.in, pkt.q) ELSE r

\* SwitchNotifyDequeue: the MMU updates of a packet that leaves, then
\* CheckAndSendResume for the device it had come in by.
Leave(m, pkt) ==
  LET r == RemoveFromEgressAdmission(
             RemoveFromIngressAdmission(m, pkt.in, pkt.q, pkt.size),
             pkt.out, pkt.q, pkt.size)
  IN  IF CheckShouldResume(r, pkt.in, pkt.q) THEN SetResume(r, pkt.in, pkt.q) ELSE r
-----------------------------------------------------------------------------
(***************************************************************************)
(* What the counters m should say when the packets S are in the buffer.    *)
(* Sums of bytes are stated as numbers of cells: a packet of n bytes       *)
(* occupies the cells 1..n.                                                *)
(***************************************************************************)
CellsOf(S) == UNION {{<<b, i>> : i \in 1..b.size} : b \in S}
BytesOf(S) == Cardinality(CellsOf(S))

\* The packets of S that came in by p, or will leave by p, at priority q.
From(S, p, q) == {b \in S : b.in = p /\ b.q = q}
To(S, p, q)   == {b \in S : b.out = p /\ b.q = q}

\* The bytes by which the ingress counters exceed their reserve.
SharedCells(m) == {c \in PQ \X (1..Pool) : c[2] <= GetSharedUsed(m, c[1][1], c[1][2])}

IngressMatches(m, S) ==
  \A p \in Port, q \in Queue :
    m.ingress_bytes[<<p, q>>] + m.hdrm_bytes[<<p, q>>] = BytesOf(From(S, p, q))

EgressMatches(m, S) ==
  \A p \in Port, q \in Queue : m.egress_bytes[<<p, q>>] = BytesOf(To(S, p, q))

SharedMatches(m) ==
  /\ m.shared_used_bytes = Cardinality(SharedCells(m))
  /\ \A p \in Port, q \in Queue : GetSharedUsed(m, p, q) <= Pool

HeadroomBounded(m) ==
  \A p \in Port, q \in Queue : m.hdrm_bytes[<<p, q>>] <= headroom[p]

HeadroomPaused(m) ==
  \A p \in Port, q \in Queue : m.hdrm_bytes[<<p, q>>] > 0 => m.paused[<<p, q>>]

PausedHolds(m, S) ==
  \A p \in Port, q \in Queue : m.paused[<<p, q>>] => From(S, p, q) # {}
=============================================================================
