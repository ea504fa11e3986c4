------------------------- MODULE SwitchBufferProofs -------------------------
(***************************************************************************)
(* The invariants of SwitchBuffer, from what SwitchMmuProofs shows of the  *)
(* two operations of the MMU.                                              *)
(***************************************************************************)
EXTENDS SwitchBuffer, SwitchMmuProofs

Inv == Consistent(mmu, buffered)

\* A packet whose id is fresh is not in the buffer.
LEMMA FreshIsNew == ASSUME NEW pkt, Fresh(pkt) PROVE pkt \notin buffered
  BY DEF Fresh

\* The empty buffer satisfies the invariant.
LEMMA InitInv == Init => Inv
  <1> SUFFICES ASSUME Init PROVE Inv
    OBVIOUS
  <1> QED BY InitConsistent DEF Init, Inv

\* Every step keeps the invariant.
LEMMA NextInv == Inv /\ [Next]_vars => Inv'
  <1> SUFFICES ASSUME Inv, [Next]_vars PROVE Inv'
    OBVIOUS
  <1>1. CASE UNCHANGED vars
    BY <1>1 DEF vars, Inv
  <1>2. ASSUME NEW pkt \in Packet, Receive(pkt) PROVE Inv'
    <2>1. Consistent(Enter(mmu, pkt), buffered \cup {pkt})
      BY <1>2, FreshIsNew, EnterInv DEF Receive, Inv
    <2> QED BY <1>2, <2>1 DEF Receive, Inv
  <1>3. ASSUME NEW pkt \in buffered, Dequeue(pkt) PROVE Inv'
    <2>1. Consistent(Leave(mmu, pkt), buffered \ {pkt})
      BY LeaveInv DEF Inv
    <2> QED BY <1>3, <2>1 DEF Dequeue, Inv
  <1>4. ASSUME NEW pkt \in Packet, NEW out \in buffered \cup {pkt}, ReceiveAndDequeue(pkt, out)
        PROVE  Inv'
    <2>1. Consistent(Enter(mmu, pkt), buffered \cup {pkt})
      BY <1>4, FreshIsNew, EnterInv DEF ReceiveAndDequeue, Inv
    <2>2. Consistent(Leave(Enter(mmu, pkt), out), (buffered \cup {pkt}) \ {out})
      BY <2>1, LeaveInv
    <2> QED BY <1>4, <2>2 DEF ReceiveAndDequeue, Inv
  <1> QED BY <1>1, <1>2, <1>3, <1>4 DEF Next

\* The invariant holds in every reachable state of the shared buffer.
THEOREM Invariance == Spec => []Inv
  BY InitInv, NextInv, PTL DEF Spec

\* No counter of the MMU ever wraps around, and the pool is never overdrawn.
THEOREM TypeCorrect == Spec => []TypeOK
  <1>1. Inv => TypeOK
    BY DEF Inv, Consistent, TypeOK
  <1> QED BY <1>1, Invariance, PTL

\* ingress_bytes and hdrm_bytes together are exactly the bytes of the packets
\* that came in by the port, however UpdateIngressAdmission and
\* RemoveFromIngressAdmission split them.
THEOREM IngressExact == Spec => []IngressIsBuffered
  <1>1. Inv => IngressIsBuffered
    BY DEF Inv, Consistent, IngressIsBuffered
  <1> QED BY <1>1, Invariance, PTL

\* egress_bytes is exactly what is queued for the device.
THEOREM EgressExact == Spec => []EgressIsBuffered
  <1>1. Inv => EgressIsBuffered
    BY DEF Inv, Consistent, EgressIsBuffered
  <1> QED BY <1>1, Invariance, PTL

\* shared_used_bytes is exactly the sum of the excesses over the reserves.
THEOREM SharedExact == Spec => []SharedIsExact
  <1>1. Inv => SharedIsExact
    BY DEF Inv, Consistent, SharedIsExact
  <1> QED BY <1>1, Invariance, PTL

\* No ingress exceeds its headroom, although admission and update test
\* different expressions.
THEOREM HeadroomSafety == Spec => []HeadroomRespected
  <1>1. Inv => HeadroomRespected
    BY DEF Inv, Consistent, HeadroomRespected
  <1> QED BY <1>1, Invariance, PTL

\* A packet goes to headroom only behind a PAUSE.
THEOREM HeadroomPauses == Spec => []HeadroomOnlyWhenPaused
  <1>1. Inv => HeadroomOnlyWhenPaused
    BY DEF Inv, Consistent, HeadroomOnlyWhenPaused
  <1> QED BY <1>1, Invariance, PTL

\* An ingress that is paused holds a packet, whose departure will evaluate the
\* RESUME: no neighbour stays paused by an empty buffer.
THEOREM PausesEnd == Spec => []PausedHoldsPackets
  <1>1. Inv => PausedHoldsPackets
    BY DEF Inv, Consistent, PausedHoldsPackets
  <1> QED BY <1>1, Invariance, PTL

\* With one accounted priority the packets held never take more than
\* BUFFER_SIZE: CheckIngressAdmission grants headroom and reserve per (port,
\* queue), and ConfigNPort has set them aside per port.
THEOREM BufferSuffices == ASSUME NEW k, Queue = {k} PROVE Spec => []FitsBuffer
  <1>1. Inv => FitsBuffer
    BY HeldFits DEF Inv, FitsBuffer
  <1> QED BY <1>1, Invariance, PTL
=============================================================================
