-------------------------------- MODULE Dcqcn --------------------------------
(***************************************************************************)
(* The DCQCN state of one queue pair (RdmaCcDcqcn): its rates and the      *)
(* three chains of self-scheduling events, against the completion of the   *)
(* queue pair.                                                             *)
(*                                                                         *)
(* Rates are whole numbers (DataRate is a uint64_t); a division by two     *)
(* rounds down.  m_alpha is a floating-point number in 0..1 and appears    *)
(* only in m_rate * (1 - m_alpha / 2), so a decrease yields any rate       *)
(* between half and all of the present one.  The events fire in any order. *)
(*                                                                         *)
(* Like RdmaTransport this is a part of RdmaHw; its specification has the  *)
(* names of that one with the suffix Cc (RdmaCc, congestion control).      *)
(***************************************************************************)
EXTENDS Integers

CONSTANTS
  MinRate, LineRate,  \* m_minRate, and the data rate of the NIC
  FirstRate,          \* m_rateOnFirstCNP * line rate
  m_rai, m_rhai,      \* increments of active and hyper increase
  m_rpgThreshold,     \* rounds of fast recovery
  m_ecnClampTgtRate,  \* BOOLEAN
  MaxCnp              \* bound: CNPs and CNP flags that arrive

\* The rates are configured in Mb/s.  With an odd MinRate the two halves of
\* RateIncEvent would round below it.
ASSUME RateAssumption ==
  /\ MinRate \in Nat /\ LineRate \in Nat /\ FirstRate \in Nat
  /\ MinRate % 2 = 0
  /\ MinRate <= FirstRate /\ FirstRate <= LineRate
ASSUME StepAssumption ==
  /\ m_rai \in Nat /\ m_rhai \in Nat /\ m_rpgThreshold \in Nat
  /\ m_ecnClampTgtRate \in BOOLEAN /\ MaxCnp \in Nat

VARIABLES
  m_rate, m_targetRate,
  m_rpTimeStage,           \* counted up to m_rpgThreshold + 1
  m_first_cnp, m_alpha_cnp_arrived, m_decrease_cnp_arrived,
  alphaEvents,             \* scheduled UpdateAlpha events
  decreaseEvents,          \* scheduled CheckRateDecrease events
  rpEvents,                \* scheduled RateIncEventTimer events
  done,                    \* QpComplete has been called
  lateCnp,                 \* the ACK that completed the flow had the first CNP flag
  cnps                     \* how much of MaxCnp is used

flags  == <<m_first_cnp, m_alpha_cnp_arrived, m_decrease_cnp_arrived>>
rates  == <<m_rate, m_targetRate, m_rpTimeStage>>
timers == <<alphaEvents, decreaseEvents, rpEvents>>
varsCc == <<rates, flags, timers, done, lateCnp, cnps>>

GreaterOf(a, b) == IF a >= b THEN a ELSE b
LesserOf(a, b)  == IF a <= b THEN a ELSE b
Halves(a, b)    == (a \div 2) + (b \div 2)

\* Simulator::Cancel of the EventId kept for a chain: the event scheduled last.
Cancel(n) == IF n > 0 THEN n - 1 ELSE 0

\* RdmaQueuePair's constructor, AddQueuePair and InitQp.
InitCc ==
  /\ m_rate = LineRate /\ m_targetRate = LineRate
  /\ m_rpTimeStage = 0
  /\ m_first_cnp = TRUE
  /\ m_alpha_cnp_arrived = FALSE /\ m_decrease_cnp_arrived = FALSE
  /\ alphaEvents = 0 /\ decreaseEvents = 0 /\ rpEvents = 0
  /\ done = FALSE /\ lateCnp = FALSE /\ cnps = 0

\* RdmaCcDcqcn::HandleCnp; a and d are the events of the two chains it may
\* start that are scheduled before it.
HandleCnp(a, d) ==
  /\ m_decrease_cnp_arrived' = TRUE
  /\ m_first_cnp' = FALSE
  /\ m_alpha_cnp_arrived' = ~ m_first_cnp
  /\ alphaEvents' = IF m_first_cnp THEN a + 1 ELSE a
  /\ decreaseEvents' = IF m_first_cnp THEN d + 1 ELSE d
  /\ m_rate' = IF m_first_cnp THEN FirstRate ELSE m_rate
  /\ m_targetRate' = IF m_first_cnp THEN FirstRate ELSE m_targetRate
  /\ UNCHANGED m_rpTimeStage

\* RdmaHw::ReceiveAck with the CNP flag, or ReceiveCnp, of a flow that goes on.
ReceiveCnp ==
  /\ ~ done
  /\ cnps < MaxCnp
  /\ HandleCnp(alphaEvents, decreaseEvents)
  /\ cnps' = cnps + 1
  /\ UNCHANGED <<rpEvents, done, lateCnp>>

\* Slip: OnQpComplete forgets m_rpTimer.
LastAck_KeepRp ==
  /\ ~ done
  /\ done' = TRUE
  /\ alphaEvents' = Cancel(alphaEvents)
  /\ decreaseEvents' = Cancel(decreaseEvents)
  /\ UNCHANGED <<rates, flags, rpEvents, lateCnp, cnps>>

\* RdmaHw::ReceiveAck of the last ACK, without the CNP flag: QpComplete and
\* RdmaCcDcqcn::OnQpComplete.
LastAck ==
  /\ ~ done
  /\ done' = TRUE
  /\ alphaEvents' = Cancel(alphaEvents)
  /\ decreaseEvents' = Cancel(decreaseEvents)
  /\ rpEvents' = Cancel(rpEvents)
  /\ UNCHANGED <<rates, flags, lateCnp, cnps>>

\* The last ACK with the CNP flag: QpComplete comes first, then HandleCnp for
\* the queue pair that has just been deleted.
LastAckWithCnp ==
  /\ ~ done
  /\ cnps < MaxCnp
  /\ done' = TRUE
  /\ rpEvents' = Cancel(rpEvents)
  /\ HandleCnp(Cancel(alphaEvents), Cancel(decreaseEvents))
  /\ lateCnp' = m_first_cnp
  /\ cnps' = cnps + 1

\* RdmaCcDcqcn::UpdateAlpha fires and schedules itself again.
UpdateAlpha ==
  /\ alphaEvents > 0
  /\ m_alpha_cnp_arrived' = FALSE
  /\ UNCHANGED <<rates, m_first_cnp, m_decrease_cnp_arrived, timers, done, lateCnp, cnps>>

\* Slip: the pending m_rpTimer is not cancelled.
CheckRateDecrease_NoCancel ==
  /\ decreaseEvents > 0
  /\ m_decrease_cnp_arrived
  /\ m_targetRate' = IF m_ecnClampTgtRate \/ m_rpTimeStage # 0 THEN m_rate ELSE m_targetRate
  /\ \E r \in (m_rate \div 2)..m_rate : m_rate' = GreaterOf(MinRate, r)
  /\ m_rpTimeStage' = 0
  /\ m_decrease_cnp_arrived' = FALSE
  /\ rpEvents' = rpEvents + 1
  /\ UNCHANGED <<m_first_cnp, m_alpha_cnp_arrived, alphaEvents, decreaseEvents, done, lateCnp, cnps>>

\* Slip: the minimal rate is forgotten.
CheckRateDecrease_NoMin ==
  /\ decreaseEvents > 0
  /\ m_decrease_cnp_arrived
  /\ m_targetRate' = IF m_ecnClampTgtRate \/ m_rpTimeStage # 0 THEN m_rate ELSE m_targetRate
  /\ \E r \in (m_rate \div 2)..m_rate : m_rate' = r
  /\ m_rpTimeStage' = 0
  /\ m_decrease_cnp_arrived' = FALSE
  /\ rpEvents' = Cancel(rpEvents) + 1
  /\ UNCHANGED <<m_first_cnp, m_alpha_cnp_arrived, alphaEvents, decreaseEvents, done, lateCnp, cnps>>

\* Slip: m_rpTimer is cancelled and not scheduled again.
CheckRateDecrease_NoTimer ==
  /\ decreaseEvents > 0
  /\ m_decrease_cnp_arrived
  /\ m_targetRate' = IF m_ecnClampTgtRate \/ m_rpTimeStage # 0 THEN m_rate ELSE m_targetRate
  /\ \E r \in (m_rate \div 2)..m_rate : m_rate' = GreaterOf(MinRate, r)
  /\ m_rpTimeStage' = 0
  /\ m_decrease_cnp_arrived' = FALSE
  /\ rpEvents' = Cancel(rpEvents)
  /\ UNCHANGED <<m_first_cnp, m_alpha_cnp_arrived, alphaEvents, decreaseEvents, done, lateCnp, cnps>>

\* RdmaCcDcqcn::CheckRateDecrease fires and schedules itself again.  Without a
\* CNP since the last time it does nothing else.
CheckRateDecrease ==
  /\ decreaseEvents > 0
  /\ m_decrease_cnp_arrived
  /\ m_targetRate' = IF m_ecnClampTgtRate \/ m_rpTimeStage # 0 THEN m_rate ELSE m_targetRate
  /\ \E r \in (m_rate \div 2)..m_rate : m_rate' = GreaterOf(MinRate, r)
  /\ m_rpTimeStage' = 0
  /\ m_decrease_cnp_arrived' = FALSE
  /\ rpEvents' = Cancel(rpEvents) + 1
  /\ UNCHANGED <<m_first_cnp, m_alpha_cnp_arrived, alphaEvents, decreaseEvents, done, lateCnp, cnps>>

\* FastRecovery, ActiveIncrease or HyperIncrease: the target of the stage.
RateIncEvent ==
  IF m_rpTimeStage < m_rpgThreshold THEN m_targetRate
  ELSE LesserOf(m_targetRate + (IF m_rpTimeStage = m_rpgThreshold THEN m_rai ELSE m_rhai), LineRate)

\* RdmaCcDcqcn::RateIncEventTimer fires, schedules itself again and increases.
RateIncEventTimer ==
  /\ rpEvents > 0
  /\ m_targetRate' = RateIncEvent
  /\ m_rate' = Halves(m_rate, m_targetRate')
  /\ m_rpTimeStage' = LesserOf(m_rpTimeStage + 1, m_rpgThreshold + 1)
  /\ UNCHANGED <<flags, timers, done, lateCnp, cnps>>

NextCc ==
  \/ ReceiveCnp \/ LastAck \/ LastAckWithCnp
  \/ UpdateAlpha \/ CheckRateDecrease \/ RateIncEventTimer

SpecCc == InitCc /\ [][NextCc]_varsCc

\* The scheduled events fire.
FairSpecCc == SpecCc /\ WF_varsCc(CheckRateDecrease) /\ WF_varsCc(RateIncEventTimer)
-----------------------------------------------------------------------------
\* The types; each chain has at most one scheduled event, so the one EventId a
\* queue pair keeps for it (m_eventUpdateAlpha, m_eventDecreaseRate, m_rpTimer)
\* is enough for OnQpComplete to cancel it.
TypeOKCc ==
  /\ m_rate \in Nat /\ m_targetRate \in Nat
  /\ m_rpTimeStage \in 0..(m_rpgThreshold + 1)
  /\ m_first_cnp \in BOOLEAN /\ m_alpha_cnp_arrived \in BOOLEAN
  /\ m_decrease_cnp_arrived \in BOOLEAN
  /\ alphaEvents \in 0..1 /\ decreaseEvents \in 0..1 /\ rpEvents \in 0..1
  /\ done \in BOOLEAN /\ lateCnp \in BOOLEAN /\ cnps \in 0..MaxCnp

\* However decreases, recoveries and increases follow each other, with their
\* roundings, the rate stays between the minimal and the target rate, and the
\* target below the line rate: a sending time is never infinite, and the
\* pacing never exceeds the line.
RatesOrdered ==
  MinRate <= m_rate /\ m_rate <= m_targetRate /\ m_targetRate <= LineRate

\* "Cleanup when a QP is complete (cancel timers, etc.)": a completed queue pair
\* has no event left, with the one exception the order of ReceiveAck makes: the
\* first CNP flag on the completing ACK starts the timers of a deleted queue
\* pair.  They schedule themselves for ever.
TimersEnd ==
  done /\ ~ lateCnp => alphaEvents = 0 /\ decreaseEvents = 0 /\ rpEvents = 0

\* When no more CNPs come a flow that goes on gets its line rate back, up to
\* the rounding: neither the clamped target nor a lost m_rpTimer keeps it down.
Recovers == <>[](done \/ m_rate >= LineRate - 1)
=============================================================================
