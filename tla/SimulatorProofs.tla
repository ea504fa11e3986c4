--------------------------- MODULE SimulatorProofs ---------------------------
(***************************************************************************)
(* Proofs about the event loop: for every set of delays and threads and    *)
(* every program that schedules, cancels and removes events.               *)
(***************************************************************************)
EXTENDS Simulator, FiniteSetTheorems, SequenceTheorems, TLAPS

TypeInv == TypeOK /\ posted \in [Thread -> Seq(Delay)]

\* What a step does to the scheduler and to the EventIds, in five kinds.
InsertStep ==
  \E ts \in Nat, of \in Origin :
    /\ m_currentTs <= ts
    /\ Insert(ts, of)
    /\ UNCHANGED <<m_currentTs, m_currentUid, cancelled>>
    /\ ids' = ids \/ ids' = ids \cup {[ts |-> ts, uid |-> m_uid]}
    /\ pc # "gone"

QuietStep ==
  /\ UNCHANGED <<m_events, m_currentTs, m_currentUid, m_unscheduledEvents, ids>>
  /\ m_uid' = m_uid \/ m_uid' = m_uid + 1
  /\ cancelled \subseteq cancelled'
  /\ pc' # "gone" => pc # "gone"

\* Every step is of one of these kinds, or runs, removes or drops events.
LEMMA StepKinds ==
  ASSUME TypeInv, [Next]_vars
  PROVE  InsertStep \/ QuietStep \/ ProcessOneEvent \/ (\E id \in ids : Remove(id)) \/ DoDispose
<1>1. CASE Code
  <2>1. ASSUME NEW d \in Delay, Schedule(d) PROVE InsertStep
    <3>1. m_currentTs + d \in Nat /\ m_currentTs <= m_currentTs + d /\ Main \in Origin
      BY DelayAssumption DEF TypeInv, TypeOK, Origin
    <3>2. QED BY <2>1, <3>1 DEF Schedule, InsertStep, Coding, key
  <2>2. ASSUME NEW d \in Delay, ScheduleWithContext(d) PROVE InsertStep
    <3>1. m_currentTs + d \in Nat /\ m_currentTs <= m_currentTs + d /\ Main \in Origin
      BY DelayAssumption DEF TypeInv, TypeOK, Origin
    <3>2. QED BY <2>2, <3>1 DEF ScheduleWithContext, InsertStep, Coding, key, user
  <2>3. CASE ScheduleDestroy
    BY <2>3 DEF ScheduleDestroy, QuietStep, key, Coding
  <2>4. ASSUME NEW id \in ids, Cancel(id) PROVE QuietStep
    BY <2>4 DEF Cancel, QuietStep, key, sched, Coding
  <2>5. ASSUME NEW u, CancelDestroy(u) \/ RemoveDestroy(u) PROVE QuietStep
    BY <2>5 DEF CancelDestroy, RemoveDestroy, QuietStep, key, sched, Coding
  <2>6. CASE Stop
    BY <2>6 DEF Stop, QuietStep, key, sched, user
  <2>7. QED BY <1>1, <2>1, <2>2, <2>3, <2>4, <2>5, <2>6 DEF Code
<1>2. ASSUME NEW t \in Thread, NEW d \in Delay, Post(t, d) PROVE QuietStep
  BY <1>2 DEF Post, QuietStep, key, sched, user
<1>3. CASE Run \/ Destroy
  BY <1>3 DEF Run, Destroy, QuietStep, key, sched, user
<1>4. CASE RunReturns \/ HandlerReturns \/ Look \/ Swap \/ Moved
  BY <1>4 DEF RunReturns, HandlerReturns, Look, Swap, Moved, QuietStep, key, sched, user
<1>5. CASE Move
  <2>1. Head(taken) \in Handed
    BY <1>5 DEF Move, TypeInv, TypeOK
  <2> DEFINE d == Head(taken).delay
             o == Head(taken).of
  <2>2. d \in Nat /\ o \in Origin
    BY <2>1, DelayAssumption DEF Handed
  <2>3. m_currentTs + d \in Nat /\ m_currentTs <= m_currentTs + d
    BY <2>2 DEF TypeInv, TypeOK
  <2>4. Insert(m_currentTs + d, o) /\ UNCHANGED <<m_currentTs, m_currentUid, cancelled, ids>> /\ pc # "gone"
    BY <1>5 DEF Move, key, user
  <2>5. QED BY <2>2, <2>3, <2>4 DEF InsertStep
<1>6. CASE DestroyNext \/ DestroyerReturns
  BY <1>6 DEF DestroyNext, DestroyerReturns, QuietStep, key, sched, user
<1>7. CASE UNCHANGED vars
  BY <1>7 DEF vars, QuietStep, key, sched, user
<1>8. QED BY <1>1, <1>2, <1>3, <1>4, <1>5, <1>6, <1>7 DEF Next, Loop
-----------------------------------------------------------------------------
\* Types of what is inserted by any step.
LEMMA InsertTyped ==
  ASSUME TypeInv, NEW ts \in Nat, NEW of \in Origin, Insert(ts, of)
  PROVE  m_events' \subseteq Event /\ m_uid' \in Nat /\ m_unscheduledEvents' \in Int
<1>1. [ts |-> ts, uid |-> m_uid, of |-> of] \in Event
  BY DEF TypeInv, TypeOK, Event
<1>2. QED BY <1>1 DEF Insert, TypeInv, TypeOK

\* The variables of the scheduler and the EventIds keep their types.
LEMMA SchedulerTyped ==
  ASSUME TypeInv, [Next]_vars
  PROVE  /\ m_events' \subseteq Event
         /\ m_uid' \in Nat /\ m_currentTs' \in Nat /\ m_currentUid' \in Nat
         /\ m_unscheduledEvents' \in Int
         /\ ids' \subseteq EventId
<1>1. CASE InsertStep
  <2>1. PICK ts \in Nat, of \in Origin :
          /\ Insert(ts, of)
          /\ UNCHANGED <<m_currentTs, m_currentUid>>
          /\ ids' = ids \/ ids' = ids \cup {[ts |-> ts, uid |-> m_uid]}
    BY <1>1 DEF InsertStep
  <2>2. [ts |-> ts, uid |-> m_uid] \in EventId
    BY DEF EventId, TypeInv, TypeOK
  <2>3. QED BY <2>1, <2>2, InsertTyped DEF TypeInv, TypeOK
<1>2. CASE QuietStep
  BY <1>2 DEF QuietStep, TypeInv, TypeOK
<1>3. CASE ProcessOneEvent
  BY <1>3 DEF ProcessOneEvent, TypeInv, TypeOK, Event, user
<1>4. ASSUME NEW id \in ids, Remove(id)
      PROVE  /\ m_events' \subseteq Event
             /\ m_uid' \in Nat /\ m_currentTs' \in Nat /\ m_currentUid' \in Nat
             /\ m_unscheduledEvents' \in Int
             /\ ids' \subseteq EventId
  BY <1>4 DEF Remove, TypeInv, TypeOK, key
<1>5. CASE DoDispose
  BY <1>5 DEF DoDispose, TypeInv, TypeOK, key, user
<1>6. QED BY <1>1, <1>2, <1>3, <1>4, <1>5, StepKinds

\* So do the lists that lead from a thread to the scheduler, and the rest.
LEMMA ListsTyped ==
  ASSUME TypeInv, [Next]_vars
  PROVE  /\ cancelled' \subseteq Nat
         /\ m_destroyEvents' \in Seq(Nat)
         /\ m_eventsWithContext' \in Seq(Handed)
         /\ taken' \in Seq(Handed)
         /\ posted' \in [Thread -> Seq(Delay)]
<1> DEFINE Goal == /\ cancelled' \subseteq Nat
                   /\ m_destroyEvents' \in Seq(Nat)
                   /\ m_eventsWithContext' \in Seq(Handed)
                   /\ taken' \in Seq(Handed)
                   /\ posted' \in [Thread -> Seq(Delay)]
<1> USE DEF TypeInv, TypeOK
<1>1. CASE Code
  <2>1. ASSUME NEW d \in Delay, Schedule(d) \/ ScheduleWithContext(d) PROVE Goal
    BY <2>1 DEF Schedule, ScheduleWithContext, user, hand, hist
  <2>2. CASE ScheduleDestroy
    BY <2>2 DEF ScheduleDestroy, hand, hist
  <2>3. ASSUME NEW id \in ids, Cancel(id) \/ Remove(id) PROVE Goal
    <3>1. id.uid \in Nat BY DEF EventId
    <3>2. QED BY <2>3, <3>1 DEF Cancel, Remove, hand, hist
  <2>4. ASSUME NEW u \in VALID..m_uid, CancelDestroy(u) \/ RemoveDestroy(u) PROVE Goal
    <3>1. u \in Nat BY DEF VALID
    <3>2. ASSUME NEW i \in 1..Len(m_destroyEvents)
          PROVE  SubSeq(m_destroyEvents, 1, i - 1)
                 \o SubSeq(m_destroyEvents, i + 1, Len(m_destroyEvents)) \in Seq(Nat)
      <4>1. /\ SubSeq(m_destroyEvents, 1, i - 1) \in Seq(Nat)
            /\ SubSeq(m_destroyEvents, i + 1, Len(m_destroyEvents)) \in Seq(Nat)
        BY SubSeqProperties
      <4>2. QED BY <4>1, ConcatProperties
    <3>3. QED BY <2>4, <3>1, <3>2 DEF CancelDestroy, RemoveDestroy, hand, hist
  <2>5. CASE Stop
    BY <2>5 DEF Stop, user, hand, hist
  <2>6. QED BY <1>1, <2>1, <2>2, <2>3, <2>4, <2>5 DEF Code
<1>2. ASSUME NEW t \in Thread, NEW d \in Delay, Post(t, d) PROVE Goal
  <2>1. Len(posted[t]) + 1 \in 1..Posts
    BY <1>2, BoundAssumption DEF Post
  <2>2. [delay |-> d, of |-> <<t, Len(posted[t]) + 1>>] \in Handed
    BY <2>1 DEF Handed, Origin
  <2>3. m_eventsWithContext' \in Seq(Handed)
    BY <1>2, <2>2 DEF Post
  <2>4. posted' \in [Thread -> Seq(Delay)]
    BY <1>2 DEF Post
  <2>5. QED BY <1>2, <2>3, <2>4 DEF Post, user
<1>3. CASE Run \/ Destroy \/ RunReturns \/ HandlerReturns \/ Look \/ DestroyerReturns
  BY <1>3 DEF Run, Destroy, RunReturns, HandlerReturns, Look, DestroyerReturns, user, hand, hist
<1>4. CASE ProcessOneEvent
  BY <1>4 DEF ProcessOneEvent, user, hand
<1>5. CASE Swap
  BY <1>5 DEF Swap, user, hist
<1>6. CASE Move
  <2>1. Tail(taken) \in Seq(Handed)
    BY <1>6, HeadTailProperties DEF Move
  <2>2. QED BY <1>6, <2>1 DEF Move, user, hand, hist
<1>6a. CASE Moved
  BY <1>6a DEF Moved, user, hand, hist
<1>7. CASE DestroyNext
  BY <1>7 DEF DestroyNext, hand, hist
<1>8. CASE DoDispose
  BY <1>8 DEF DoDispose, user, hist
<1>9. CASE UNCHANGED vars
  BY <1>9 DEF vars, user, hand, hist
<1>10. QED BY <1>1, <1>2, <1>3, <1>4, <1>5, <1>6, <1>6a, <1>7, <1>8, <1>9 DEF Next, Loop

LEMMA FlagsTyped ==
  ASSUME TypeInv, [Next]_vars
  PROVE  /\ m_stop' \in BOOLEAN
         /\ m_eventsWithContextEmpty' \in BOOLEAN
         /\ pc' \in {"idle", "look", "swap", "move", "loop", "handler", "destroy",
                     "destroyer", "gone"}
<1> USE DEF TypeInv, TypeOK
<1>1. QED
  BY DEF Next, Code, Loop, Schedule, ScheduleWithContext, ScheduleDestroy, Cancel, Remove,
         CancelDestroy, RemoveDestroy, Stop, Post, Run, Destroy, RunReturns, HandlerReturns,
         Look, Swap, Move, Moved, ProcessOneEvent, DestroyNext, DestroyerReturns, DoDispose,
         vars, hand
-----------------------------------------------------------------------------
\* Every event in the scheduler is after the one that runs.
EventsAhead ==
  \A e \in m_events : /\ e.uid < m_uid
                      /\ m_currentTs < e.ts \/ (m_currentTs = e.ts /\ m_currentUid < e.uid)

UidsUnique == \A e, f \in m_events : e.uid = f.uid => e = f

KeyInv == m_currentUid < m_uid /\ EventsAhead /\ UidsUnique

Passed(id) == id.ts < m_currentTs \/ (id.ts = m_currentTs /\ id.uid <= m_currentUid)
Listed(id) == \E e \in m_events : e.uid = id.uid /\ e.ts = id.ts

\* Every EventId is of an event that has run, is cancelled or is still there.
IdInv == pc # "gone" => \A id \in ids : Passed(id) \/ id.uid \in cancelled \/ Listed(id)

CountInv == IsFiniteSet(m_events) /\ UnscheduledIsExact

\* The inductive invariant.
Inv == TypeInv /\ KeyInv /\ IdInv /\ CountInv /\ FlagIsExact

LEMMA InitInv == Init => Inv
<1> SUFFICES ASSUME Init PROVE Inv OBVIOUS
<1>1. TypeInv
  <2>1. posted \in [Thread -> Seq(Delay)]
    BY DEF Init
  <2>2. /\ m_uid \in Nat /\ m_currentTs \in Nat /\ m_currentUid \in Nat
        /\ m_unscheduledEvents \in Int
        /\ m_destroyEvents \in Seq(Nat)
        /\ m_eventsWithContext \in Seq(Handed) /\ taken \in Seq(Handed)
    BY EmptySeq DEF Init, VALID
  <2>3. /\ m_events \subseteq Event /\ ids \subseteq EventId /\ cancelled \subseteq Nat
        /\ m_stop \in BOOLEAN /\ m_eventsWithContextEmpty \in BOOLEAN
    BY DEF Init
  <2>4. pc \in {"idle", "look", "swap", "move", "loop", "handler", "destroy",
                "destroyer", "gone"}
    BY DEF Init
  <2>5. QED BY <2>1, <2>2, <2>3, <2>4 DEF TypeInv, TypeOK
<1>2. KeyInv /\ IdInv
  BY DEF Init, KeyInv, EventsAhead, UidsUnique, IdInv, VALID
<1>3. CountInv
  BY FS_EmptySet DEF Init, CountInv, UnscheduledIsExact
<1>4. FlagIsExact
  BY DEF Init, FlagIsExact
<1>5. QED BY <1>1, <1>2, <1>3, <1>4 DEF Inv

\* The event that ProcessOneEvent takes is before every other.
LEMMA ProcessPick ==
  ASSUME TypeInv, KeyInv, ProcessOneEvent
  PROVE  \E e \in m_events :
           /\ \A f \in m_events \ {e} : e.ts < f.ts \/ (e.ts = f.ts /\ e.uid < f.uid)
           /\ m_events' = m_events \ {e}
           /\ m_currentTs' = e.ts /\ m_currentUid' = e.uid
           /\ m_currentTs < e.ts \/ (m_currentTs = e.ts /\ m_currentUid < e.uid)
           /\ e.uid < m_uid /\ m_uid' = m_uid
  BY DEF ProcessOneEvent, KeyInv, EventsAhead, Before

\* The keys in the scheduler stay ahead of the present, and unique.
LEMMA KeyStep ==
  ASSUME TypeInv, KeyInv, [Next]_vars
  PROVE  KeyInv'
<1>0. /\ m_uid \in Nat /\ m_currentTs \in Nat /\ m_currentUid \in Nat
      /\ \A e \in m_events : e.ts \in Nat /\ e.uid \in Nat
  BY DEF TypeInv, TypeOK, Event
<1>1. CASE InsertStep
  <2>1. PICK ts \in Nat, of \in Origin :
          /\ m_currentTs <= ts
          /\ Insert(ts, of)
          /\ UNCHANGED <<m_currentTs, m_currentUid>>
    BY <1>1 DEF InsertStep
  <2> DEFINE n == [ts |-> ts, uid |-> m_uid, of |-> of]
  <2>2. m_events' = m_events \cup {n} /\ m_uid' = m_uid + 1 /\ n.ts = ts /\ n.uid = m_uid
    BY <2>1 DEF Insert
  <2> HIDE DEF n
  <2>3. QED BY <1>0, <2>1, <2>2 DEF KeyInv, EventsAhead, UidsUnique
<1>2. CASE QuietStep
  BY <1>0, <1>2 DEF QuietStep, KeyInv, EventsAhead, UidsUnique
<1>3. CASE ProcessOneEvent
  BY <1>0, <1>3, ProcessPick DEF KeyInv, EventsAhead, UidsUnique
<1>4. ASSUME NEW id \in ids, Remove(id) PROVE KeyInv'
  BY <1>4 DEF Remove, KeyInv, EventsAhead, UidsUnique, key
<1>5. CASE DoDispose
  BY <1>5 DEF DoDispose, KeyInv, EventsAhead, UidsUnique, key
<1>6. QED BY <1>1, <1>2, <1>3, <1>4, <1>5, StepKinds

\* No EventId loses its event unnoticed.
LEMMA IdStep ==
  ASSUME TypeInv, KeyInv, IdInv, [Next]_vars
  PROVE  IdInv'
<1>0. /\ m_uid \in Nat /\ m_currentTs \in Nat /\ m_currentUid \in Nat
      /\ \A e \in m_events : e.ts \in Nat /\ e.uid \in Nat
      /\ \A id \in ids : id.ts \in Nat /\ id.uid \in Nat
  BY DEF TypeInv, TypeOK, Event, EventId
<1>1. CASE InsertStep
  <2>1. PICK ts \in Nat, of \in Origin :
          /\ Insert(ts, of)
          /\ UNCHANGED <<m_currentTs, m_currentUid, cancelled>>
          /\ ids' = ids \/ ids' = ids \cup {[ts |-> ts, uid |-> m_uid]}
          /\ pc # "gone"
    BY <1>1 DEF InsertStep
  <2> DEFINE n == [ts |-> ts, uid |-> m_uid, of |-> of]
  <2>2. m_events' = m_events \cup {n} /\ n.ts = ts /\ n.uid = m_uid
    BY <2>1 DEF Insert
  <2>3. ASSUME NEW id \in ids PROVE Passed(id)' \/ id.uid \in cancelled' \/ Listed(id)'
    BY <2>1, <2>2 DEF IdInv, Passed, Listed
  <2> HIDE DEF n
  <2>4. ASSUME NEW id \in ids' PROVE Passed(id)' \/ id.uid \in cancelled' \/ Listed(id)'
    <3>1. CASE id \in ids
      BY <2>3, <3>1
    <3>2. CASE id = [ts |-> ts, uid |-> m_uid]
      <4>1. id.ts = ts /\ id.uid = m_uid
        BY <3>2
      <4>2. QED BY <2>2, <4>1 DEF Listed
    <3>3. QED BY <2>1, <3>1, <3>2
  <2>5. QED BY <2>4 DEF IdInv, Passed, Listed
<1>2. CASE QuietStep
  BY <1>2 DEF QuietStep, IdInv, Passed, Listed
<1>3. CASE ProcessOneEvent
  <2>1. PICK e \in m_events :
          /\ m_events' = m_events \ {e}
          /\ m_currentTs' = e.ts /\ m_currentUid' = e.uid
          /\ m_currentTs < e.ts \/ (m_currentTs = e.ts /\ m_currentUid < e.uid)
    BY <1>3, ProcessPick
  <2>2. ids' = ids /\ cancelled' = cancelled /\ pc # "gone"
    BY <1>3 DEF ProcessOneEvent, user
  <2>3. ASSUME NEW id \in ids PROVE Passed(id)' \/ id.uid \in cancelled' \/ Listed(id)'
    <3>1. CASE Passed(id)
      BY <1>0, <2>1, <3>1 DEF Passed
    <3>2. CASE id.uid \in cancelled
      BY <2>2, <3>2
    <3>3. CASE Listed(id)
      BY <1>0, <2>1, <3>3 DEF Listed, Passed
    <3>4. QED BY <2>2, <3>1, <3>2, <3>3 DEF IdInv
  <2>4. QED BY <2>2, <2>3 DEF IdInv, Passed, Listed
<1>4. ASSUME NEW r \in ids, Remove(r) PROVE IdInv'
  BY <1>4 DEF Remove, IdInv, Passed, Listed, key, Coding
<1>5. CASE DoDispose
  BY <1>5 DEF DoDispose, IdInv
<1>6. QED BY <1>1, <1>2, <1>3, <1>4, <1>5, StepKinds

\* The count follows the scheduler.
LEMMA CountStep ==
  ASSUME TypeInv, KeyInv, IdInv, CountInv, [Next]_vars
  PROVE  CountInv'
<1>0. IsFiniteSet(m_events) /\ m_uid \in Nat /\ Cardinality(m_events) \in Nat
  BY FS_CardinalityType DEF CountInv, TypeInv, TypeOK
<1>1. CASE InsertStep
  <2>1. PICK ts \in Nat, of \in Origin : Insert(ts, of) /\ pc # "gone"
    BY <1>1 DEF InsertStep
  <2> DEFINE n == [ts |-> ts, uid |-> m_uid, of |-> of]
  <2>2. /\ m_events' = m_events \cup {n} /\ n.uid = m_uid
        /\ m_unscheduledEvents' = m_unscheduledEvents + 1
    BY <2>1 DEF Insert
  <2> HIDE DEF n
  <2>3. n \notin m_events
    <3>1. \A e \in m_events : e.uid < m_uid /\ e.uid \in Nat
      BY DEF KeyInv, EventsAhead, TypeInv, TypeOK, Event
    <3>2. QED BY <1>0, <2>2, <3>1
  <2>4. IsFiniteSet(m_events') /\ Cardinality(m_events') = Cardinality(m_events) + 1
    BY <1>0, <2>2, <2>3, FS_AddElement
  <2>5. QED BY <2>1, <2>2, <2>4 DEF CountInv, UnscheduledIsExact
<1>2. CASE QuietStep
  BY <1>2 DEF QuietStep, CountInv, UnscheduledIsExact
<1>3. CASE ProcessOneEvent
  <2>1. PICK e \in m_events : m_events' = m_events \ {e}
    BY <1>3, ProcessPick
  <2>2. IsFiniteSet(m_events') /\ Cardinality(m_events') = Cardinality(m_events) - 1
    BY <1>0, <2>1, FS_RemoveElement
  <2>3. QED BY <1>3, <2>2 DEF ProcessOneEvent, CountInv, UnscheduledIsExact
<1>4. ASSUME NEW r \in ids, Remove(r) PROVE CountInv'
  <2>1. pc # "gone" /\ ~ Passed(r) /\ r.uid \notin cancelled
    BY <1>4 DEF Remove, Coding, IsExpired, Passed
  <2>2. PICK e \in m_events : e.uid = r.uid
    BY <2>1 DEF IdInv, Listed
  <2>3. m_events' = m_events \ {e}
    BY <1>4, <2>2 DEF Remove, KeyInv, UidsUnique
  <2>4. IsFiniteSet(m_events') /\ Cardinality(m_events') = Cardinality(m_events) - 1
    BY <1>0, <2>3, FS_RemoveElement
  <2>5. QED BY <1>4, <2>1, <2>4 DEF Remove, CountInv, UnscheduledIsExact
<1>5. CASE DoDispose
  BY <1>5, FS_EmptySet DEF DoDispose, CountInv, UnscheduledIsExact
<1>6. QED BY <1>1, <1>2, <1>3, <1>4, <1>5, StepKinds

\* The flag follows the list.
LEMMA FlagStep ==
  ASSUME FlagIsExact, [Next]_vars
  PROVE  FlagIsExact'
<1>1. CASE UNCHANGED hand
  BY <1>1 DEF hand, FlagIsExact
<1>2. ASSUME NEW t \in Thread, NEW d \in Delay, Post(t, d) PROVE FlagIsExact'
  BY <1>2 DEF Post, FlagIsExact
<1>3. CASE Swap
  BY <1>3 DEF Swap, FlagIsExact
<1>4. CASE DoDispose
  BY <1>4 DEF DoDispose, FlagIsExact
<1>5. QED
  BY <1>1, <1>2, <1>3, <1>4
  DEF Next, Code, Loop, Schedule, ScheduleWithContext, ScheduleDestroy, Cancel, Remove,
      CancelDestroy, RemoveDestroy, Stop, Run, Destroy, RunReturns, HandlerReturns, Look,
      Move, Moved, ProcessOneEvent, DestroyNext, DestroyerReturns, vars

LEMMA NextInv == Inv /\ [Next]_vars => Inv'
<1> SUFFICES ASSUME Inv, [Next]_vars PROVE Inv' OBVIOUS
<1>1. TypeInv'
  BY SchedulerTyped, ListsTyped, FlagsTyped DEF Inv, TypeInv, TypeOK
<1>2. QED BY <1>1, KeyStep, IdStep, CountStep, FlagStep DEF Inv

\* Inv is an invariant of the event loop.
THEOREM Invariance == Spec => []Inv
  BY InitInv, NextInv, PTL DEF Spec

\* Every variable of the simulator keeps its type.
THEOREM TypeCorrect == Spec => []TypeOK
  BY Invariance, PTL DEF Inv, TypeInv

\* m_unscheduledEvents never loses an event.
THEOREM CountExact == Spec => []UnscheduledIsExact
  BY Invariance, PTL DEF Inv, CountInv

\* The flag read without the mutex says whether events were handed over.
THEOREM FlagExact == Spec => []FlagIsExact
  BY Invariance, PTL DEF Inv

\* IsExpired is exact: Cancel and Remove reach every event that is still to run
\* and never search the scheduler for one that is not there.
THEOREM ExpiryExact == Spec => []ExpiredIsExact
<1>1. Inv => ExpiredIsExact
  <2> SUFFICES ASSUME Inv, pc # "gone", NEW id \in ids
               PROVE  IsExpired(id) <=> id.uid \in cancelled \/ ~ Listed(id)
    BY DEF ExpiredIsExact, Listed
  <2>1. /\ m_currentTs \in Nat /\ m_currentUid \in Nat /\ id.ts \in Nat /\ id.uid \in Nat
        /\ \A e \in m_events : e.ts \in Nat /\ e.uid \in Nat
    BY DEF Inv, TypeInv, TypeOK, Event, EventId
  <2>2. Passed(id) => ~ Listed(id)
    BY <2>1 DEF Inv, KeyInv, EventsAhead, Passed, Listed
  <2>3. Passed(id) \/ id.uid \in cancelled \/ Listed(id)
    BY DEF Inv, IdInv
  <2>4. IsExpired(id) <=> Passed(id) \/ id.uid \in cancelled
    BY DEF IsExpired, Passed
  <2>5. QED BY <2>2, <2>3, <2>4
<1>2. QED BY <1>1, Invariance, PTL

\* Time never goes back, and events of one time run in the order of their uids.
THEOREM TimeIsOrdered == Spec => KeysIncrease
<1>1. Inv /\ [Next]_vars =>
        [key' # key => Before([ts |-> m_currentTs, uid |-> m_currentUid],
                              [ts |-> m_currentTs', uid |-> m_currentUid'])]_vars
  <2> SUFFICES ASSUME Inv, [Next]_vars, key' # key
               PROVE  Before([ts |-> m_currentTs, uid |-> m_currentUid],
                             [ts |-> m_currentTs', uid |-> m_currentUid'])
    OBVIOUS
  <2>1. ProcessOneEvent
    <3>1. ~ InsertStep /\ ~ QuietStep /\ ~ DoDispose /\ \A id \in ids : ~ Remove(id)
      BY DEF InsertStep, QuietStep, DoDispose, Remove, key
    <3>2. QED BY <3>1, StepKinds DEF Inv
  <2>2. m_currentTs < m_currentTs' \/ (m_currentTs = m_currentTs' /\ m_currentUid < m_currentUid')
    BY <2>1, ProcessPick DEF Inv
  <2>3. QED BY <2>2 DEF Before
<1>2. QED BY <1>1, Invariance, PTL DEF Spec, KeysIncrease
-----------------------------------------------------------------------------
(***************************************************************************)
(* The order of the events one thread hands over (PostOrder).  Such an     *)
(* event is in line (in one of the two lists), then in the scheduler, then *)
(* has run.                                                                *)
(***************************************************************************)
Way     == taken \o m_eventsWithContext
Foreign == {e \in m_events : e.of # Main}

\* The uids that Cancel and Remove can name.
Members(s) == {s[i] : i \in 1..Len(s)}
Named == cancelled \cup {id.uid : id \in ids} \cup Members(m_destroyEvents)

\* None of them is of an event of another thread, nor will be.
NamedInv == /\ \A u \in Named : u < m_uid
            /\ \A e \in Foreign : e.uid \notin Named

TakenInv == pc # "move" => taken = <<>>

\* The nth event of t is in line; has come to the scheduler.
InLine(w, t, n)  == \E i \in 1..Len(w) : w[i].of = <<t, n>>
Come(F, R, t, n) == <<t, n>> \in R \/ \E e \in F : e.of = <<t, n>>

\* F is in the scheduler, R has run, w is in line, P is what was posted.
ForeignKnown(F, P, now) ==
  \A e \in F : \E t \in Thread : \E n \in 1..Len(P[t]) :
    e.of = <<t, n>> /\ e.ts <= now + P[t][n]
RanKnown(R, P) == \A t \in Thread : \A n : <<t, n>> \in R => n \in 1..Len(P[t])
LineKnown(w, P) ==
  \A i \in 1..Len(w) : \E t \in Thread : \E n \in 1..Len(P[t]) :
    w[i].of = <<t, n>> /\ w[i].delay = P[t][n]
LineSorted(w) ==
  \A i \in 1..Len(w), j \in 1..Len(w) : \A t \in Thread : \A k \in Nat, n \in Nat :
    i < j /\ w[i].of = <<t, k>> /\ w[j].of = <<t, n>> => k < n
NoneLost(F, R, w, P) ==
  \A t \in Thread : \A n \in 1..Len(P[t]) : Come(F, R, t, n) \/ InLine(w, t, n)
FirstInLine(F, R, w, P) ==
  \A t \in Thread : \A n \in 1..Len(P[t]) : \A k \in 1..Len(P[t]) :
    k < n /\ Come(F, R, t, n) => ~ InLine(w, t, k)
ForeignSorted(F, P) ==
  \A e \in F, f \in F : \A t \in Thread : \A k \in 1..Len(P[t]), n \in 1..Len(P[t]) :
    k < n /\ P[t][k] <= P[t][n] /\ e.of = <<t, k>> /\ f.of = <<t, n>> => Before(e, f)

Order(F, R, w, P, now) ==
  /\ ForeignKnown(F, P, now) /\ LineKnown(w, P) /\ LineSorted(w)
  /\ NoneLost(F, R, w, P) /\ FirstInLine(F, R, w, P) /\ ForeignSorted(F, P)

OrderInv ==
  /\ Inv /\ NamedInv /\ TakenInv
  /\ RanKnown(ran, posted) /\ PostOrder
  /\ pc # "gone" => Order(Foreign, ran, Way, posted, m_currentTs)

LEMMA NamedNat == Inv => \A u \in Named : u \in Nat
<1> SUFFICES ASSUME Inv, NEW u \in Named PROVE u \in Nat
  OBVIOUS
<1>1. cancelled \subseteq Nat /\ ids \subseteq EventId /\ m_destroyEvents \in Seq(Nat)
  BY DEF Inv, TypeInv, TypeOK
<1>2. CASE u \in cancelled
  BY <1>1, <1>2
<1>3. CASE \E id \in ids : u = id.uid
  BY <1>1, <1>3 DEF EventId
<1>4. CASE \E i \in 1..Len(m_destroyEvents) : u = m_destroyEvents[i]
  BY <1>1, <1>4
<1>5. QED BY <1>2, <1>3, <1>4 DEF Named, Members

LEMMA Later == \A a, b, c \in Nat : a <= b => /\ c + a \in Nat /\ c + b \in Nat
                                              /\ c + a <= c + b
  OBVIOUS

LEMMA PairsEqual == \A a, b, c, d : <<a, b>> = <<c, d>> <=> a = c /\ b = d
  OBVIOUS

\* w with x behind it; w without its first element.
Longer(w, v, x)  == /\ Len(w) \in Nat /\ Len(v) = Len(w) + 1 /\ v[Len(w) + 1] = x
                    /\ \A i \in 1..Len(w) : v[i] = w[i]
Shorter(w, v)    == /\ Len(w) \in Nat /\ Len(w) > 0 /\ Len(v) = Len(w) - 1
                    /\ \A i \in 1..Len(v) : v[i] = w[i + 1]

\* P with d posted by t0 as its Nth event.
More(P, Q, t0, N, d) ==
  /\ \A t \in Thread : /\ Len(P[t]) \in Nat /\ Len(Q[t]) \in Nat
                       /\ \A n \in 1..Len(P[t]) : n \in 1..Len(Q[t]) /\ Q[t][n] = P[t][n]
                       /\ t # t0 => Len(Q[t]) = Len(P[t])
  /\ Len(P[t0]) + 1 = N /\ Len(Q[t0]) = N /\ Q[t0][N] = d /\ N \in 1..Len(Q[t0])

LEMMA PostsMore ==
  ASSUME NEW P \in [Thread -> Seq(Nat)], NEW t0 \in Thread, NEW d \in Nat
  PROVE  More(P, [P EXCEPT ![t0] = Append(P[t0], d)], t0, Len(P[t0]) + 1, d)
<1> DEFINE Q == [P EXCEPT ![t0] = Append(P[t0], d)]
<1>1. ASSUME NEW t \in Thread, t # t0 PROVE Q[t] = P[t] /\ Len(P[t]) \in Nat
  BY <1>1
<1>2. Q[t0] = Append(P[t0], d) /\ P[t0] \in Seq(Nat)
  OBVIOUS
<1> HIDE DEF Q
<1>3. /\ Len(P[t0]) \in Nat /\ Len(Q[t0]) = Len(P[t0]) + 1 /\ Q[t0][Len(P[t0]) + 1] = d
      /\ \A n \in 1..Len(P[t0]) : n \in 1..Len(Q[t0]) /\ Q[t0][n] = P[t0][n]
  BY <1>2
<1>4. More(P, Q, t0, Len(P[t0]) + 1, d)
  BY <1>1, <1>3 DEF More
<1>5. QED BY <1>4 DEF Q

\* Thread t0 hands over an event x with delay d.
LEMMA OrderPost ==
  ASSUME NEW P, NEW F, NEW R, NEW w, NEW now, Order(F, R, w, P, now), RanKnown(R, P),
         NEW t0 \in Thread, NEW d, NEW x, NEW N, x.of = <<t0, N>>, x.delay = d,
         NEW Q, More(P, Q, t0, N, d), NEW v, Longer(w, v, x)
  PROVE  Order(F, R, v, Q, now) /\ RanKnown(R, Q)
<1>1. /\ \A t \in Thread : /\ Len(P[t]) \in Nat /\ Len(Q[t]) \in Nat
                           /\ \A n \in 1..Len(P[t]) : n \in 1..Len(Q[t]) /\ Q[t][n] = P[t][n]
                           /\ t # t0 => Len(Q[t]) = Len(P[t])
      /\ Len(P[t0]) + 1 = N /\ Len(Q[t0]) = N /\ Q[t0][N] = d /\ N \in 1..Len(Q[t0])
  BY DEF More
<1>2. /\ Len(w) \in Nat /\ Len(v) = Len(w) + 1 /\ v[Len(w) + 1] = x
      /\ \A i \in 1..Len(w) : v[i] = w[i]
  BY DEF Longer
<1>3. x.of = <<t0, N>> /\ N \in Nat
  BY <1>1
<1>4. ForeignKnown(F, Q, now)
  <2> SUFFICES ASSUME NEW e \in F
               PROVE  \E t \in Thread : \E n \in 1..Len(Q[t]) : e.of = <<t, n>> /\ e.ts <= now + Q[t][n]
    BY DEF ForeignKnown
  <2>1. PICK t \in Thread : \E n \in 1..Len(P[t]) : e.of = <<t, n>> /\ e.ts <= now + P[t][n]
    BY DEF Order, ForeignKnown
  <2>2. QED BY <1>1, <2>1
<1>5. LineKnown(v, Q)
  <2> SUFFICES ASSUME NEW i \in 1..Len(v)
               PROVE  \E t \in Thread : \E n \in 1..Len(Q[t]) : v[i].of = <<t, n>> /\ v[i].delay = Q[t][n]
    BY DEF LineKnown
  <2>1. CASE i \in 1..Len(w)
    <3>1. PICK t \in Thread : \E n \in 1..Len(P[t]) : w[i].of = <<t, n>> /\ w[i].delay = P[t][n]
      BY <2>1 DEF Order, LineKnown
    <3>2. QED BY <1>1, <1>2, <2>1, <3>1
  <2>2. CASE i = Len(w) + 1
    BY <1>1, <1>2, <1>3, <2>2
  <2>3. QED BY <1>2, <2>1, <2>2
\* An event of t0 that is in line or has come is older than x.
<1>6. \A n \in Nat : (Come(F, R, t0, n) \/ InLine(w, t0, n)) => n < N
  <2> SUFFICES ASSUME NEW n \in Nat, Come(F, R, t0, n) \/ InLine(w, t0, n)
               PROVE  n \in 1..Len(P[t0])
    BY <1>1
  <2>1. CASE <<t0, n>> \in R
    BY <2>1 DEF RanKnown
  <2>2. CASE \E e \in F : e.of = <<t0, n>>
    BY <2>2, PairsEqual DEF Order, ForeignKnown
  <2>3. CASE InLine(w, t0, n)
    BY <2>3, PairsEqual DEF Order, LineKnown, InLine
  <2>4. QED BY <2>1, <2>2, <2>3 DEF Come
<1>7. LineSorted(v)
  <2> SUFFICES ASSUME NEW i \in 1..Len(v), NEW j \in 1..Len(v), NEW t \in Thread, NEW k \in Nat,
                      NEW n \in Nat, i < j, v[i].of = <<t, k>>, v[j].of = <<t, n>>
               PROVE  k < n
    BY DEF LineSorted
  <2>1. i \in 1..Len(w) /\ v[i] = w[i]
    BY <1>2
  <2>2. CASE j \in 1..Len(w)
    BY <1>2, <2>1, <2>2 DEF Order, LineSorted
  <2>3. CASE j = Len(w) + 1
    <3>1. t = t0 /\ n = N
      BY <1>2, <1>3, <2>3, PairsEqual
    <3>2. InLine(w, t0, k)
      BY <2>1, <3>1 DEF InLine
    <3>3. QED BY <1>6, <3>1, <3>2
  <2>4. QED BY <1>2, <2>2, <2>3
<1>8. \A t \in Thread, k \in Nat : InLine(v, t, k) <=> InLine(w, t, k) \/ (t = t0 /\ k = N)
  <2>1. ASSUME NEW t \in Thread, NEW k \in Nat, InLine(v, t, k)
        PROVE  InLine(w, t, k) \/ (t = t0 /\ k = N)
    <3>1. PICK i \in 1..Len(v) : v[i].of = <<t, k>>
      BY <2>1 DEF InLine
    <3>2. CASE i \in 1..Len(w)
      BY <1>2, <3>1, <3>2 DEF InLine
    <3>3. CASE i = Len(w) + 1
      BY <1>2, <1>3, <3>1, <3>3, PairsEqual
    <3>4. QED BY <1>2, <3>2, <3>3
  <2>2. ASSUME NEW t \in Thread, NEW k \in Nat, InLine(w, t, k) PROVE InLine(v, t, k)
    <3>1. PICK i \in 1..Len(w) : w[i].of = <<t, k>>
      BY <2>2 DEF InLine
    <3>2. i \in 1..Len(v) /\ v[i].of = <<t, k>>
      BY <1>2, <3>1
    <3>3. QED BY <3>2 DEF InLine
  <2>3. InLine(v, t0, N)
    <3>1. Len(w) + 1 \in 1..Len(v)
      BY <1>2
    <3>2. QED BY <1>2, <1>3, <3>1 DEF InLine
  <2>4. QED BY <2>1, <2>2, <2>3
<1>9. NoneLost(F, R, v, Q)
  <2> SUFFICES ASSUME NEW t \in Thread, NEW n \in 1..Len(Q[t])
               PROVE  Come(F, R, t, n) \/ InLine(v, t, n)
    BY DEF NoneLost
  <2>1. n \in Nat /\ (n \in 1..Len(P[t]) \/ (t = t0 /\ n = N))
    BY <1>1
  <2>2. CASE n \in 1..Len(P[t])
    BY <1>8, <2>1, <2>2 DEF Order, NoneLost
  <2>3. QED BY <1>8, <2>1, <2>2
<1>10. FirstInLine(F, R, v, Q)
  <2> SUFFICES ASSUME NEW t \in Thread, NEW n \in 1..Len(Q[t]), NEW k \in 1..Len(Q[t]),
                      k < n, Come(F, R, t, n)
               PROVE  ~ InLine(v, t, k)
    BY DEF FirstInLine
  <2>1. n \in Nat /\ k \in Nat /\ (t = t0 => n < N)
    BY <1>1, <1>6
  <2>2. n \in 1..Len(P[t]) /\ k \in 1..Len(P[t]) /\ (t = t0 => k # N)
    BY <1>1, <2>1
  <2>3. ~ InLine(w, t, k)
    BY <2>2 DEF Order, FirstInLine
  <2>4. QED BY <1>8, <2>1, <2>2, <2>3
<1>11. ForeignSorted(F, Q)
  <2> SUFFICES ASSUME NEW e \in F, NEW f \in F, NEW t \in Thread,
                      NEW k \in 1..Len(Q[t]), NEW n \in 1..Len(Q[t]),
                      k < n, Q[t][k] <= Q[t][n], e.of = <<t, k>>, f.of = <<t, n>>
               PROVE  Before(e, f)
    BY DEF ForeignSorted
  <2>1. n \in Nat /\ k \in Nat /\ Come(F, R, t, n)
    BY <1>1 DEF Come
  <2>2. n \in 1..Len(P[t]) /\ k \in 1..Len(P[t])
    BY <1>1, <1>6, <2>1
  <2>3. QED BY <1>1, <2>2 DEF Order, ForeignSorted
<1>12. RanKnown(R, Q)
  BY <1>1 DEF RanKnown
<1>13. QED BY <1>4, <1>5, <1>7, <1>9, <1>10, <1>11, <1>12 DEF Order

\* What the hypotheses say of the numbers and delays of events.
Delays(P) == \A t \in Thread : Len(P[t]) \in Nat /\ \A n \in 1..Len(P[t]) : P[t][n] \in Nat
Keys(F)   == \A e \in F : e.ts \in Nat /\ e.uid \in Nat

\* The first event in line is given its time and moved to the scheduler, as g.
LEMMA OrderMove ==
  ASSUME NEW P, Delays(P), NEW F, Keys(F), NEW R, NEW w, NEW now \in Nat, Order(F, R, w, P, now),
         NEW v, Shorter(w, v),
         NEW g, g.of = w[1].of, g.ts = now + w[1].delay, g.uid \in Nat,
         \A e \in F : e.uid < g.uid,
         NEW G, G = F \cup {g}
  PROVE  Order(G, R, v, P, now)
<1>1. /\ Len(w) \in Nat /\ Len(v) \in Nat /\ 1 \in 1..Len(w)
      /\ \A i \in 1..Len(v) : i + 1 \in 1..Len(w) /\ v[i] = w[i + 1]
      /\ \A i \in 1..Len(w) : i # 1 => i - 1 \in 1..Len(v) /\ v[i - 1] = w[i]
  BY DEF Shorter
<1>2. PICK t0 \in Thread : \E n \in 1..Len(P[t0]) : w[1].of = <<t0, n>> /\ w[1].delay = P[t0][n]
  BY <1>1 DEF Order, LineKnown
<1>3. PICK m \in 1..Len(P[t0]) : w[1].of = <<t0, m>> /\ w[1].delay = P[t0][m]
  BY <1>2
<1>4. m \in Nat /\ g.of = <<t0, m>> /\ g.ts = now + P[t0][m] /\ P[t0][m] \in Nat /\ g.ts \in Nat
  BY <1>3 DEF Delays
<1>5. \A t \in Thread, k \in Nat : InLine(w, t, k) <=> InLine(v, t, k) \/ (t = t0 /\ k = m)
  <2>1. ASSUME NEW t \in Thread, NEW k \in Nat, InLine(w, t, k)
        PROVE  InLine(v, t, k) \/ (t = t0 /\ k = m)
    <3>1. PICK i \in 1..Len(w) : w[i].of = <<t, k>>
      BY <2>1 DEF InLine
    <3>2. CASE i = 1
      BY <1>3, <3>1, <3>2, PairsEqual
    <3>3. CASE i # 1
      BY <1>1, <3>1, <3>3 DEF InLine
    <3>4. QED BY <3>2, <3>3
  <2>2. ASSUME NEW t \in Thread, NEW k \in Nat, InLine(v, t, k) PROVE InLine(w, t, k)
    <3>1. PICK i \in 1..Len(v) : v[i].of = <<t, k>>
      BY <2>2 DEF InLine
    <3>2. i + 1 \in 1..Len(w) /\ w[i + 1].of = <<t, k>>
      BY <1>1, <3>1
    <3>3. QED BY <3>2, Zenon DEF InLine
  <2>3. InLine(w, t0, m)
    BY <1>1, <1>3, Zenon DEF InLine
  <2>4. QED BY <2>1, <2>2, <2>3
<1>6. \A k \in Nat : InLine(v, t0, k) => m < k
  <2> SUFFICES ASSUME NEW k \in Nat, InLine(v, t0, k) PROVE m < k
    OBVIOUS
  <2>1. PICK i \in 1..Len(v) : v[i].of = <<t0, k>>
    BY DEF InLine
  <2>2. i + 1 \in 1..Len(w) /\ w[i + 1].of = <<t0, k>> /\ 1 < i + 1
    BY <1>1, <2>1
  <2>3. \A j \in 1..Len(w) : 1 < j /\ w[j].of = <<t0, k>> => m < k
    <3>1. LineSorted(w)
      BY DEF Order
    <3>2. \A j \in 1..Len(w) : \A a \in Nat, b \in Nat :
            1 < j /\ w[1].of = <<t0, a>> /\ w[j].of = <<t0, b>> => a < b
      BY <1>1, <3>1, Zenon DEF LineSorted
    <3>3. QED BY <1>3, <1>4, <3>2, Zenon
  <2>4. QED BY <2>2, <2>3
<1>7. \A t \in Thread, k \in Nat : Come(G, R, t, k) <=> Come(F, R, t, k) \/ (t = t0 /\ k = m)
  BY <1>4, PairsEqual DEF Come
<1>8. ForeignKnown(G, P, now)
  <2> SUFFICES ASSUME NEW e \in G
               PROVE  \E t \in Thread : \E n \in 1..Len(P[t]) : e.of = <<t, n>> /\ e.ts <= now + P[t][n]
    BY DEF ForeignKnown
  <2>1. CASE e \in F
    BY <2>1 DEF Order, ForeignKnown
  <2>2. CASE e = g
    BY <1>4, <2>2
  <2>3. QED BY <2>1, <2>2
<1>9. LineKnown(v, P)
  <2> SUFFICES ASSUME NEW i \in 1..Len(v)
               PROVE  \E t \in Thread : \E n \in 1..Len(P[t]) : v[i].of = <<t, n>> /\ v[i].delay = P[t][n]
    BY DEF LineKnown
  <2>1. i + 1 \in 1..Len(w) /\ v[i] = w[i + 1]
    BY <1>1
  <2>2. \E t \in Thread : \E n \in 1..Len(P[t]) :
          w[i + 1].of = <<t, n>> /\ w[i + 1].delay = P[t][n]
    BY <2>1 DEF Order, LineKnown
  <2>3. QED BY <2>1, <2>2
<1>10. LineSorted(v)
  <2> SUFFICES ASSUME NEW i \in 1..Len(v), NEW j \in 1..Len(v), NEW t \in Thread, NEW k \in Nat,
                      NEW n \in Nat, i < j, v[i].of = <<t, k>>, v[j].of = <<t, n>>
               PROVE  k < n
    BY DEF LineSorted
  <2>0. i + 1 < j + 1 /\ i \in Nat /\ j \in Nat
    BY <1>1
  <2>1. /\ i + 1 \in 1..Len(w) /\ j + 1 \in 1..Len(w) /\ i + 1 < j + 1
        /\ w[i + 1].of = <<t, k>> /\ w[j + 1].of = <<t, n>>
    <3>1. v[i] = w[i + 1] /\ v[j] = w[j + 1] /\ i + 1 \in 1..Len(w) /\ j + 1 \in 1..Len(w)
      BY <1>1
    <3>2. QED BY <2>0, <3>1, Zenon
  <2>2. QED BY <2>1 DEF Order, LineSorted
<1>11. NoneLost(G, R, v, P)
  <2> SUFFICES ASSUME NEW t \in Thread, NEW n \in 1..Len(P[t])
               PROVE  Come(G, R, t, n) \/ InLine(v, t, n)
    BY DEF NoneLost
  <2>1. n \in Nat /\ (Come(F, R, t, n) \/ InLine(w, t, n))
    BY DEF Order, NoneLost, Delays
  <2>2. QED BY <1>5, <1>7, <2>1
<1>12. FirstInLine(G, R, v, P)
  <2> SUFFICES ASSUME NEW t \in Thread, NEW n \in 1..Len(P[t]), NEW k \in 1..Len(P[t]),
                      k < n, Come(G, R, t, n)
               PROVE  ~ InLine(v, t, k)
    BY DEF FirstInLine
  <2>1. n \in Nat /\ k \in Nat
    BY DEF Delays
  <2>2. CASE Come(F, R, t, n)
    <3>1. ~ InLine(w, t, k)
      BY <2>2 DEF Order, FirstInLine
    <3>2. QED BY <1>5, <2>1, <3>1
  <2>3. CASE t = t0 /\ n = m
    BY <1>4, <1>6, <2>1, <2>3
  <2>4. QED BY <1>7, <2>1, <2>2, <2>3
<1>13. ForeignSorted(G, P)
  <2> SUFFICES ASSUME NEW e \in G, NEW f \in G, NEW t \in Thread,
                      NEW k \in 1..Len(P[t]), NEW n \in 1..Len(P[t]),
                      k < n, P[t][k] <= P[t][n], e.of = <<t, k>>, f.of = <<t, n>>
               PROVE  Before(e, f)
    BY DEF ForeignSorted
  <2>1. n \in Nat /\ k \in Nat /\ P[t][k] \in Nat /\ P[t][n] \in Nat
    BY DEF Delays
  <2>2. CASE e \in F /\ f \in F
    BY <2>2 DEF Order, ForeignSorted
  <2>3. CASE e \in F /\ f = g
    <3>1. t = t0 /\ n = m
      BY <1>4, <2>3, PairsEqual
    <3>2. e.ts <= now + P[t][k]
      <4>1. ForeignKnown(F, P, now)
        BY DEF Order
      <4>2. PICK t1 \in Thread : \E j \in 1..Len(P[t1]) :
                  e.of = <<t1, j>> /\ e.ts <= now + P[t1][j]
        BY <2>3, <4>1 DEF ForeignKnown
      <4>3. PICK j \in 1..Len(P[t1]) : e.of = <<t1, j>> /\ e.ts <= now + P[t1][j]
        BY <4>2
      <4>4. t1 = t /\ j = k
        BY <4>3, PairsEqual
      <4>5. QED BY <4>3, <4>4
    <3>3. e.ts \in Nat /\ e.uid \in Nat /\ e.uid < g.uid
      BY <2>3 DEF Keys
    <3>4. g.ts = now + P[t][n]
      BY <1>4, <3>1
    <3>5. now + P[t][k] <= now + P[t][n] /\ now + P[t][k] \in Nat /\ now + P[t][n] \in Nat
      BY <2>1, Later, Zenon
    <3>6. e.ts < g.ts \/ (e.ts = g.ts /\ e.uid < g.uid)
      BY <3>2, <3>3, <3>4, <3>5
    <3>7. QED BY <2>3, <3>6 DEF Before
  <2>4. CASE e = g /\ f \in F
    <3>1. t = t0 /\ k = m
      BY <1>4, <2>4, PairsEqual
    <3>2. Come(F, R, t, n) /\ InLine(w, t, k)
      BY <1>5, <2>1, <2>4, <3>1 DEF Come
    <3>3. QED BY <3>2 DEF Order, FirstInLine
  <2>5. CASE e = g /\ f = g
    BY <2>1, <2>5, PairsEqual
  <2>6. QED BY <2>2, <2>3, <2>4, <2>5
<1>14. QED BY <1>8, <1>9, <1>10, <1>11, <1>12, <1>13 DEF Order

\* The first event of the scheduler is run: g, of another thread.
LEMMA OrderRun ==
  ASSUME NEW P, Delays(P), NEW F, Keys(F), NEW R, NEW w, NEW now \in Nat, Order(F, R, w, P, now),
         RanKnown(R, P), NEW g \in F, \A f \in F \ {g} : Before(g, f), now <= g.ts,
         \A t \in Thread : \A n \in DOMAIN P[t] : \A k \in 1..(n - 1) :
           P[t][k] <= P[t][n] /\ <<t, n>> \in R => <<t, k>> \in R,
         \A t \in Thread : DOMAIN P[t] = 1..Len(P[t])
  PROVE  /\ Order(F \ {g}, R \cup {g.of}, w, P, g.ts) /\ RanKnown(R \cup {g.of}, P)
         /\ \A t \in Thread : \A n \in DOMAIN P[t] : \A k \in 1..(n - 1) :
              P[t][k] <= P[t][n] /\ <<t, n>> \in R \cup {g.of} => <<t, k>> \in R \cup {g.of}
<1> DEFINE G == F \ {g}
           T == R \cup {g.of}
<1>1. g.ts \in Nat /\ g.uid \in Nat
  BY DEF Keys
<1>2. PICK t0 \in Thread : \E n \in 1..Len(P[t0]) : g.of = <<t0, n>>
  BY DEF Order, ForeignKnown
<1>3. PICK m \in 1..Len(P[t0]) : g.of = <<t0, m>>
  BY <1>2
<1>4. RanKnown(T, P)
  BY <1>3, PairsEqual DEF RanKnown
<1>5. \A t, k : Come(G, T, t, k) <=> Come(F, R, t, k)
  BY DEF Come
<1>6. ForeignKnown(G, P, g.ts)
  <2> SUFFICES ASSUME NEW e \in G
               PROVE  \E t \in Thread : \E n \in 1..Len(P[t]) : e.of = <<t, n>> /\ e.ts <= g.ts + P[t][n]
    BY DEF ForeignKnown
  <2>1. PICK t \in Thread : \E n \in 1..Len(P[t]) : e.of = <<t, n>> /\ e.ts <= now + P[t][n]
    BY DEF Order, ForeignKnown
  <2>2. PICK n \in 1..Len(P[t]) : e.of = <<t, n>> /\ e.ts <= now + P[t][n]
    BY <2>1
  <2>3. e.ts \in Nat /\ P[t][n] \in Nat
    BY DEF Keys, Delays
  <2>4. e.ts <= g.ts + P[t][n]
    BY <1>1, <2>2, <2>3
  <2>5. QED BY <2>2, <2>4
<1>7. NoneLost(G, T, w, P) /\ FirstInLine(G, T, w, P)
  BY <1>5 DEF Order, NoneLost, FirstInLine
<1>8. ForeignSorted(G, P)
  BY DEF Order, ForeignSorted
<1>9. Order(G, T, w, P, g.ts)
  BY <1>6, <1>7, <1>8 DEF Order
<1>10. ASSUME NEW t \in Thread, NEW n \in DOMAIN P[t], NEW k \in 1..(n - 1),
              P[t][k] <= P[t][n], <<t, n>> \in T
       PROVE  <<t, k>> \in T
  <2>1. n \in 1..Len(P[t]) /\ Len(P[t]) \in Nat
    BY DEF Delays
  <2>2. k \in 1..Len(P[t]) /\ k < n /\ n \in Nat /\ k \in Nat
    BY <2>1
  <2>3. CASE <<t, n>> \in R
    BY <1>10, <2>3
  <2>4. CASE <<t, n>> = g.of
    <3>1. Come(F, R, t, n)
      BY <2>4 DEF Come
    <3>2. Come(F, R, t, k)
      BY <2>1, <2>2, <3>1 DEF Order, NoneLost, FirstInLine
    <3>3. ASSUME NEW e \in F, e.of = <<t, k>> PROVE FALSE
      <4>1. Before(e, g)
        BY <1>10, <2>1, <2>2, <2>4, <3>3 DEF Order, ForeignSorted
      <4>2. e # g
        BY <2>2, <2>4, <3>3, PairsEqual
      <4>3. Before(g, e) /\ e.ts \in Nat /\ e.uid \in Nat
        BY <4>2 DEF Keys
      <4>4. QED BY <1>1, <4>1, <4>3 DEF Before
    <3>4. QED BY <3>2, <3>3 DEF Come
  <2>5. QED BY <1>10, <2>3, <2>4
<1>11. QED BY <1>4, <1>9, <1>10

\* Time passes.
LEMMA OrderLater ==
  ASSUME NEW P, Delays(P), NEW F, Keys(F), NEW R, NEW w, NEW now \in Nat, Order(F, R, w, P, now),
         NEW later \in Nat, now <= later
  PROVE  Order(F, R, w, P, later)
<1>1. ASSUME NEW e \in F
      PROVE  \E t \in Thread : \E n \in 1..Len(P[t]) : e.of = <<t, n>> /\ e.ts <= later + P[t][n]
  <2>1. PICK t \in Thread : \E n \in 1..Len(P[t]) : e.of = <<t, n>> /\ e.ts <= now + P[t][n]
    BY DEF Order, ForeignKnown
  <2>2. PICK n \in 1..Len(P[t]) : e.of = <<t, n>> /\ e.ts <= now + P[t][n]
    BY <2>1
  <2>3. e.ts \in Nat /\ P[t][n] \in Nat
    BY DEF Keys, Delays
  <2>4. e.ts <= later + P[t][n]
    BY <2>2, <2>3
  <2>5. QED BY <2>2, <2>4
<1>2. ForeignKnown(F, P, later)
  BY <1>1 DEF ForeignKnown
<1>3. QED BY <1>2 DEF Order

LEMMA MembersOf ==
  ASSUME NEW s \in Seq(Nat)
  PROVE  /\ \A u \in Nat : Members(Append(s, u)) = Members(s) \cup {u}
         /\ s # <<>> => Members(Tail(s)) \subseteq Members(s)
         /\ \A i \in 1..Len(s) :
              Members(SubSeq(s, 1, i - 1) \o SubSeq(s, i + 1, Len(s))) \subseteq Members(s)
<1>1. ASSUME NEW u \in Nat PROVE Members(Append(s, u)) = Members(s) \cup {u}
  <2> DEFINE v == Append(s, u)
  <2>1. /\ Len(s) \in Nat /\ Len(v) = Len(s) + 1 /\ v[Len(s) + 1] = u
        /\ \A i \in 1..Len(s) : v[i] = s[i]
    OBVIOUS
  <2> HIDE DEF v
  <2>2. Members(v) = Members(s) \cup {u}
    BY <2>1 DEF Members
  <2>3. QED BY <2>2 DEF v
<1>2. ASSUME s # <<>> PROVE Members(Tail(s)) \subseteq Members(s)
  <2> DEFINE v == Tail(s)
  <2>1. /\ Len(s) \in Nat /\ Len(s) > 0 /\ Len(v) = Len(s) - 1
        /\ \A i \in 1..Len(v) : v[i] = s[i + 1]
    BY <1>2
  <2> HIDE DEF v
  <2>2. \A i \in 1..Len(v) : i + 1 \in 1..Len(s) /\ v[i] = s[i + 1]
    BY <2>1
  <2>3. Members(v) \subseteq Members(s)
    BY <2>2 DEF Members
  <2>4. QED BY <2>3 DEF v
<1>3. ASSUME NEW i \in 1..Len(s)
      PROVE  Members(SubSeq(s, 1, i - 1) \o SubSeq(s, i + 1, Len(s))) \subseteq Members(s)
  <2> DEFINE a == SubSeq(s, 1, i - 1)
             b == SubSeq(s, i + 1, Len(s))
             v == a \o b
  <2>1. Len(s) \in Nat /\ i \in Nat
    OBVIOUS
  <2>2. a \in Seq(Nat) /\ Len(a) = i - 1 /\ \A j \in 1..(i - 1) : a[j] = s[j]
    BY <2>1, SubSeqProperties
  <2>3. b \in Seq(Nat) /\ Len(b) = Len(s) - i /\ \A j \in 1..(Len(s) - i) : b[j] = s[i + j]
    BY <2>1, SubSeqProperties
  <2> HIDE DEF a, b
  <2>4. /\ Len(v) = Len(a) + Len(b)
        /\ \A j \in 1..(Len(a) + Len(b)) : v[j] = IF j <= Len(a) THEN a[j] ELSE b[j - Len(a)]
    BY <2>2, <2>3, ConcatProperties
  <2> HIDE DEF v
  <2>5. ASSUME NEW j \in 1..Len(v) PROVE \E k \in 1..Len(s) : v[j] = s[k]
    <3>1. CASE j <= i - 1
      BY <2>1, <2>2, <2>3, <2>4, <3>1
    <3>2. CASE ~ j <= i - 1
      <4>1. j \in Nat /\ j - (i - 1) \in 1..(Len(s) - i) /\ v[j] = b[j - (i - 1)]
        BY <2>1, <2>2, <2>3, <2>4, <3>2
      <4>2. v[j] = s[i + (j - (i - 1))] /\ i + (j - (i - 1)) \in 1..Len(s)
        BY <2>1, <2>3, <4>1
      <4>3. QED BY <4>2
    <3>3. QED BY <3>1, <3>2
  <2>6. Members(v) \subseteq Members(s)
    BY <2>5 DEF Members
  <2>7. QED BY <2>6 DEF v, a, b
<1>4. QED BY <1>1, <1>2, <1>3

\* A step that leaves the events of other threads where they are, and names at
\* most a new uid.
Kept ==
  /\ Foreign' = Foreign /\ Way' = Way /\ m_currentTs' = m_currentTs
  /\ ran' = ran /\ posted' = posted
  /\ TakenInv' /\ (pc' # "gone" => pc # "gone")
  /\ \/ m_uid' = m_uid /\ Named' \subseteq Named
     \/ m_uid' = m_uid + 1 /\ Named' \subseteq Named \cup {m_uid}

LEMMA MainKept ==
  ASSUME NEW ts, Insert(ts, Main) PROVE Foreign' = Foreign
  BY DEF Insert, Foreign

LEMMA CodeKept == ASSUME OrderInv, Code PROVE Kept
<1>1. TakenInv /\ NamedInv /\ m_destroyEvents \in Seq(Nat) /\ m_uid \in Nat
  BY DEF OrderInv, Inv, TypeInv, TypeOK
<1>2. ASSUME NEW d \in Delay, Schedule(d) \/ ScheduleWithContext(d) PROVE Kept
  <2>1. /\ Insert(m_currentTs + d, Main) /\ m_uid' = m_uid + 1 /\ m_currentTs' = m_currentTs
        /\ cancelled' = cancelled /\ m_destroyEvents' = m_destroyEvents
        /\ ids' = ids \/ ids' = ids \cup {[ts |-> m_currentTs + d, uid |-> m_uid]}
        /\ UNCHANGED <<hand, taken, pc, hist>>
    BY <1>2 DEF Schedule, ScheduleWithContext, Insert, key, user
  <2>2. Named' \subseteq Named \cup {m_uid}
    BY <2>1 DEF Named
  <2>3. QED BY <1>1, <2>1, <2>2, MainKept DEF Kept, Way, hand, hist, TakenInv
<1>3. CASE ScheduleDestroy
  <2>1. Members(m_destroyEvents') = Members(m_destroyEvents) \cup {m_uid}
    BY <1>1, <1>3, MembersOf DEF ScheduleDestroy
  <2>2. Named' \subseteq Named \cup {m_uid}
    BY <1>3, <2>1 DEF ScheduleDestroy, Named, Members
  <2>3. QED BY <1>1, <1>3, <2>2 DEF ScheduleDestroy, Kept, Foreign, Way, hand, hist, key, TakenInv
<1>4. ASSUME NEW id \in ids, Cancel(id) PROVE Kept
  <2>1. Named' \subseteq Named
    BY <1>4 DEF Cancel, Named, Members
  <2>2. QED BY <1>1, <1>4, <2>1 DEF Cancel, Kept, Foreign, Way, hand, hist, key, sched, TakenInv
<1>5. ASSUME NEW id \in ids, Remove(id) PROVE Kept
  <2>1. Named' \subseteq Named /\ id.uid \in Named
    BY <1>5 DEF Remove, Named, Members
  <2>2. Foreign' = Foreign
    BY <1>1, <1>5, <2>1 DEF Remove, Foreign, NamedInv
  <2>3. QED BY <1>1, <1>5, <2>1, <2>2 DEF Remove, Kept, Way, hand, hist, key, TakenInv
<1>6. ASSUME NEW u, CancelDestroy(u) PROVE Kept
  <2>1. \E i \in DOMAIN m_destroyEvents : m_destroyEvents[i] = u
    BY <1>6 DEF CancelDestroy
  <2>2. u \in Members(m_destroyEvents)
    BY <1>1, <2>1 DEF Members
  <2>3. Named' \subseteq Named
    BY <1>6, <2>2 DEF CancelDestroy, Named, Members
  <2>4. QED
    BY <1>1, <1>6, <2>3 DEF CancelDestroy, Kept, Foreign, Way, hand, hist, key, sched, TakenInv
<1>7. ASSUME NEW u, RemoveDestroy(u) PROVE Kept
  <2>1. PICK i \in 1..Len(m_destroyEvents) :
          m_destroyEvents' = SubSeq(m_destroyEvents, 1, i - 1)
                             \o SubSeq(m_destroyEvents, i + 1, Len(m_destroyEvents))
    BY <1>7 DEF RemoveDestroy
  <2>2. Members(m_destroyEvents') \subseteq Members(m_destroyEvents)
    BY <1>1, <2>1, MembersOf
  <2>3. Named' \subseteq Named
    BY <1>7, <2>2 DEF RemoveDestroy, Named, Members
  <2>4. QED
    BY <1>1, <1>7, <2>3 DEF RemoveDestroy, Kept, Foreign, Way, hand, hist, key, sched, TakenInv
<1>8. CASE Stop
  BY <1>1, <1>8 DEF Stop, Kept, Foreign, Way, Named, Members, hand, hist, key, sched, user, TakenInv
<1>9. QED BY <1>2, <1>3, <1>4, <1>5, <1>6, <1>7, <1>8 DEF Code

LEMMA OrderKinds ==
  ASSUME OrderInv, [Next]_vars
  PROVE  \/ Kept \/ (\E t \in Thread, d \in Delay : Post(t, d)) \/ Move
         \/ ProcessOneEvent \/ DoDispose
<1>1. TakenInv /\ m_destroyEvents \in Seq(Nat) /\ m_eventsWithContext \in Seq(Handed)
  BY DEF OrderInv, Inv, TypeInv, TypeOK
<1>2. CASE Run \/ Destroy \/ RunReturns \/ HandlerReturns \/ Look \/ DestroyerReturns \/ Moved
  BY <1>1, <1>2 DEF Run, Destroy, RunReturns, HandlerReturns, Look, DestroyerReturns, Moved, Kept,
     Foreign, Way, Named, Members, hand, hist, key, sched, user, TakenInv
<1>3. CASE Swap
  <2>1. taken = <<>> /\ taken' = m_eventsWithContext /\ m_eventsWithContext' = <<>>
    BY <1>1, <1>3 DEF Swap, TakenInv
  <2>2. Way' = Way
    BY <1>1, <2>1 DEF Way
  <2>3. QED
    BY <1>3, <2>2 DEF Swap, Kept, Foreign, Named, Members, hist, key, sched, user, TakenInv
<1>4. CASE DestroyNext
  <2>1. Members(m_destroyEvents') \subseteq Members(m_destroyEvents)
    BY <1>1, <1>4, MembersOf DEF DestroyNext
  <2>2. Named' \subseteq Named
    BY <1>4, <2>1 DEF DestroyNext, Named, Members
  <2>3. QED
    BY <1>1, <1>4, <2>2 DEF DestroyNext, Kept, Foreign, Way, hand, hist, key, sched, TakenInv
<1>5. CASE UNCHANGED vars
  BY <1>1, <1>5 DEF vars, Kept, Foreign, Way, Named, Members, hand, hist, key, sched, user, TakenInv
<1>6. QED BY <1>2, <1>3, <1>4, <1>5, CodeKept DEF Next, Loop

\* The types that the lemmas on Order ask for.
LEMMA OrderTypes ==
  ASSUME Inv
  PROVE  /\ posted \in [Thread -> Seq(Nat)] /\ Delays(posted) /\ Keys(Foreign)
         /\ m_currentTs \in Nat /\ m_uid \in Nat
         /\ taken \in Seq(Handed) /\ m_eventsWithContext \in Seq(Handed)
         /\ \A e \in m_events : e.ts \in Nat /\ e.uid \in Nat /\ e.uid < m_uid
<1>1. posted \in [Thread -> Seq(Delay)] /\ m_events \subseteq Event
  BY DEF Inv, TypeInv, TypeOK
<1>2. ASSUME NEW t \in Thread PROVE posted[t] \in Seq(Nat)
  <2>1. PICK n \in Nat : posted[t] \in [1..n -> Delay]
    BY <1>1, SeqDef
  <2>2. posted[t] \in [1..n -> Nat]
    BY <2>1, DelayAssumption
  <2>3. QED BY <2>2, SeqDef
<1>3. posted \in [Thread -> Seq(Nat)]
  BY <1>1, <1>2
<1>4. Delays(posted)
  BY <1>2 DEF Delays
<1>5. \A e \in m_events : e.ts \in Nat /\ e.uid \in Nat
  BY <1>1 DEF Event
<1>6. Keys(Foreign)
  BY <1>5 DEF Keys, Foreign
<1>7. QED BY <1>3, <1>4, <1>5, <1>6 DEF Inv, TypeInv, TypeOK, KeyInv, EventsAhead

LEMMA KeptOrder == ASSUME OrderInv, Inv', Kept PROVE OrderInv'
<1>1. NamedInv /\ m_uid \in Nat /\ \A e \in Foreign : e.uid < m_uid /\ e.uid \in Nat
  BY OrderTypes DEF OrderInv, Foreign
<1>2. NamedInv'
  <2>1. CASE m_uid' = m_uid /\ Named' \subseteq Named
    BY <1>1, <2>1 DEF Kept, NamedInv
  <2>2. CASE m_uid' = m_uid + 1 /\ Named' \subseteq Named \cup {m_uid}
    <3>1. ASSUME NEW u \in Named' PROVE u < m_uid'
      <4>1. CASE u = m_uid
        BY <1>1, <2>2, <4>1
      <4>2. CASE u \in Named
        <5>1. u < m_uid /\ u \in Nat
          BY <1>1, <4>2, NamedNat DEF NamedInv, OrderInv
        <5>2. QED BY <1>1, <2>2, <5>1
      <4>3. QED BY <2>2, <4>1, <4>2
    <3>2. ASSUME NEW e \in Foreign PROVE e.uid \notin Named'
      BY <1>1, <2>2 DEF NamedInv
    <3>3. QED BY <3>1, <3>2 DEF NamedInv, Kept
  <2>3. QED BY <2>1, <2>2 DEF Kept
<1>3. RanKnown(ran, posted)' /\ PostOrder'
  BY DEF OrderInv, Kept, PostOrder
<1>4. (pc # "gone" => Order(Foreign, ran, Way, posted, m_currentTs))'
  BY DEF OrderInv, Kept
<1>5. QED BY <1>2, <1>3, <1>4 DEF OrderInv, Kept

LEMMA PostKeepsOrder ==
  ASSUME OrderInv, Inv', NEW t \in Thread, NEW d \in Delay, Post(t, d) PROVE OrderInv'
<1> DEFINE N == Len(posted[t]) + 1
           x == [delay |-> d, of |-> <<t, N>>]
<1>1. /\ pc # "gone" /\ posted' = [posted EXCEPT ![t] = Append(posted[t], d)]
      /\ m_eventsWithContext' = Append(m_eventsWithContext, x)
      /\ taken' = taken /\ pc' = pc /\ ran' = ran /\ UNCHANGED <<sched, key, user>>
  BY DEF Post
<1>2. d \in Nat /\ posted \in [Thread -> Seq(Nat)]
  BY DelayAssumption, OrderTypes DEF OrderInv
<1>3. More(posted, posted', t, N, d)
  BY <1>1, <1>2, PostsMore
<1>4. x.of = <<t, N>> /\ x.delay = d
  OBVIOUS
<1> HIDE DEF x, N
<1>5. Longer(Way, Way', x)
  <2>1. taken \in Seq(Handed) /\ m_eventsWithContext \in Seq(Handed)
    BY OrderTypes DEF OrderInv
  <2> DEFINE a == taken
             b == m_eventsWithContext
             c == Append(b, x)
  <2>2. Len(a) \in Nat /\ Len(b) \in Nat /\ Len(c) = Len(b) + 1 /\ c[Len(b) + 1] = x
        /\ \A i \in 1..Len(b) : c[i] = b[i]
    BY <2>1
  <2>3. c \in Seq(Handed \cup {x}) /\ a \in Seq(Handed \cup {x})
    BY <2>1
  <2>4. /\ Len(a \o b) = Len(a) + Len(b)
        /\ \A i \in 1..(Len(a) + Len(b)) : (a \o b)[i] = IF i <= Len(a) THEN a[i] ELSE b[i - Len(a)]
    BY <2>1, ConcatProperties
  <2>5. /\ Len(a \o c) = Len(a) + Len(c)
        /\ \A i \in 1..(Len(a) + Len(c)) : (a \o c)[i] = IF i <= Len(a) THEN a[i] ELSE c[i - Len(a)]
    BY <2>3, ConcatProperties
  <2>6. Way = a \o b /\ Way' = a \o c
    BY <1>1 DEF Way
  <2> HIDE DEF a, b, c
  <2> DEFINE w == a \o b
             v == a \o c
  <2> HIDE DEF w, v
  <2>7. Longer(w, v, x)
    <3>1. Len(w) = Len(a) + Len(b) /\ Len(v) = Len(w) + 1
      BY <2>2, <2>4, <2>5 DEF w, v
    <3>2. v[Len(w) + 1] = x
      <4>1. (a \o c)[Len(a) + Len(b) + 1] = c[Len(b) + 1]
        BY <2>2, <2>5
      <4>2. QED BY <2>2, <3>1, <4>1 DEF v
    <3>3. \A i \in 1..Len(w) : v[i] = w[i]
      BY <2>2, <2>4, <2>5, <3>1 DEF w, v
    <3>4. QED BY <2>2, <3>1, <3>2, <3>3 DEF Longer
  <2>8. QED BY <2>6, <2>7 DEF w, v
<1>6. Order(Foreign, ran, Way, posted, m_currentTs) /\ RanKnown(ran, posted) /\ PostOrder
  BY <1>1 DEF OrderInv
<1>7. Order(Foreign, ran, Way', posted', m_currentTs) /\ RanKnown(ran, posted')
  BY <1>3, <1>4, <1>5, <1>6, OrderPost
<1>8. m_events' = m_events /\ m_currentTs' = m_currentTs /\ m_uid' = m_uid /\ cancelled' = cancelled
      /\ ids' = ids /\ m_destroyEvents' = m_destroyEvents
  BY <1>1 DEF sched, key, user
<1>9. Foreign' = Foreign /\ Named' = Named
  BY <1>8 DEF Foreign, Named, Members
<1>10. NamedInv' /\ TakenInv'
  BY <1>1, <1>8, <1>9 DEF OrderInv, NamedInv, TakenInv
<1>11. PostOrder'
  <2> SUFFICES ASSUME NEW s \in Thread, NEW n \in DOMAIN posted'[s], NEW k \in 1..(n - 1),
                      posted'[s][k] <= posted'[s][n], <<s, n>> \in ran
               PROVE  <<s, k>> \in ran
    BY <1>1 DEF PostOrder
  <2>1. n \in 1..Len(posted[s]) /\ Len(posted[s]) \in Nat /\ DOMAIN posted[s] = 1..Len(posted[s])
    BY <1>2, <1>6 DEF RanKnown
  <2>2. posted'[s][n] = posted[s][n] /\ posted'[s][k] = posted[s][k]
    BY <1>3, <2>1 DEF More
  <2>3. QED BY <1>6, <2>1, <2>2 DEF PostOrder
<1>12. QED BY <1>1, <1>7, <1>8, <1>9, <1>10, <1>11 DEF OrderInv

LEMMA MoveKeepsOrder == ASSUME OrderInv, Inv', Move PROVE OrderInv'
<1> DEFINE x == Head(taken)
           g == [ts |-> m_currentTs + x.delay, uid |-> m_uid, of |-> x.of]
<1>1. /\ pc = "move" /\ pc' = pc /\ taken # <<>> /\ taken' = Tail(taken)
      /\ m_eventsWithContext' = m_eventsWithContext
      /\ m_events' = m_events \cup {g} /\ m_uid' = m_uid + 1
      /\ m_currentTs' = m_currentTs /\ cancelled' = cancelled /\ ids' = ids
      /\ m_destroyEvents' = m_destroyEvents /\ ran' = ran /\ posted' = posted
  BY DEF Move, Insert, key, user, hand, hist
<1>2. /\ Delays(posted) /\ Keys(Foreign) /\ m_currentTs \in Nat /\ m_uid \in Nat
      /\ taken \in Seq(Handed) /\ m_eventsWithContext \in Seq(Handed)
      /\ \A e \in Foreign : e.uid < m_uid
  BY OrderTypes DEF OrderInv, Foreign
<1>3. Order(Foreign, ran, Way, posted, m_currentTs) /\ NamedInv
  BY <1>1 DEF OrderInv
<1>4. Shorter(Way, Way') /\ Way[1] = x
  <2> DEFINE a == taken
             b == m_eventsWithContext
             c == Tail(taken)
             w == a \o b
             v == c \o b
  <2>1. /\ Len(a) \in Nat /\ Len(a) > 0 /\ Len(b) \in Nat /\ c \in Seq(Handed)
        /\ Len(c) = Len(a) - 1 /\ x = a[1] /\ \A i \in 1..Len(c) : c[i] = a[i + 1]
    BY <1>1, <1>2
  <2>2. /\ Len(w) = Len(a) + Len(b)
        /\ \A i \in 1..(Len(a) + Len(b)) : w[i] = IF i <= Len(a) THEN a[i] ELSE b[i - Len(a)]
    BY <1>2, ConcatProperties
  <2>3. /\ Len(v) = Len(c) + Len(b)
        /\ \A i \in 1..(Len(c) + Len(b)) : v[i] = IF i <= Len(c) THEN c[i] ELSE b[i - Len(c)]
    BY <1>2, <2>1, ConcatProperties
  <2>4. Way = w /\ Way' = v
    BY <1>1 DEF Way
  <2> HIDE DEF a, b, c, w, v, x
  <2>5. Len(w) \in Nat /\ Len(w) > 0 /\ Len(v) = Len(w) - 1 /\ w[1] = x
    BY <2>1, <2>2, <2>3
  <2>6. ASSUME NEW i \in 1..Len(v) PROVE v[i] = w[i + 1]
    <3>1. i \in Nat /\ i + 1 \in 1..Len(w) /\ i \in 1..(Len(c) + Len(b))
          /\ i + 1 \in 1..(Len(a) + Len(b))
      BY <2>1, <2>2, <2>3, <2>5
    <3>2. CASE i <= Len(c)
      BY <2>1, <2>2, <2>3, <3>1, <3>2
    <3>3. CASE ~ i <= Len(c)
      <4>1. ~ (i + 1 <= Len(a)) /\ i - Len(c) = (i + 1) - Len(a)
        BY <2>1, <3>1, <3>3
      <4>2. v[i] = b[i - Len(c)] /\ w[i + 1] = b[(i + 1) - Len(a)]
        BY <2>2, <2>3, <3>1, <3>3, <4>1
      <4>3. QED BY <4>1, <4>2
    <3>4. QED BY <3>2, <3>3
  <2>7. QED BY <2>4, <2>5, <2>6 DEF Shorter
<1>5. /\ g.of = Way[1].of /\ g.ts = m_currentTs + Way[1].delay /\ g.uid = m_uid
  BY <1>4
<1>6. g.of # Main
  <2>1. 1 \in 1..Len(Way)
    BY <1>4 DEF Shorter
  <2>2. PICK t \in Thread : \E n \in 1..Len(posted[t]) : Way[1].of = <<t, n>>
    BY <1>3, <2>1 DEF Order, LineKnown
  <2>3. PICK n \in 1..Len(posted[t]) : Way[1].of = <<t, n>>
    BY <2>2
  <2>4. n # 0
    BY <1>2 DEF Delays
  <2>5. QED BY <1>5, <2>3, <2>4, PairsEqual DEF Main
<1> HIDE DEF g
<1>7. Foreign' = Foreign \cup {g}
  BY <1>1, <1>6 DEF Foreign
<1>8. Order(Foreign \cup {g}, ran, Way', posted, m_currentTs)
  BY <1>2, <1>3, <1>4, <1>5, OrderMove
<1>9. Named' = Named
  BY <1>1 DEF Named, Members
<1>10. NamedInv'
  <2>1. \A u \in Named : u < m_uid /\ u \in Nat
    BY <1>3, NamedNat DEF NamedInv, OrderInv
  <2>2. \A u \in Named : u < m_uid'
    BY <1>1, <1>2, <2>1
  <2>3. g.uid \notin Named
    BY <1>2, <1>5, <2>1
  <2>4. QED BY <1>3, <1>7, <1>9, <2>2, <2>3 DEF NamedInv
<1>11. TakenInv' /\ PostOrder' /\ RanKnown(ran, posted)'
  BY <1>1 DEF TakenInv, PostOrder, OrderInv
<1>12. QED BY <1>1, <1>7, <1>8, <1>10, <1>11 DEF OrderInv

LEMMA ProcessKeepsOrder == ASSUME OrderInv, Inv', ProcessOneEvent PROVE OrderInv'
<1>1. /\ Delays(posted) /\ Keys(Foreign) /\ m_currentTs \in Nat
      /\ \A e \in m_events : e.ts \in Nat /\ e.uid \in Nat
      /\ \A t \in Thread : DOMAIN posted[t] = 1..Len(posted[t])
  BY OrderTypes DEF OrderInv
<1>2. /\ pc = "loop" /\ m_uid' = m_uid /\ cancelled' = cancelled /\ ids' = ids
      /\ m_destroyEvents' = m_destroyEvents /\ taken' = taken /\ posted' = posted
      /\ m_eventsWithContext' = m_eventsWithContext /\ pc' # "move"
  BY DEF ProcessOneEvent, user, hand
<1>3. PICK e \in m_events :
        /\ \A f \in m_events \ {e} : Before(e, f)
        /\ m_events' = m_events \ {e} /\ m_currentTs' = e.ts
        /\ ran' = IF e.of = Main \/ e.uid \in cancelled THEN ran ELSE ran \cup {e.of}
  BY DEF ProcessOneEvent
<1>4. m_currentTs <= e.ts /\ e.ts \in Nat
  BY <1>1 DEF OrderInv, Inv, KeyInv, EventsAhead
<1>5. Order(Foreign, ran, Way, posted, m_currentTs) /\ RanKnown(ran, posted) /\ PostOrder
      /\ NamedInv /\ TakenInv
  BY <1>2 DEF OrderInv
<1>6. Way' = Way /\ Named' = Named
  BY <1>2 DEF Way, Named, Members
<1>7. NamedInv' /\ TakenInv'
  BY <1>2, <1>3, <1>5, <1>6 DEF NamedInv, TakenInv, Foreign
<1>8. CASE e.of = Main
  <2>1. Foreign' = Foreign /\ ran' = ran
    BY <1>3, <1>8 DEF Foreign
  <2>2. Order(Foreign, ran, Way, posted, e.ts)
    BY <1>1, <1>4, <1>5, OrderLater
  <2>3. PostOrder' /\ RanKnown(ran, posted)'
    BY <1>2, <1>5, <2>1 DEF PostOrder
  <2>4. QED BY <1>2, <1>3, <1>6, <1>7, <2>1, <2>2, <2>3 DEF OrderInv
<1>9. CASE e.of # Main
  <2>1. e \in Foreign /\ Foreign' = Foreign \ {e} /\ \A f \in Foreign \ {e} : Before(e, f)
    BY <1>3, <1>9 DEF Foreign
  <2>2. e.uid \notin cancelled
    BY <1>5, <2>1 DEF NamedInv, Named
  <2>3. ran' = ran \cup {e.of}
    BY <1>3, <1>9, <2>2
  <2>4. \A t \in Thread : \A n \in DOMAIN posted[t] : \A k \in 1..(n - 1) :
          posted[t][k] <= posted[t][n] /\ <<t, n>> \in ran => <<t, k>> \in ran
    BY <1>5 DEF PostOrder
  <2>5. /\ Order(Foreign \ {e}, ran \cup {e.of}, Way, posted, e.ts)
        /\ RanKnown(ran \cup {e.of}, posted)
        /\ \A t \in Thread : \A n \in DOMAIN posted[t] : \A k \in 1..(n - 1) :
             posted[t][k] <= posted[t][n] /\ <<t, n>> \in ran \cup {e.of}
               => <<t, k>> \in ran \cup {e.of}
    BY <1>1, <1>4, <1>5, <2>1, <2>4, OrderRun
  <2>6. PostOrder' /\ RanKnown(ran, posted)'
    BY <1>2, <2>3, <2>5 DEF PostOrder
  <2>7. QED BY <1>2, <1>3, <1>6, <1>7, <2>1, <2>3, <2>5, <2>6 DEF OrderInv
<1>10. QED BY <1>8, <1>9

LEMMA DisposeKeepsOrder == ASSUME OrderInv, Inv', DoDispose PROVE OrderInv'
<1>1. /\ pc' = "gone" /\ pc = "destroy" /\ m_events' = {} /\ m_uid' = m_uid /\ taken' = taken
      /\ cancelled' = cancelled /\ ids' = ids /\ m_destroyEvents' = m_destroyEvents
      /\ ran' = ran /\ posted' = posted
  BY DEF DoDispose, user, hist
<1>2. Foreign' = {} /\ Named' = Named
  BY <1>1 DEF Foreign, Named, Members
<1>3. NamedInv' /\ TakenInv' /\ PostOrder' /\ RanKnown(ran, posted)'
  BY <1>1, <1>2 DEF OrderInv, NamedInv, TakenInv, PostOrder
<1>4. QED BY <1>1, <1>3 DEF OrderInv

LEMMA InitOrder == Init => OrderInv
<1> SUFFICES ASSUME Init PROVE OrderInv OBVIOUS
<1>1. /\ m_events = {} /\ cancelled = {} /\ ids = {} /\ m_destroyEvents = <<>> /\ ran = {}
      /\ taken = <<>> /\ m_eventsWithContext = <<>> /\ \A t \in Thread : posted[t] = <<>>
  BY DEF Init
<1>2. Foreign = {} /\ Named = {}
  BY <1>1 DEF Foreign, Named, Members
<1>3. Len(Way) = 0 /\ \A t \in Thread : Len(posted[t]) = 0 /\ DOMAIN posted[t] = {}
  BY <1>1 DEF Way
<1>4. RanKnown(ran, posted) /\ PostOrder
  BY <1>1, <1>3 DEF RanKnown, PostOrder
<1>5. ForeignKnown(Foreign, posted, m_currentTs) /\ ForeignSorted(Foreign, posted)
  BY <1>2 DEF ForeignKnown, ForeignSorted
<1>6. LineKnown(Way, posted) /\ LineSorted(Way)
  BY <1>3 DEF LineKnown, LineSorted
<1>7. NoneLost(Foreign, ran, Way, posted) /\ FirstInLine(Foreign, ran, Way, posted)
  BY <1>3 DEF NoneLost, FirstInLine
<1>8. QED BY <1>1, <1>2, <1>4, <1>5, <1>6, <1>7, InitInv DEF OrderInv, NamedInv, TakenInv, Order

\* Events of one thread run in the order of their posting, unless a later one is
\* due earlier: for every number of threads and every interleaving of their
\* posts with the loop of the main thread.
THEOREM PostsInOrder == Spec => []PostOrder
<1>1. OrderInv /\ [Next]_vars => OrderInv'
  <2> SUFFICES ASSUME OrderInv, [Next]_vars PROVE OrderInv' OBVIOUS
  <2>1. Inv'
    BY NextInv DEF OrderInv
  <2>2. QED BY <2>1, OrderKinds, KeptOrder, PostKeepsOrder, MoveKeepsOrder, ProcessKeepsOrder,
               DisposeKeepsOrder
<1>2. OrderInv => PostOrder
  BY DEF OrderInv
<1>3. QED BY <1>1, <1>2, InitOrder, PTL DEF Spec
=============================================================================
