------------------------------ MODULE Simulator ------------------------------
(***************************************************************************)
(* The event loop of ns-3 (DefaultSimulatorImpl) on which every device and *)
(* timer of the network runs, with the threads that hand it events.        *)
(*                                                                         *)
(* One thread, the main thread, calls Run; the code of an event runs on it *)
(* and may schedule, cancel and remove events and stop the simulator.  Any *)
(* other thread may only call ScheduleWithContext, which leaves the event  *)
(* in a list under a mutex; the main thread looks at a flag, without the   *)
(* mutex, and fetches the list between two events.  A critical section is  *)
(* one step.  The unlocked look at the flag is a step of its own, before   *)
(* the one that takes the list: whatever an unsynchronised read may miss,  *)
(* it could also have missed by coming before the other thread's step.     *)
(*                                                                         *)
(* m_events is the scheduler (MapScheduler by default): a set of events    *)
(* from which the one with the least key is taken.  The scheduler's own    *)
(* data structures are left out (HeapScheduler models one of them).        *)
(***************************************************************************)
EXTENDS Integers, Sequences, FiniteSets

CONSTANTS
  Delay,     \* the delays events are scheduled with, in time steps
  Thread,    \* the threads other than the main one
  Posts,     \* bound: events each of them hands over
  UidBound   \* bound: the program schedules while m_uid is below it; the 32
             \* bits of m_uid never wrap

ASSUME DelayAssumption == Delay \subseteq Nat
ASSUME BoundAssumption == Posts \in Nat /\ UidBound \in Nat

VALID == 4   \* EventId::UID::VALID, the first uid of an event

VARIABLES
  m_events,                  \* the events in the scheduler
  m_uid,                     \* the uid of the next event
  m_currentTs, m_currentUid, \* the key of the event that runs, or ran last
  m_unscheduledEvents,
  m_stop,
  cancelled,                 \* the uids of the events with m_cancel
  ids,                       \* the EventIds that Schedule has returned
  m_destroyEvents,           \* the events of ScheduleDestroy, in order
  m_eventsWithContext,       \* what the other threads have handed over
  m_eventsWithContextEmpty,
  taken,                     \* eventsWithContext, local to ProcessEventsWithContext
  pc,                        \* where the main thread is
  posted,                    \* history: the delays of each thread's events
  ran                        \* history: the events of threads that were run

key      == <<m_currentTs, m_currentUid>>
hand     == <<m_eventsWithContext, m_eventsWithContextEmpty>>
sched    == <<m_events, m_uid, m_unscheduledEvents>>
user     == <<cancelled, ids, m_destroyEvents>>
hist     == <<posted, ran>>
vars     == <<sched, key, user, m_stop, hand, taken, pc, hist>>

\* Main is the origin of an event of the main thread, <<t, n>> of the nth event
\* thread t has handed over.
Main     == <<"main", 0>>
Origin   == {Main} \cup (Thread \X (1..Posts))
Event    == [ts : Nat, uid : Nat, of : Origin]
EventId  == [ts : Nat, uid : Nat]
Handed   == [delay : Delay, of : Origin]

\* EventKey::operator<
Before(a, b) == a.ts < b.ts \/ (a.ts = b.ts /\ a.uid < b.uid)

\* Where code of the program runs on the main thread: outside Run, in an event,
\* in an event of Destroy.
Coding == pc \in {"idle", "handler", "destroyer"}
-----------------------------------------------------------------------------
\* The insertion that Schedule, ScheduleWithContext on the main thread and
\* ProcessEventsWithContext have in common.
Insert(ts, of) ==
  /\ m_events' = m_events \cup {[ts |-> ts, uid |-> m_uid, of |-> of]}
  /\ m_uid' = m_uid + 1
  /\ m_unscheduledEvents' = m_unscheduledEvents + 1

\* DefaultSimulatorImpl::Schedule (and ScheduleNow, with delay 0)
Schedule(delay) ==
  /\ Coding
  /\ m_uid < UidBound
  /\ Insert(m_currentTs + delay, Main)
  /\ ids' = ids \cup {[ts |-> m_currentTs + delay, uid |-> m_uid]}
  /\ UNCHANGED <<key, cancelled, m_destroyEvents, m_stop, hand, taken, pc, hist>>

\* DefaultSimulatorImpl::ScheduleWithContext on the main thread: no EventId.
ScheduleWithContext(delay) ==
  /\ Coding
  /\ m_uid < UidBound
  /\ Insert(m_currentTs + delay, Main)
  /\ UNCHANGED <<key, user, m_stop, hand, taken, pc, hist>>

\* ScheduleWithContext on another thread.
Post(t, delay) ==
  /\ pc # "gone"
  /\ Len(posted[t]) < Posts
  /\ posted' = [posted EXCEPT ![t] = Append(@, delay)]
  /\ m_eventsWithContext' =
       Append(m_eventsWithContext, [delay |-> delay, of |-> <<t, Len(posted[t]) + 1>>])
  /\ m_eventsWithContextEmpty' = FALSE
  /\ UNCHANGED <<sched, key, user, m_stop, taken, pc, ran>>

\* ScheduleDestroy.  Every such EventId has the uid 2; m_uid, which is
\* incremented all the same, stands for the event itself.
ScheduleDestroy ==
  /\ Coding
  /\ m_uid < UidBound
  /\ m_destroyEvents' = Append(m_destroyEvents, m_uid)
  /\ m_uid' = m_uid + 1
  /\ UNCHANGED <<m_events, m_unscheduledEvents, key, cancelled, ids, m_stop, hand,
                 taken, pc, hist>>

\* Slip: the event that runs is not expired yet.
IsExpired_NotCurrent(id) ==
  \/ id.ts < m_currentTs
  \/ id.ts = m_currentTs /\ id.uid < m_currentUid
  \/ id.uid \in cancelled

\* IsExpired, for an event of the scheduler.
IsExpired(id) ==
  \/ id.ts < m_currentTs
  \/ id.ts = m_currentTs /\ id.uid <= m_currentUid
  \/ id.uid \in cancelled

\* Cancel: the event stays where it is.
Cancel(id) ==
  /\ Coding
  /\ ~ IsExpired(id)
  /\ cancelled' = cancelled \cup {id.uid}
  /\ UNCHANGED <<sched, key, ids, m_destroyEvents, m_stop, hand, taken, pc, hist>>

\* Slip: m_unscheduledEvents is forgotten.
Remove_NoCount(id) ==
  /\ Coding
  /\ ~ IsExpired(id)
  /\ m_events' = {e \in m_events : e.uid # id.uid}
  /\ cancelled' = cancelled \cup {id.uid}
  /\ UNCHANGED <<m_uid, m_unscheduledEvents, key, ids, m_destroyEvents, m_stop, hand,
                 taken, pc, hist>>

\* Remove
Remove(id) ==
  /\ Coding
  /\ ~ IsExpired(id)
  /\ m_events' = {e \in m_events : e.uid # id.uid}
  /\ cancelled' = cancelled \cup {id.uid}
  /\ m_unscheduledEvents' = m_unscheduledEvents - 1
  /\ UNCHANGED <<m_uid, key, ids, m_destroyEvents, m_stop, hand, taken, pc, hist>>

\* Cancel and Remove of an event of ScheduleDestroy; the first leaves it in
\* m_destroyEvents, the second takes it out.
CancelDestroy(u) ==
  /\ Coding
  /\ \E i \in DOMAIN m_destroyEvents : m_destroyEvents[i] = u
  /\ cancelled' = cancelled \cup {u}
  /\ UNCHANGED <<sched, key, ids, m_destroyEvents, m_stop, hand, taken, pc, hist>>

RemoveDestroy(u) ==
  /\ Coding
  /\ \E i \in 1..Len(m_destroyEvents) :
       /\ m_destroyEvents[i] = u
       /\ m_destroyEvents' = SubSeq(m_destroyEvents, 1, i - 1)
                             \o SubSeq(m_destroyEvents, i + 1, Len(m_destroyEvents))
  /\ UNCHANGED <<sched, key, cancelled, ids, m_stop, hand, taken, pc, hist>>

\* Stop
Stop ==
  /\ Coding
  /\ m_stop' = TRUE
  /\ UNCHANGED <<sched, key, user, hand, taken, pc, hist>>
-----------------------------------------------------------------------------
\* Run, up to the look at the flag in its ProcessEventsWithContext.  (Nothing
\* reads m_stop between that call and the assignment that follows it.)
Run ==
  /\ pc = "idle"
  /\ m_stop' = FALSE
  /\ pc' = "look"
  /\ UNCHANGED <<sched, key, user, hand, taken, hist>>

\* The loop of Run ends.
RunReturns ==
  /\ pc = "loop"
  /\ m_events = {} \/ m_stop
  /\ pc' = "idle"
  /\ UNCHANGED <<sched, key, user, m_stop, hand, taken, hist>>

\* ProcessOneEvent, up to the event's own code; Invoke skips that code when
\* the event is cancelled.
ProcessOneEvent ==
  /\ pc = "loop"
  /\ ~ m_stop
  /\ \E e \in m_events :
       /\ \A f \in m_events \ {e} : Before(e, f)
       /\ m_events' = m_events \ {e}
       /\ m_currentTs' = e.ts
       /\ m_currentUid' = e.uid
       /\ pc' = IF e.uid \in cancelled THEN "look" ELSE "handler"
       /\ ran' = IF e.of = Main \/ e.uid \in cancelled THEN ran ELSE ran \cup {e.of}
  /\ m_unscheduledEvents' = m_unscheduledEvents - 1
  /\ UNCHANGED <<m_uid, user, m_stop, hand, taken, posted>>

\* The code of the event returns.
HandlerReturns ==
  /\ pc = "handler"
  /\ pc' = "look"
  /\ UNCHANGED <<sched, key, user, m_stop, hand, taken, hist>>

\* ProcessEventsWithContext, the look at the flag ...
Look ==
  /\ pc = "look"
  /\ pc' = IF m_eventsWithContextEmpty THEN "loop" ELSE "swap"
  /\ UNCHANGED <<sched, key, user, m_stop, hand, taken, hist>>

\* Slip: the flag is not set again, or is set before the lock is taken.
Swap_FlagKept ==
  /\ pc = "swap"
  /\ taken' = m_eventsWithContext
  /\ m_eventsWithContext' = <<>>
  /\ pc' = "move"
  /\ UNCHANGED <<sched, key, user, m_stop, m_eventsWithContextEmpty, hist>>

\* ... the critical section that takes the list ...
Swap ==
  /\ pc = "swap"
  /\ taken' = m_eventsWithContext
  /\ m_eventsWithContext' = <<>>
  /\ m_eventsWithContextEmpty' = TRUE
  /\ pc' = "move"
  /\ UNCHANGED <<sched, key, user, m_stop, hist>>

\* Slip: the time of the event is not made absolute.
Move_Relative ==
  /\ pc = "move"
  /\ taken # <<>>
  /\ Insert(Head(taken).delay, Head(taken).of)
  /\ taken' = Tail(taken)
  /\ UNCHANGED <<key, user, m_stop, hand, pc, hist>>

\* Slip: the list is emptied from its back.
Move_FromBack ==
  /\ pc = "move"
  /\ taken # <<>>
  /\ Insert(m_currentTs + taken[Len(taken)].delay, taken[Len(taken)].of)
  /\ taken' = SubSeq(taken, 1, Len(taken) - 1)
  /\ UNCHANGED <<key, user, m_stop, hand, pc, hist>>

\* ... and the loop that schedules what it took.
Move ==
  /\ pc = "move"
  /\ taken # <<>>
  /\ Insert(m_currentTs + Head(taken).delay, Head(taken).of)
  /\ taken' = Tail(taken)
  /\ UNCHANGED <<key, user, m_stop, hand, pc, hist>>

\* Slip: the flag is set after the list was taken, outside the lock.
Moved_SetsFlag ==
  /\ pc = "move"
  /\ taken = <<>>
  /\ m_eventsWithContextEmpty' = TRUE
  /\ pc' = "loop"
  /\ UNCHANGED <<sched, key, user, m_stop, m_eventsWithContext, taken, hist>>

Moved ==
  /\ pc = "move"
  /\ taken = <<>>
  /\ pc' = "loop"
  /\ UNCHANGED <<sched, key, user, m_stop, hand, taken, hist>>

\* Destroy, one event at a time, and DoDispose, which drops what is left.
Destroy ==
  /\ pc = "idle"
  /\ pc' = "destroy"
  /\ UNCHANGED <<sched, key, user, m_stop, hand, taken, hist>>

DestroyNext ==
  /\ pc = "destroy"
  /\ m_destroyEvents # <<>>
  /\ m_destroyEvents' = Tail(m_destroyEvents)
  /\ pc' = IF Head(m_destroyEvents) \in cancelled THEN "destroy" ELSE "destroyer"
  /\ UNCHANGED <<sched, key, cancelled, ids, m_stop, hand, taken, hist>>

DestroyerReturns ==
  /\ pc = "destroyer"
  /\ pc' = "destroy"
  /\ UNCHANGED <<sched, key, user, m_stop, hand, taken, hist>>

DoDispose ==
  /\ pc = "destroy"
  /\ m_destroyEvents = <<>>
  /\ m_events' = {}
  /\ m_eventsWithContext' = <<>>
  /\ m_eventsWithContextEmpty' = TRUE
  /\ pc' = "gone"
  /\ UNCHANGED <<m_uid, m_unscheduledEvents, key, user, m_stop, taken, hist>>
-----------------------------------------------------------------------------
Init ==
  /\ m_events = {}
  /\ m_uid = VALID
  /\ m_currentTs = 0
  /\ m_currentUid = 0
  /\ m_unscheduledEvents = 0
  /\ m_stop = FALSE
  /\ cancelled = {}
  /\ ids = {}
  /\ m_destroyEvents = <<>>
  /\ m_eventsWithContext = <<>>
  /\ m_eventsWithContextEmpty = TRUE
  /\ taken = <<>>
  /\ pc = "idle"
  /\ posted = [t \in Thread |-> <<>>]
  /\ ran = {}

\* What the code of the program does on the main thread.
Code ==
  \/ \E delay \in Delay : Schedule(delay) \/ ScheduleWithContext(delay)
  \/ ScheduleDestroy
  \/ \E id \in ids : Cancel(id) \/ Remove(id)
  \/ \E u \in VALID..m_uid : CancelDestroy(u) \/ RemoveDestroy(u)
  \/ Stop

\* What the simulator does by itself once Run or Destroy is called.
Loop ==
  \/ RunReturns \/ ProcessOneEvent \/ HandlerReturns
  \/ Look \/ Swap \/ Move \/ Moved
  \/ DestroyNext \/ DestroyerReturns \/ DoDispose

Next ==
  \/ Code
  \/ \E t \in Thread, delay \in Delay : Post(t, delay)
  \/ Run \/ Destroy
  \/ Loop

Spec == Init /\ [][Next]_vars

\* The main thread goes on, and the code of an event returns.
FairSpec == Spec /\ WF_vars(Loop)
-----------------------------------------------------------------------------
TypeOK ==
  /\ m_events \subseteq Event
  /\ m_uid \in Nat /\ m_currentTs \in Nat /\ m_currentUid \in Nat
  /\ m_unscheduledEvents \in Int
  /\ m_stop \in BOOLEAN
  /\ cancelled \subseteq Nat
  /\ ids \subseteq EventId
  /\ m_destroyEvents \in Seq(Nat)
  /\ m_eventsWithContext \in Seq(Handed)
  /\ m_eventsWithContextEmpty \in BOOLEAN
  /\ taken \in Seq(Handed)
  /\ pc \in {"idle", "look", "swap", "move", "loop", "handler", "destroy",
             "destroyer", "gone"}

\* Remove hands the scheduler an event it has: an EventId that IsExpired does
\* not report is in the scheduler.  (The schedulers assert it: NS_ASSERT(false)
\* after the search.)  And an event that is in the scheduler and not cancelled
\* is not reported as expired, so that Cancel and Remove do reach it.
ExpiredIsExact ==
  pc # "gone" => \A id \in ids :
    IsExpired(id) <=> id.uid \in cancelled \/ ~ \E e \in m_events : e.uid = id.uid /\ e.ts = id.ts

\* "make a consistency test to check that we didn't lose any events along the
\* way" (Run): m_unscheduledEvents is the number of events in the scheduler,
\* through cancellations, removals and the hand-over from other threads.
UnscheduledIsExact == pc # "gone" => m_unscheduledEvents = Cardinality(m_events)

\* The flag that the main thread reads without the mutex says whether the list
\* is empty: an event handed over is never left behind a flag that says "empty".
FlagIsExact == m_eventsWithContextEmpty <=> m_eventsWithContext = <<>>

\* Time never goes back ("NS_ASSERT(next.key.m_ts >= m_currentTs)"), and events
\* of the same time are run in the order they were scheduled in, whichever
\* thread they come from: the keys of the events run are strictly increasing.
KeysIncrease ==
  [][key' # key => Before([ts |-> m_currentTs, uid |-> m_currentUid],
                          [ts |-> m_currentTs', uid |-> m_currentUid'])]_vars

\* Two events of one thread, the second not due before the first: the second
\* never runs first, although each is only given its time when it is moved.
PostOrder ==
  \A t \in Thread : \A n \in DOMAIN posted[t] : \A k \in 1..(n - 1) :
    posted[t][k] <= posted[t][n] /\ <<t, n>> \in ran => <<t, k>> \in ran

\* What a thread hands over is run, at whatever moment of the loop it arrives.
\* Run may return without having looked at the list again, because of Stop or
\* because the scheduler is empty; then the next Run finds the event.  So the
\* claim is about a program that calls Run again and again.
HandedOverRuns ==
  []<><<Run>>_vars =>
    \A t \in Thread, n \in 1..Posts : n \in DOMAIN posted[t] ~> <<t, n>> \in ran
=============================================================================
