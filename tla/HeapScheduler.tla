---------------------------- MODULE HeapScheduler ----------------------------
(***************************************************************************)
(* The binary heap that keeps the events of the simulator when             *)
(* ns3::HeapScheduler is selected.  An event is its key: a number in place *)
(* of <<m_ts, m_uid>>, whose order is total.  m_heap starts at index 1 as  *)
(* in the code, where element 0 is wasted on purpose.                      *)
(***************************************************************************)
EXTENDS Naturals, Sequences

CONSTANTS Key   \* the keys of events, natural numbers; the heap holds each at most once

VARIABLES
  m_heap,  \* the array
  last     \* the key that RemoveNext returned last: the present of the simulator

vars == <<m_heap, last>>

Exch(h, a, b) == [h EXCEPT ![a] = h[b], ![b] = h[a]]
Smallest(h, a, b) == IF h[a] < h[b] THEN a ELSE b
PopBack(h) == SubSeq(h, 1, Len(h) - 1)

\* BottomUp: the event at index rises while it is before its parent.
RECURSIVE BottomUp(_, _)
BottomUp(h, index) ==
  IF index # 1 /\ h[index] < h[index \div 2]
  THEN BottomUp(Exch(h, index, index \div 2), index \div 2)
  ELSE h

\* TopDown: the event at index sinks while it is not before its smaller child.
RECURSIVE TopDown(_, _)
TopDown(h, index) ==
  LET left  == 2 * index
      right == left + 1
      child == IF right <= Len(h) THEN Smallest(h, left, right) ELSE left
  IN  IF left > Len(h) \/ h[index] < h[child] THEN h
      ELSE TopDown(Exch(h, index, child), child)
-----------------------------------------------------------------------------
\* Insert: the simulator never schedules before its present.
Insert(k) ==
  /\ k > last
  /\ \A i \in DOMAIN m_heap : m_heap[i] # k
  /\ m_heap' = BottomUp(Append(m_heap, k), Len(m_heap) + 1)
  /\ UNCHANGED last

\* RemoveNext: the root leaves, the last event takes its place and sinks.
RemoveNext ==
  /\ m_heap # <<>>
  /\ last' = m_heap[1]
  /\ m_heap' = TopDown(PopBack(Exch(m_heap, 1, Len(m_heap))), 1)

\* Remove: the last event takes the place of the one at index i and sinks.
Remove(i) ==
  /\ i \in DOMAIN m_heap
  /\ m_heap' = TopDown(PopBack(Exch(m_heap, i, Len(m_heap))), i)
  /\ UNCHANGED last

Init == m_heap = <<>> /\ last = 0

Next == \/ \E k \in Key : Insert(k)
        \/ RemoveNext
        \/ \E i \in DOMAIN m_heap : Remove(i)

Spec == Init /\ [][Next]_vars
-----------------------------------------------------------------------------
\* What PeekNext and RemoveNext return, the root, is "the next earliest event"
\* (scheduler.h): no event in the heap is before it.
NextIsEarliest == \A i \in DOMAIN m_heap : m_heap[1] <= m_heap[i]
=============================================================================
