--------------------------- MODULE ReliableTransfer ---------------------------
(***************************************************************************)
(* What a queue pair promises to the application: m_notifyAppFinish is     *)
(* called at most once, and only when the receiver holds every byte.  The  *)
(* receiver takes bytes in order; until the flow is finished it may throw  *)
(* some away again (go-back-zero).                                         *)
(***************************************************************************)
EXTENDS Integers

CONSTANT m_size

VARIABLES held, finished

Init == held = 0 /\ finished = FALSE

\* The receiver accepts or discards bytes.
Move == /\ ~ finished
        /\ held' \in 0..m_size
        /\ UNCHANGED finished

\* The sender learns that everything has arrived.
Finish == /\ ~ finished
          /\ held = m_size
          /\ finished' = TRUE
          /\ UNCHANGED held

Next == Move \/ Finish

Spec == Init /\ [][Next]_<<held, finished>>
=============================================================================
