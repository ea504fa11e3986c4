------------------------------- MODULE MCQbbNic -------------------------------
(* Small instances of QbbNic for TLC. *)
EXTENDS QbbNic

\* Queue pair 1 shares its priority with the ACKs, queue pair 2 does not.
MCpg == [q \in QP |-> IF q = 1 THEN 3 ELSE 4]
=============================================================================
