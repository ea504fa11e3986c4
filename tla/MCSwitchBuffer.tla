---------------------------- MODULE MCSwitchBuffer ----------------------------
(* Small instances of SwitchBuffer for TLC. *)
EXTENDS SwitchBuffer, TLC

MCHeadroom == [p \in Port |-> 2]
MCShift    == [p \in Port |-> p - 1]   \* a different threshold at each port
MCSymmetry == Permutations(PktId)
=============================================================================
