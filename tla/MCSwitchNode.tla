----------------------------- MODULE MCSwitchNode -----------------------------
(* A small instance of SwitchNode for TLC: two input devices compete for one *)
(* output device, whose link may fail.                                       *)
EXTENDS SwitchNode

CONSTANTS in1, in2, out

MCHeadroom == [p \in Port |-> 2]
MCShift    == [p \in Port |-> 0]
MCIncast   == {<<in1, out>>, <<in2, out>>}
MCSymmetry == Permutations({in1, in2})
=============================================================================
