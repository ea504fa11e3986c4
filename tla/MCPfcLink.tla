------------------------------ MODULE MCPfcLink ------------------------------
(* Two hosts behind one switch, each with a flow to the other. *)
EXTENDS PfcLink

CONSTANTS h1, h2

MCHeadroom == [p \in Port |-> 4]
MCShift    == [p \in Port |-> 0]
MCDuplex   == {<<h1, h2>>, <<h2, h1>>}
MCPackets  == [p \in Port |-> 2]
MCSymmetry == Permutations(Port)
=============================================================================
