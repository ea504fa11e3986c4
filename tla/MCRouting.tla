------------------------------ MODULE MCRouting ------------------------------
(* A ring of four switches; host 1 has a NIC at 4 and one at 5, host 2 has    *)
(* its only one at 6, so that it can be cut off.                              *)
EXTENDS Routing

MCWire == {<<1, 4>>, <<1, 5>>, <<2, 6>>, <<4, 5>>, <<5, 6>>, <<6, 7>>, <<4, 7>>}
MCQp   == {[src |-> 1, dst |-> 2, hash |-> 1], [src |-> 2, dst |-> 1, hash |-> 0]}
=============================================================================
