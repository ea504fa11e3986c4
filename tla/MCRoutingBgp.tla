---------------------------- MODULE MCRoutingBgp -----------------------------
(* The network of MCRouting with BGP; no link fails.                          *)
EXTENDS RoutingBgp

MCWire == {<<1, 4>>, <<1, 5>>, <<2, 6>>, <<4, 5>>, <<5, 6>>, <<6, 7>>, <<4, 7>>}
MCQp   == {[src |-> 1, dst |-> 2, hash |-> 1]}
=============================================================================
