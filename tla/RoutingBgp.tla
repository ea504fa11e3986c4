----------------------------- MODULE RoutingBgp ------------------------------
(***************************************************************************)
(* Routing with the protocol "bgp": the static tables are installed first, *)
(* a BGP speaker runs on every node, and RdmaBgpBridge copies its routing  *)
(* information base into m_rtTable whenever it has changed.                *)
(*                                                                         *)
(* The speakers and their sessions are libbgp's, which is not part of the  *)
(* repository: Learn lets a node take a neighbour's route at any time.     *)
(***************************************************************************)
EXTENDS Routing

VARIABLES
  rib,             \* rib[n]: the next hop of each prefix (a host) that n knows
  m_lastSnapshot   \* what the bridge of n has copied last

bgpVars == <<rib, m_lastSnapshot>>

NoPrefix == [h \in {} |-> 0]

\* "Hosts originate their own prefix": Bgp::AddRoute puts it into the RIB.
InitBgp ==
  /\ Init
  /\ rib = [n \in Node |-> IF n \in Host THEN [h \in {n} |-> n] ELSE NoPrefix]
  /\ m_lastSnapshot = [n \in Node |-> NoPrefix]

\* libbgp: an UPDATE of the neighbour m brings a prefix that n does not have.
Learn(n, m, h) ==
  /\ <<m, n>> \in up
  /\ h \in DOMAIN rib[m] \ DOMAIN rib[n]
  /\ rib' = [rib EXCEPT ![n] = [p \in DOMAIN rib[n] \cup {h} |->
                                  IF p = h THEN m ELSE rib[n][p]]]
  /\ UNCHANGED <<vars, m_lastSnapshot>>

\* resolveNexthopToInterface: the address of a neighbour is in the subnet of the
\* link to it, the node's own address in that of its interface 1.
Resolve(n, m) ==
  IF m # n THEN m
  ELSE CHOOSE k \in Node : /\ <<n, k>> \in BothWays
                           /\ \A j \in Node : <<n, j>> \in BothWays => k <= j

\* RdmaBgpBridge::SyncRoutes: a table that is behind is cleared and filled
\* again, one next hop per prefix.
SyncRoutes(n) ==
  /\ ~ aborted
  /\ rib[n] # m_lastSnapshot[n]
  /\ rtTable' = [rtTable EXCEPT ![n] =
                   [h \in Host |-> IF h \in DOMAIN rib[n] THEN <<Resolve(n, rib[n][h])>> ELSE <<>>]]
  /\ m_lastSnapshot' = [m_lastSnapshot EXCEPT ![n] = rib[n]]
  /\ UNCHANGED <<up, nextHop, status, qpGrp, net, aborted, rib>>

NextBgp ==
  \/ Next /\ UNCHANGED bgpVars
  \/ \E n \in Node : \/ SyncRoutes(n)
                     \/ \E m \in Node, h \in Host : Learn(n, m, h)

SpecBgp == InitBgp /\ [][NextBgp]_<<vars, bgpVars>>
-----------------------------------------------------------------------------
Converged == \A n \in Node : DOMAIN rib[n] = Host

\* "Install static routes first (immediate RDMA forwarding); BGP will overwrite
\* them once sessions converge" (network_setup.h): until then every node keeps
\* a route to every host that the links left can reach.
StaticUntilConverged ==
  ~ Converged /\ ~ aborted =>
    \A n \in Node : \A h \in Host \ {n} : Reaches(n, h) => rtTable[n][h] # <<>>
=============================================================================
