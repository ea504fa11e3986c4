------------------------------- MODULE Routing -------------------------------
(***************************************************************************)
(* Static routes and their repair: the breadth-first search that computes  *)
(* them (CalculateRoute), the tables of the switches and hosts, the NIC    *)
(* that each queue pair is given, and TakeDownLink, which rebuilds all of  *)
(* it in one event while packets of the old routes are under way.          *)
(*                                                                         *)
(* A node is a number; an interface is named by the neighbour behind it.   *)
(* Node numbers stand for the order of the Ptr<Node> keys in the maps.     *)
(* A packet under way is in the queue of a device or on the wire behind    *)
(* it; what devices do in between is the subject of SwitchNode and QbbNic. *)
(***************************************************************************)
EXTENDS Integers, Sequences, FiniteSets, SequencesExt

CONSTANTS
  Host, Switch,   \* the nodes of type 0 and of type 1
  Wire,           \* the links, as pairs <<a, b>> with a < b
  Qp,             \* the queue pairs, as records [src, dst, hash]
  PktId,          \* bound: packets under way at the same time
  Fails           \* bound: links taken down

Node == Host \cup Switch

ASSUME NodeAssumption == /\ Node \subseteq Nat /\ IsFiniteSet(Node)
                         /\ Host \cap Switch = {}
ASSUME WireAssumption == Wire \subseteq {w \in Node \X Node : w[1] < w[2]}
ASSUME QpAssumption   == \A f \in Qp : /\ f.src \in Host /\ f.dst \in Host /\ f.src # f.dst
                                       /\ f.hash \in Nat

VARIABLES
  up,       \* the pairs <<a, b>> with nbr2if[a][b].up
  nextHop,  \* nextHop[n][h]: the next hops of n towards host h, in search order
  rtTable,  \* rtTable[n][h]: m_rtTable of SwitchNode and of RdmaHw
  status,   \* of each queue pair: "new", "live" (in m_qpMap) or "done"
  qpGrp,    \* qpGrp[h][n]: the queue pairs of the NIC of h behind which n is
  net,      \* net[i]: packet i is between from and to, or None
  aborted   \* "We assume at least one NIC is alive" has failed

vars == <<up, nextHop, rtTable, status, qpGrp, net, aborted>>

None     == [qp |-> "none"]
NoRoutes == [n \in Node |-> [h \in Host |-> <<>>]]
-----------------------------------------------------------------------------
\* The elements of S in the order in which an iterator of a map meets them.
InOrder(S) ==
  [p \in 1..Cardinality(S) |-> CHOOSE n \in S : Cardinality({m \in S : m <= n}) = p]

\* Slip: hosts forward as well.
Expand_ThroughHosts(links, s, now) ==
  LET nbrs == {n \in Node : <<now, n>> \in links}
      new  == nbrs \ DOMAIN s.dis
      d    == s.dis[now] + 1
      dis  == [n \in DOMAIN s.dis \cup new |-> IF n \in new THEN d ELSE s.dis[n]]
  IN  [q    |-> s.q \o InOrder(new),
       dis  |-> dis,
       hops |-> [n \in Node |-> IF n \in nbrs /\ dis[n] = d THEN Append(s.hops[n], now)
                                ELSE s.hops[n]]]

\* The body of the outer loop of CalculateRoute: s is the search (its queue,
\* distances and next hops) and now the node whose neighbours it looks at.
Expand(links, s, now) ==
  LET nbrs == {n \in Node : <<now, n>> \in links}
      new  == nbrs \ DOMAIN s.dis
      d    == s.dis[now] + 1
      dis  == [n \in DOMAIN s.dis \cup new |-> IF n \in new THEN d ELSE s.dis[n]]
  IN  [q    |-> s.q \o InOrder(new \cap Switch),
       dis  |-> dis,
       hops |-> [n \in Node |-> IF n \in nbrs /\ dis[n] = d THEN Append(s.hops[n], now)
                                ELSE s.hops[n]]]

\* CalculateRoute: Search(links, h)[i] is the search from host h over the links
\* that are up after i rounds of the outer loop.
Search(links, h) ==
  LET search[i \in Nat] ==
        IF i = 0
        THEN [q |-> <<h>>, dis |-> [n \in {h} |-> 0], hops |-> [n \in Node |-> <<>>]]
        ELSE LET s == search[i - 1]
             IN  IF i <= Len(s.q) THEN Expand(links, s, s.q[i]) ELSE s
  IN  search

\* No node is queued twice: the loop has ended after a round for every node.
CalculateRoute(links, h) == Search(links, h)[Cardinality(Node)].hops

\* CalculateRoutes: the searches of all hosts append to what nextHop holds.
CalculateRoutes(found, links) ==
  LET hops == [h \in Host |-> CalculateRoute(links, h)]
  IN  [n \in Node |-> [h \in Host |-> found[n][h] \o hops[h][n]]]

\* Slip: the tables are not cleared.
ClearTable_Kept == rtTable

\* ClearTable of SwitchNode and of RdmaHw, on every node.
ClearTable == NoRoutes

\* SetRoutingEntries with AddTableEntry: every next hop is pushed back.
SetRoutingEntries(table, hops) ==
  [n \in Node |-> [h \in Host |-> table[n][h] \o hops[n][h]]]

\* RdmaHw::GetNicIdxOfQp and GetNicIdxOfRxQp: the entry of v the hash selects.
GetNicIdxOfQp(v, hash) == v[(hash % Len(v)) + 1]

\* Slip: the groups are not cleared first.
RedistributeQp_NoClear(table, h) ==
  [n \in Node |-> qpGrp[h][n] \cup
     {f \in Qp : /\ f.src = h /\ status[f] = "live"
                 /\ GetNicIdxOfQp(table[h][f.dst], f.hash) = n}]

\* RdmaHw::RedistributeQp: every queue pair of m_qpMap is given a NIC again.
RedistributeQp(table, h) ==
  [n \in Node |-> {f \in Qp : /\ f.src = h /\ status[f] = "live"
                              /\ GetNicIdxOfQp(table[h][f.dst], f.hash) = n}]
-----------------------------------------------------------------------------
\* RdmaHw::AddQueuePair; without a route the assertion of GetNicIdxOfQp fails.
AddQueuePair(f) ==
  /\ ~ aborted
  /\ status[f] = "new"
  /\ LET v == rtTable[f.src][f.dst]
     IN  \/ /\ v # <<>>
            /\ status' = [status EXCEPT ![f] = "live"]
            /\ qpGrp' = [qpGrp EXCEPT ![f.src][GetNicIdxOfQp(v, f.hash)] = @ \cup {f}]
            /\ UNCHANGED aborted
         \/ /\ v = <<>>
            /\ aborted' = TRUE
            /\ UNCHANGED <<status, qpGrp>>
  /\ UNCHANGED <<up, nextHop, rtTable, net>>

\* RdmaHw::QpComplete; the NIC's group is compacted later (QbbNic).
QpComplete(f) ==
  /\ ~ aborted
  /\ status[f] = "live"
  /\ status' = [status EXCEPT ![f] = "done"]
  /\ qpGrp' = [qpGrp EXCEPT ![f.src] = [n \in Node |-> qpGrp[f.src][n] \ {f}]]
  /\ UNCHANGED <<up, nextHop, rtTable, net, aborted>>

\* A NIC sends a packet of a queue pair of its group.
Send(f, n) ==
  /\ ~ aborted
  /\ f \in qpGrp[f.src][n] /\ <<f.src, n>> \in up
  /\ \E i \in PktId : /\ net[i] = None /\ \A j \in PktId : j < i => net[j] # None
                      /\ net' = [net EXCEPT ![i] = [qp |-> f, from |-> f.src, to |-> n]]
  /\ UNCHANGED <<up, nextHop, rtTable, status, qpGrp, aborted>>

\* SwitchNode::SendToDev with GetOutDev: a packet without a route is dropped,
\* the others go to a next hop that depends on a hash of their addresses.
Forward(i) ==
  LET p  == net[i]
      v  == rtTable[p.to][p.qp.dst]
  IN  /\ ~ aborted
      /\ p # None
      /\ p.to \in Switch
      /\ \/ v = <<>> /\ net' = [net EXCEPT ![i] = None]
         \/ \E k \in 1..Len(v) :
              net' = [net EXCEPT ![i] = [qp |-> p.qp, from |-> p.to, to |-> v[k]]]
      /\ UNCHANGED <<up, nextHop, rtTable, status, qpGrp, aborted>>

\* RdmaHw::ReceiveUdp: the receiver looks for its way back.
Deliver(i) ==
  LET p == net[i]
  IN  /\ ~ aborted
      /\ p # None
      /\ p.to \in Host
      /\ net' = [net EXCEPT ![i] = None]
      /\ aborted' = (rtTable[p.to][p.qp.src] = <<>>)
      /\ UNCHANGED <<up, nextHop, rtTable, status, qpGrp>>

\* What is queued for the link or on it is lost: TakeDown, and Receive drops it.
LostWith(w) ==
  [i \in PktId |-> IF net[i] # None /\ {net[i].from, net[i].to} = {w[1], w[2]}
                   THEN None ELSE net[i]]

\* Slip: the queue pairs are redistributed before the entries are set.
TakeDownLink_EarlyRedistribute(w) ==
  LET links == up \ {w, <<w[2], w[1]>>}
      hops  == CalculateRoutes(NoRoutes, links)
      cut   == \E f \in Qp : status[f] = "live" /\ ClearTable[f.src][f.dst] = <<>>
  IN  /\ ~ aborted
      /\ w \in up
      /\ up' = links
      /\ nextHop' = hops
      /\ rtTable' = SetRoutingEntries(ClearTable, hops)
      /\ net' = LostWith(w)
      /\ aborted' = cut
      /\ qpGrp' = IF cut THEN qpGrp ELSE [h \in Host |-> RedistributeQp(ClearTable, h)]
      /\ UNCHANGED status

\* TakeDownLink with ClearTable, TakeDown, SetRoutingEntries and RedistributeQp.
TakeDownLink(w) ==
  LET links == up \ {w, <<w[2], w[1]>>}
      hops  == CalculateRoutes(NoRoutes, links)
      table == SetRoutingEntries(ClearTable, hops)
      cut   == \E f \in Qp : status[f] = "live" /\ table[f.src][f.dst] = <<>>
  IN  /\ ~ aborted
      /\ w \in up
      /\ up' = links
      /\ nextHop' = hops
      /\ rtTable' = table
      /\ net' = LostWith(w)
      /\ aborted' = cut
      /\ qpGrp' = IF cut THEN qpGrp ELSE [h \in Host |-> RedistributeQp(table, h)]
      /\ UNCHANGED status

BothWays == Wire \cup {<<w[2], w[1]>> : w \in Wire}

Init ==
  /\ up = BothWays
  /\ nextHop = CalculateRoutes(NoRoutes, up)
  /\ rtTable = SetRoutingEntries(NoRoutes, nextHop)
  /\ status = [f \in Qp |-> "new"]
  /\ qpGrp = [h \in Host |-> [n \in Node |-> {}]]
  /\ net = [i \in PktId |-> None]
  /\ aborted = FALSE

Traffic ==
  \/ \E f \in Qp : AddQueuePair(f) \/ QpComplete(f) \/ \E n \in Node : Send(f, n)
  \/ \E i \in PktId : Forward(i) \/ Deliver(i)

Next ==
  \/ Traffic
  \/ \E w \in Wire : Cardinality(BothWays \ up) < 2 * Fails /\ TakeDownLink(w)

Spec == Init /\ [][Next]_vars

\* A packet in a queue or on a wire goes on: the delivery is a scheduled event.
FairSpec == Spec /\ \A i \in PktId : WF_vars(Forward(i) \/ Deliver(i))
-----------------------------------------------------------------------------
\* Reference: the nodes within k hops of host h, where only switches forward.
Ball(links, h) ==
  LET ball[k \in Nat] ==
        IF k = 0 THEN {h}
        ELSE LET b == ball[k - 1]
             IN  b \cup {n \in Node : \E m \in b \cap (Switch \cup {h}) : <<n, m>> \in links}
  IN  ball

Within(h, k) == Ball(up, h)[k]

Reaches(n, h) == n \in Within(h, Cardinality(Node))

\* The tables hold, for every node and host, exactly the neighbours one hop
\* closer over links that are up, each once: all shortest paths, no loop, and
\* never a link that is down ("The routing table look up should return link
\* that is up").  After every failure, with the links that are left.
RoutesAreShortest ==
  \A h \in Host :
    /\ \A n \in Node \ Within(h, Cardinality(Node)) : rtTable[n][h] = <<>>
    /\ \A k \in 1..Cardinality(Node) :
         LET closer == Within(h, k - 1)
         IN  \A n \in Within(h, k) \ closer :
               /\ IsInjective(rtTable[n][h])
               /\ ToSet(rtTable[n][h]) =
                    {m \in closer \cap (Switch \cup {h}) : {<<n, m>>, <<m, n>>} \subseteq up}

\* A live queue pair is in the group of exactly one NIC, the one that ReceiveAck
\* will look for with GetNicIdxOfQp, and the link of that NIC is up.
LiveQpServed ==
  ~ aborted => \A f \in Qp : status[f] = "live" =>
    LET in == {n \in Node : f \in qpGrp[f.src][n]}
    IN  /\ in = {GetNicIdxOfQp(rtTable[f.src][f.dst], f.hash)}
        /\ \A n \in in : <<f.src, n>> \in up

\* "We assume at least one NIC is alive": the assertion fails only when the
\* failures have really separated the two hosts of a queue pair.
AbortOnlyWhenCut == aborted => \E f \in Qp : ~ Reaches(f.src, f.dst)

\* Every packet is delivered or dropped, also one that is under way along old
\* routes when the tables are rebuilt: it is never sent in circles.
NoPacketCirculates ==
  \A i \in PktId : net[i] # None ~> net[i] = None \/ aborted
=============================================================================
