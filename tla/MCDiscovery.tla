----------------------------- MODULE MCDiscovery -----------------------------
(***************************************************************************)
(* Instances of Discovery for TLC: small networks and what is looked up.   *)
(***************************************************************************)
EXTENDS Discovery

CONSTANTS n1, n2, n3, n4, n5, k1

Line == {{n1, n2}, {n2, n3}, {n3, n4}, {n4, n5}}
Kite == {{n1, n2}, {n1, n3}, {n2, n3}, {n2, n4}}

Links(edges, CostOf(_)) ==
  [pair \in {p \in Node \X Node : {p[1], p[2]} \in edges} |-> CostOf({pair[1], pair[2]})]
Free(edge) == 0
Costly(edge) == IF edge = {n1, n2} THEN 2 ELSE 1
LineLinks == Links(Line, Costly)
FreeLineLinks == Links(Line, Free)
KiteLinks == Links(Kite, Costly)

AllCost0 == [n \in Node |-> 0]
AllCost1 == [n \in Node |-> 1]

NoClusters == [n \in Node |-> NoCluster]
LastCluster == [n \in Node |-> IF n = n4 THEN k1 ELSE NoCluster]
MiddleCluster == [n \in Node |-> IF n \in {n3, n4} THEN k1 ELSE NoCluster]

Discover(n, dest) == ByDiscovery
Fixed(n, dest) ==
  IF n = n3 /\ dest.node = n1 THEN n2 ELSE ByDiscovery

AsksFor(askers, node, cluster) ==
  [n \in Node |-> IF n \in askers THEN {[node |-> node, cluster |-> cluster]} ELSE {}]
TwoForLast == AsksFor({n1, n2}, n5, NoCluster)
OneForCluster == AsksFor({n1}, Broadcast, k1)
TwoForMember == AsksFor({n1, n3}, n4, k1)

(* All walks of fewer steps than there are nodes, where a step costs its    *)
(* link and the node it comes to, and the costs of the cheapest.            *)
Walk(from, to, cost) == [from |-> from, to |-> to, cost |-> cost]
Walks ==
  LET upTo[i \in 0..Cardinality(Node)] ==
        IF i = 0 THEN {Walk(n, n, 0) : n \in Node}
        ELSE UNION {{w} \cup {Walk(w.from, m, w.cost + Link[<<m, w.to>>] + NodeCost[m]) :
                              m \in Neighbors(w.to)} : w \in upTo[i - 1]}
  IN  upTo[Cardinality(Node) - 1]

Shortest ==
  [start \in Node \cup Cluster |-> [n \in Node |->
     Min({w.cost : w \in {v \in Walks : v.to = n /\ start \in {v.from, ClusterOf[v.from]}}}
           \cup {1000})]]
=============================================================================
