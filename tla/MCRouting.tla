------------------------------ MODULE MCRouting ------------------------------
(***************************************************************************)
(* Instances of Routing for TLC: small networks, what discovery answers in *)
(* them, and what applications send.                                       *)
(***************************************************************************)
EXTENDS Routing

CONSTANTS n1, n2, n3, n4, k1

Graph(edges) == [n \in Node |-> {m \in Node : {n, m} \in edges}]
LineAndOne == Graph({{n1, n2}, {n2, n3}})

LastCluster == [n \in Node |-> IF n = n3 THEN k1 ELSE NoCluster]

To(node) == [node |-> node, cluster |-> NoCluster]
ToCluster == [node |-> Broadcast, cluster |-> k1]

(* Towards the end of the line, which is its cluster; for n4, which nobody  *)
(* reaches, any neighbor, or none.                                          *)
OnTheWay == [n \in Node |-> [d \in Destination |->
  IF d.node = n4 THEN Neighbors[n]
  ELSE CASE n = n1 -> {n2} [] n = n2 -> {n3} [] n = n3 -> {n2} [] OTHER -> {}]]

OwnIds == [n \in Node |-> {n} \X IF n = n3 THEN 1..2 ELSE {1}]

AllKinds == [n \in Node |->
  CASE n = n1 -> {To(n3), ToCluster, To(n4)} [] n = n2 -> {Everyone}
    [] n = n3 -> {To(n1), To(Loopback)} [] OTHER -> {To(n1)}]
=============================================================================
