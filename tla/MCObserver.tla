----------------------------- MODULE MCObserver -----------------------------
(* Three nodes in a line; without a client the last one starts alone.       *)
EXTENDS Observer

NodesDef == {1, 2, 3}
LinkCostDef == [n \in NodesDef |-> [m \in {n - 1, n + 1} \cap NodesDef |-> n + m]]
FreshLinksDef == {<<1, 2>>}
SettledLinksDef == {<<1, 2>>, <<2, 3>>}
=============================================================================
